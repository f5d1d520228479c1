-------------------------- MODULE LinkedListProofs --------------------------
(***************************************************************************)
(* The pointer list of linked_list.c is what its callers take it for,      *)
(* whatever the number of addresses and the data: its nodes are a chain    *)
(* without a freed node, and every call on it is one step of ListSpec.     *)
(***************************************************************************)
EXTENDS LinkedList, SequenceTheorems, FiniteSetTheorems, WellFoundedInduction, TLAPS

(* The library's CHOOSE of a least element finds one.                      *)
LEMMA NatSetHasMin ==
  ASSUME NEW I, I \subseteq Nat, I # {}
  PROVE  /\ Min(I) \in I
         /\ \A j \in I : Min(I) <= j
<1> DEFINE R == {ss \in Nat \X Nat : ss[1] < ss[2]}
<1>0. OpToRel(<, Nat) = R
  BY DEF OpToRel
<1>1. IsWellFoundedOn(R, Nat)
  BY <1>0, NatLessThanWellFounded, Zenon
<1>2. PICK m \in I : \A y \in I : ~ (<<y, m>> \in R)
  <2> HIDE DEF R
  <2> QED BY <1>1, WFMin, Zenon
<1>3. \A y \in I : m <= y
  <2> TAKE y \in I
  <2>1. ~ (<<y, m>> \in R)
    BY <1>2
  <2>2. <<y, m>> \in Nat \X Nat
    BY SMT
  <2>3. ~ (y < m)
    BY <2>1, <2>2, Zenon
  <2> QED BY <2>3
<1> QED BY <1>3 DEF Min

-----------------------------------------------------------------------------
(* The sequence operators of ListSpec, position by position.               *)

(* A push puts one node in front and moves the others back by one.         *)
LEMMA ConsFacts ==
  ASSUME NEW S, NEW s \in Seq(S), NEW e \in S
  PROVE  /\ Cons(e, s) \in Seq(S)
         /\ Len(Cons(e, s)) = Len(s) + 1
         /\ Cons(e, s)[1] = e
         /\ \A i \in 1 .. Len(s) : Cons(e, s)[i + 1] = s[i]
BY DEF Cons

(* A pushed list contains the new element and what it contained.           *)
LEMMA ConsContains ==
  ASSUME NEW S, NEW s \in Seq(S), NEW e \in S, NEW x
  PROVE  Contains(Cons(e, s), x) <=> x = e \/ Contains(s, x)
<1> DEFINE t == Cons(e, s)
<1>0. /\ Len(t) = Len(s) + 1 /\ Len(s) \in Nat
      /\ t[1] = e
      /\ \A i \in 1 .. Len(s) : t[i + 1] = s[i]
  BY ONLY s \in Seq(S), e \in S DEF Cons
<1> HIDE DEF t
<1>1. ASSUME Contains(t, x) PROVE x = e \/ Contains(s, x)
  <2>1. PICK i \in 1 .. Len(t) : t[i] = x
    BY <1>1 DEF Contains
  <2>2. CASE i = 1  BY <2>1, <2>2, <1>0
  <2>3. CASE i # 1
    <3>1. i - 1 \in 1 .. Len(s) /\ (i - 1) + 1 = i  BY <2>3, <1>0
    <3> QED BY <3>1, <2>1, <1>0 DEF Contains
  <2> QED BY <2>2, <2>3
<1>2. ASSUME x = e PROVE Contains(t, x)
  BY <1>2, <1>0 DEF Contains
<1>3. ASSUME Contains(s, x) PROVE Contains(t, x)
  <2>1. PICK i \in 1 .. Len(s) : s[i] = x
    BY <1>3 DEF Contains
  <2>2. i + 1 \in 1 .. Len(t) /\ t[i + 1] = x
    BY <2>1, <1>0
  <2> QED BY <2>2 DEF Contains
<1> QED BY <1>1, <1>2, <1>3 DEF t

(* Pushing a datum that is not in a list without duplicates adds none.     *)
LEMMA ConsInjective ==
  ASSUME NEW S, NEW s \in Seq(S), NEW e \in S, IsInjective(s), ~ Contains(s, e)
  PROVE  IsInjective(Cons(e, s))
<1> DEFINE t == Cons(e, s)
<1>0. /\ t \in Seq(S) /\ Len(t) = Len(s) + 1 /\ Len(s) \in Nat
      /\ t[1] = e
      /\ \A i \in 1 .. Len(s) : t[i + 1] = s[i]
  BY ONLY s \in Seq(S), e \in S DEF Cons
<1>1. DOMAIN t = 1 .. Len(s) + 1 /\ DOMAIN s = 1 .. Len(s)
  BY <1>0
<1> HIDE DEF t
<1>2. \A i \in 2 .. Len(s) + 1 : i - 1 \in 1 .. Len(s) /\ t[i] = s[i - 1]
  <2> TAKE i \in 2 .. Len(s) + 1
  <2>1. i - 1 \in 1 .. Len(s) /\ (i - 1) + 1 = i
    BY <1>0
  <2> QED BY <2>1, <1>0
<1>3. \A i \in 2 .. Len(s) + 1 : t[i] # e
  <2> TAKE i \in 2 .. Len(s) + 1
  <2>1. s[i - 1] # e
    BY <1>2 DEF Contains
  <2> QED BY <1>2, <2>1
<1>4. ASSUME NEW i \in DOMAIN t, NEW j \in DOMAIN t, t[i] = t[j] PROVE i = j
  <2>1. CASE i = 1 \/ j = 1
    <3>1. i \in 1 .. Len(s) + 1 /\ j \in 1 .. Len(s) + 1
      BY <1>1
    <3> QED BY <2>1, <3>1, <1>0, <1>3, <1>4
  <2>2. CASE i # 1 /\ j # 1
    <3>1. i \in 2 .. Len(s) + 1 /\ j \in 2 .. Len(s) + 1
      BY <2>2, <1>0, <1>1
    <3>2. i - 1 \in DOMAIN s /\ j - 1 \in DOMAIN s /\ s[i - 1] = s[j - 1]
      BY <3>1, <1>1, <1>2, <1>4
    <3>3. i - 1 = j - 1
      BY <3>2 DEF IsInjective
    <3> QED BY <3>1, <3>3, <1>0
  <2> QED BY <2>1, <2>2
<1> QED BY <1>4 DEF IsInjective, t

(* Deleting a node keeps those in front and moves the ones behind it up.   *)
LEMMA RemoveAtFacts ==
  ASSUME NEW S, NEW s \in Seq(S), NEW i \in 1 .. Len(s)
  PROVE  /\ RemoveAt(s, i) \in Seq(S)
         /\ Len(RemoveAt(s, i)) = Len(s) - 1
         /\ \A j \in 1 .. Len(s) - 1 :
              RemoveAt(s, i)[j] = IF j < i THEN s[j] ELSE s[j + 1]
<1> DEFINE a == SubSeq(s, 1, i - 1)
           b == SubSeq(s, i + 1, Len(s))
<1>0. Len(s) \in Nat /\ \A j \in 1 .. Len(s) : s[j] \in S
  OBVIOUS
<1>1. /\ a \in Seq(S)
      /\ Len(a) = i - 1
      /\ \A j \in 1 .. i - 1 : a[j] = s[j]
  BY <1>0, SubSeqProperties
<1>2. /\ b \in Seq(S)
      /\ Len(b) = Len(s) - i
      /\ \A j \in 1 .. Len(s) - i : b[j] = s[i + j]
  BY <1>0, SubSeqProperties
<1>3. RemoveAt(s, i) = a \o b
  BY DEF RemoveAt
<1> HIDE DEF a, b
<1>4. /\ a \o b \in Seq(S)
      /\ Len(a \o b) = Len(a) + Len(b)
      /\ \A j \in 1 .. Len(a) + Len(b) :
           (a \o b)[j] = IF j <= Len(a) THEN a[j] ELSE b[j - Len(a)]
  BY <1>1, <1>2, ConcatProperties
<1>5. ASSUME NEW j \in 1 .. Len(s) - 1
      PROVE  (a \o b)[j] = IF j < i THEN s[j] ELSE s[j + 1]
  <2>1. CASE j < i  BY <2>1, <1>0, <1>1, <1>2, <1>4
  <2>2. CASE ~ (j < i)
    <3>1. j - (i - 1) \in 1 .. Len(s) - i /\ i + (j - (i - 1)) = j + 1
      BY <2>2, <1>0
    <3>2. b[j - (i - 1)] = s[j + 1]
      BY <3>1, <1>2
    <3>3. (a \o b)[j] = b[j - (i - 1)]
      <4>1. Len(a) = i - 1 /\ Len(b) = Len(s) - i
        BY ONLY <1>1, <1>2
      <4>2. j \in 1 .. Len(a) + Len(b) /\ ~ (j <= Len(a))
        BY ONLY <1>0, <2>2, <4>1, j \in 1 .. Len(s) - 1
      <4>3. (a \o b)[j] = b[j - Len(a)]
        BY ONLY <1>4, <4>2
      <4> QED BY ONLY <4>1, <4>3
    <3> QED BY <2>2, <3>2, <3>3
  <2> QED BY <2>1, <2>2
<1> QED BY <1>0, <1>1, <1>2, <1>3, <1>4, <1>5

(* delete_node takes out the first match.                                  *)
LEMMA RemoveFirstIndex ==
  ASSUME NEW S, NEW s \in Seq(S), NEW e, Contains(s, e)
  PROVE  \E i \in 1 .. Len(s) :
            /\ s[i] = e
            /\ \A j \in 1 .. i - 1 : s[j] # e
            /\ RemoveFirst(s, e) = RemoveAt(s, i)
<1> DEFINE I == {i \in 1 .. Len(s) : s[i] = e}
<1>1. I \subseteq Nat /\ I # {}
  BY DEF Contains
<1>2. Min(I) \in I /\ \A j \in I : Min(I) <= j
  <2> HIDE DEF I
  <2> QED BY <1>1, NatSetHasMin
<1>3. RemoveFirst(s, e) = RemoveAt(s, Min(I))
  BY <1>1 DEF RemoveFirst, SelectInSeq, Contains
<1>4. \A j \in 1 .. Min(I) - 1 : s[j] # e
  <2> SUFFICES ASSUME NEW j \in 1 .. Min(I) - 1, s[j] = e PROVE FALSE
    OBVIOUS
  <2>1. j \in I
    BY <1>2
  <2>2. Min(I) <= j /\ Min(I) \in Int
    BY <1>2, <2>1
  <2> QED BY <2>2
<1> QED BY <1>2, <1>3, <1>4

(* Contains in terms of the set of data.                                   *)
LEMMA ContainsIsInRange ==
  ASSUME NEW S, NEW s \in Seq(S), NEW x
  PROVE  Contains(s, x) <=> x \in Range(s)
<1>1. DOMAIN s = 1 .. Len(s)
  OBVIOUS
<1> QED BY <1>1 DEF Contains, Range

-----------------------------------------------------------------------------
(* The links lead from first over the nodes of p, each once, to NULL.      *)
Chain(p, first, link) ==
  /\ p \in Seq(Nodes) /\ IsInjective(p)
  /\ p = <<>> => first = NULL
  /\ p # <<>> => first = p[1]
  /\ \A k \in 1 .. Len(p) - 1 : link[p[k]] = p[k + 1]
  /\ p # <<>> => link[p[Len(p)]] = NULL

(* A list without a node twice is no longer than there are addresses.      *)
LEMMA ChainLength ==
  ASSUME NEW p \in Seq(Nodes), IsInjective(p)
  PROVE  Len(p) \in Nat /\ Len(p) <= Cardinality(Nodes) /\ Cardinality(Nodes) \in Nat
<1>1. DOMAIN p = 1 .. Len(p) /\ Len(p) \in Nat /\ p \in [1 .. Len(p) -> Nodes]
  OBVIOUS
<1>2. p \in Injection(1 .. Len(p), Nodes)
  BY <1>1 DEF Injection, IsInjective
<1>3. Cardinality(1 .. Len(p)) <= Cardinality(Nodes)
  BY <1>2, FS_Injection, NodesAssumption
<1>4. Cardinality(1 .. Len(p)) = Len(p)
  <2>1. Len(p) \in Nat /\ 1 \in Int /\ Len(p) \in Int
    BY <1>1
  <2>2. Cardinality(1 .. Len(p)) = IF 1 > Len(p) THEN 0 ELSE Len(p) - 1 + 1
    BY ONLY <2>1, FS_Interval
  <2> QED BY ONLY <2>1, <2>2
<1>5. Cardinality(Nodes) \in Nat
  BY NodesAssumption, FS_CardinalityType
<1> QED BY <1>1, <1>3, <1>4, <1>5

(* The nodes of a chain are what a walk from its first node reaches.       *)
LEMMA ChainIsPath ==
  ASSUME NEW p, NEW first, NEW link, Chain(p, first, link)
  PROVE  PathFrom(first, link) = p
<1> DEFINE D == 1 .. Cardinality(Nodes) + 1
           successor == [a \in Address |-> IF a = NULL THEN NULL ELSE link[a]]
           Walk(g) == g = [k \in D |-> IF k = 1 THEN first ELSE successor[g[k - 1]]]
           node == CHOOSE g : Walk(g)
           f == [k \in D |-> IF k <= Len(p) THEN p[k] ELSE NULL]
<1>1. PathFrom(first, link) = [k \in {k \in DOMAIN node : node[k] # NULL} |-> node[k]]
  BY DEF PathFrom
<1>2. /\ p \in Seq(Nodes) /\ Len(p) \in Nat /\ DOMAIN p = 1 .. Len(p)
      /\ Len(p) <= Cardinality(Nodes) /\ Cardinality(Nodes) \in Nat
      /\ \A k \in 1 .. Len(p) : p[k] \in Nodes /\ p[k] # NULL
  BY ChainLength, NodesAssumption DEF Chain
<1>3. \A k \in D : f[k] = IF k = 1 THEN first ELSE successor[f[k - 1]]
  <2> SUFFICES ASSUME NEW k \in D PROVE f[k] = IF k = 1 THEN first ELSE successor[f[k - 1]]
    OBVIOUS
  <2>1. f[k] = IF k <= Len(p) THEN p[k] ELSE NULL
    OBVIOUS
  <2>2. CASE k = 1
    <3>1. p = <<>> <=> Len(p) = 0
      BY <1>2
    <3> QED BY <1>2, <2>1, <2>2, <3>1 DEF Chain
  <2>3. CASE k # 1
    <3>1. k - 1 \in D /\ k - 1 \in Nat /\ k - 1 >= 1
      BY <1>2, <2>3
    <3>2. f[k - 1] = IF k - 1 <= Len(p) THEN p[k - 1] ELSE NULL
      BY <3>1
    <3>3. CASE k <= Len(p)
      <4>1. k - 1 \in 1 .. Len(p) - 1 /\ (k - 1) + 1 = k
        BY <1>2, <3>1, <3>3
      <4>2. link[p[k - 1]] = p[k] /\ p[k - 1] \in Nodes /\ p[k - 1] # NULL
        BY <1>2, <4>1 DEF Chain
      <4> QED BY <1>2, <2>1, <2>3, <3>2, <3>3, <4>1, <4>2 DEF Address
    <3>4. CASE k = Len(p) + 1
      <4>1. k - 1 = Len(p) /\ Len(p) \in 1 .. Len(p) /\ p # <<>>
        BY <1>2, <3>1, <3>4
      <4>2. link[p[Len(p)]] = NULL /\ p[Len(p)] \in Nodes /\ p[Len(p)] # NULL
        BY <1>2, <4>1 DEF Chain
      <4>3. f[k - 1] = p[Len(p)]
        BY <3>2, <4>1
      <4>4. successor[f[k - 1]] = NULL
        BY <4>2, <4>3 DEF Address
      <4> QED BY <1>2, <2>1, <2>3, <3>4, <4>4
    <3>5. CASE k > Len(p) + 1
      <4>1. f[k - 1] = NULL
        BY <1>2, <3>1, <3>2, <3>5
      <4>2. successor[NULL] = NULL
        BY DEF Address
      <4> QED BY <1>2, <2>1, <2>3, <3>5, <4>1, <4>2
    <3> QED BY <1>2, <3>3, <3>4, <3>5
  <2> QED BY <2>2, <2>3
<1>4. Walk(f)
  <2> DEFINE g == [k \in D |-> IF k = 1 THEN first ELSE successor[f[k - 1]]]
  <2>1. DOMAIN f = D /\ f = [k \in D |-> f[k]]
    BY Zenon
  <2>2. f = g
    <3> HIDE DEF D, f, successor
    <3> QED BY <1>3, <2>1
  <2> QED BY <2>2
<1>5. Walk(node)
  <2> HIDE DEF f, D, successor
  <2> QED BY ONLY <1>4
<1>6. node = f
  <2>1. DOMAIN node = D /\ \A k \in D : node[k] = IF k = 1 THEN first ELSE successor[node[k - 1]]
    <3> HIDE DEF node, D, successor
    <3> QED BY <1>5
  <2> HIDE DEF node
  <2> DEFINE Differ == {k \in D : node[k] # f[k]}
  <2>2. ASSUME Differ # {} PROVE FALSE
    <3> DEFINE m == Min(Differ)
    <3>1. Differ \subseteq Nat
      BY <1>2
    <3>2. m \in Differ /\ \A k \in Differ : m <= k
      <4> HIDE DEF Differ
      <4> QED BY <2>2, <3>1, NatSetHasMin
    <3> HIDE DEF m
    <3>3. m \in D /\ node[m] # f[m]
      BY <3>2
    <3>4. m # 1
      BY <1>3, <2>1, <3>3
    <3>5. m - 1 \in D /\ ~ (m <= m - 1)
      BY <1>2, <3>3, <3>4
    <3>6. node[m - 1] = f[m - 1]
      BY <3>2, <3>5
    <3> HIDE DEF f, D, successor
    <3> QED BY <1>3, <2>1, <3>3, <3>4, <3>6
  <2>3. \A k \in D : node[k] = f[k]
    BY <2>2
  <2>4. node = [k \in D |-> node[k]]
    <3>1. node = [k \in D |-> IF k = 1 THEN first ELSE successor[node[k - 1]]]
      BY <1>5
    <3> QED BY <3>1, Zenon
  <2>5. DOMAIN f = D /\ f = [k \in D |-> f[k]]
    BY Zenon
  <2> HIDE DEF f, D
  <2> QED BY <2>3, <2>4, <2>5
<1>7. {k \in D : f[k] # NULL} = 1 .. Len(p)
  BY <1>2
<1>8. PathFrom(first, link) = [k \in 1 .. Len(p) |-> f[k]]
  <2>1. DOMAIN node = D
    BY <1>6
  <2> HIDE DEF node, f, D
  <2> QED BY <1>1, <1>6, <1>7, <2>1
<1>9. \A k \in 1 .. Len(p) : f[k] = p[k]
  BY <1>2
<1>10. p = [k \in 1 .. Len(p) |-> p[k]]
  BY <1>2
<1> HIDE DEF f
<1> QED BY <1>8, <1>9, <1>10

(* A chain node by node: every link of it is the next node, or NULL.       *)
LEMMA ChainNodes ==
  ASSUME NEW p, NEW first, NEW link, Chain(p, first, link)
  PROVE  /\ Len(p) \in Nat /\ DOMAIN p = 1 .. Len(p) /\ (p = <<>> <=> Len(p) = 0)
         /\ first = IF Len(p) = 0 THEN NULL ELSE p[1]
         /\ \A k \in 1 .. Len(p) :
              /\ p[k] \in Nodes /\ p[k] # NULL
              /\ link[p[k]] = IF k = Len(p) THEN NULL ELSE p[k + 1]
         /\ \A j, k \in 1 .. Len(p) : p[j] = p[k] => j = k
<1>1. p \in Seq(Nodes) /\ IsInjective(p)
  BY DEF Chain
<1>2. Len(p) \in Nat /\ DOMAIN p = 1 .. Len(p) /\ (p = <<>> <=> Len(p) = 0)
  BY <1>1
<1>3. \A k \in 1 .. Len(p) : p[k] \in Nodes /\ p[k] # NULL
  BY <1>1, NodesAssumption
<1>4. \A j, k \in 1 .. Len(p) : p[j] = p[k] => j = k
  BY <1>1, <1>2 DEF IsInjective
<1>5. first = IF Len(p) = 0 THEN NULL ELSE p[1]
  BY <1>2 DEF Chain
<1>6. ASSUME NEW k \in 1 .. Len(p)
      PROVE  link[p[k]] = IF k = Len(p) THEN NULL ELSE p[k + 1]
  <2>1. CASE k = Len(p)
    BY <1>2, <2>1 DEF Chain
  <2>2. CASE k # Len(p)
    <3>1. k \in 1 .. Len(p) - 1
      <4>1. Len(p) \in Nat
        BY <1>2
      <4> QED BY ONLY <4>1, <2>2, k \in 1 .. Len(p)
    <3> QED BY <2>2, <3>1 DEF Chain
  <2> QED BY <2>1, <2>2
<1> QED BY <1>2, <1>3, <1>4, <1>5, <1>6

LEMMA NodesChain ==
  ASSUME NEW p \in Seq(Nodes), NEW first, NEW link,
         first = IF Len(p) = 0 THEN NULL ELSE p[1],
         \A k \in 1 .. Len(p) : link[p[k]] = IF k = Len(p) THEN NULL ELSE p[k + 1],
         \A j, k \in 1 .. Len(p) : p[j] = p[k] => j = k
  PROVE  Chain(p, first, link)
<1>1. Len(p) \in Nat /\ DOMAIN p = 1 .. Len(p) /\ (p = <<>> <=> Len(p) = 0)
  OBVIOUS
<1>2. IsInjective(p)
  BY <1>1 DEF IsInjective
<1>3. Len(p) \in Nat
  BY <1>1
<1>4. \A k \in 1 .. Len(p) - 1 : k \in 1 .. Len(p) /\ k # Len(p)
  BY ONLY <1>3
<1>5. Len(p) # 0 => Len(p) \in 1 .. Len(p)
  BY ONLY <1>3
<1>6. \A k \in 1 .. Len(p) - 1 : link[p[k]] = p[k + 1]
  BY <1>4
<1>7. p # <<>> => link[p[Len(p)]] = NULL
  BY <1>1, <1>5
<1>8. /\ p = <<>> => first = NULL
      /\ p # <<>> => first = p[1]
  BY <1>1
<1> QED BY <1>2, <1>6, <1>7, <1>8 DEF Chain

(* create_node in front of a chain.                                        *)
LEMMA ChainPush ==
  ASSUME NEW p, NEW first, NEW link \in [Nodes -> Address], Chain(p, first, link),
         NEW n \in Nodes, \A k \in 1 .. Len(p) : p[k] # n
  PROVE  Chain(Cons(n, p), n, [link EXCEPT ![n] = first])
<1> DEFINE t == Cons(n, p)
           l == [link EXCEPT ![n] = first]
<1>1. p \in Seq(Nodes)
  BY DEF Chain
<1>2. /\ t \in Seq(Nodes) /\ Len(t) = Len(p) + 1 /\ t[1] = n
      /\ \A i \in 1 .. Len(p) : t[i + 1] = p[i]
  BY <1>1, ConsFacts
<1>3. /\ Len(p) \in Nat
      /\ first = IF Len(p) = 0 THEN NULL ELSE p[1]
      /\ \A k \in 1 .. Len(p) : p[k] \in Nodes /\ link[p[k]] = IF k = Len(p) THEN NULL ELSE p[k + 1]
      /\ \A j, k \in 1 .. Len(p) : p[j] = p[k] => j = k
  BY ChainNodes
<1>4. l[n] = first /\ \A m \in Nodes : m # n => l[m] = link[m]
  OBVIOUS
<1> HIDE DEF t, l
<1>5. \A k \in 1 .. Len(t) : k # 1 => k - 1 \in 1 .. Len(p) /\ t[k] = p[k - 1]
  <2> SUFFICES ASSUME NEW k \in 1 .. Len(t), k # 1 PROVE k - 1 \in 1 .. Len(p) /\ t[k] = p[k - 1]
    OBVIOUS
  <2>1. k - 1 \in 1 .. Len(p) /\ (k - 1) + 1 = k
    BY <1>2, <1>3
  <2> QED BY <1>2, <2>1
<1>6. ASSUME NEW k \in 1 .. Len(t)
      PROVE  l[t[k]] = IF k = Len(t) THEN NULL ELSE t[k + 1]
  <2>1. CASE k = 1
    <3>1. Len(p) # 0 => 1 \in 1 .. Len(p) /\ t[1 + 1] = p[1]
      BY <1>2, <1>3
    <3> QED BY <1>2, <1>3, <1>4, <2>1, <3>1
  <2>2. CASE k # 1
    <3>1. k - 1 \in 1 .. Len(p) /\ t[k] = p[k - 1]
      BY <1>5, <2>2
    <3>2. l[t[k]] = IF k - 1 = Len(p) THEN NULL ELSE p[(k - 1) + 1]
      BY <1>3, <1>4, <3>1
    <3>3. k # Len(t) => k \in 1 .. Len(p) /\ t[k + 1] = p[k]
      BY <1>2, <1>3
    <3>4. (k - 1) + 1 = k /\ (k - 1 = Len(p) <=> k = Len(t))
      BY <1>2, <1>3
    <3> QED BY <3>2, <3>3, <3>4
  <2> QED BY <2>1, <2>2
<1>7. ASSUME NEW j \in 1 .. Len(t), NEW k \in 1 .. Len(t), t[j] = t[k] PROVE j = k
  <2>1. CASE j = 1 \/ k = 1
    BY <1>2, <1>5, <1>7, <2>1
  <2>2. CASE j # 1 /\ k # 1
    <3>1. j - 1 = k - 1
      BY <1>3, <1>5, <1>7, <2>2
    <3> QED BY <2>2, <3>1
  <2> QED BY <2>1, <2>2
<1>8. n = IF Len(t) = 0 THEN NULL ELSE t[1]
  BY <1>2, <1>3
<1>9. Chain(t, n, l)
  BY <1>2, <1>6, <1>7, <1>8, NodesChain
<1> QED BY <1>9 DEF t, l

(* delete_node at the head.                                                *)
LEMMA ChainDropHead ==
  ASSUME NEW p, NEW first, NEW link \in [Nodes -> Address], Chain(p, first, link), p # <<>>
  PROVE  Chain(RemoveAt(p, 1), link[first], [link EXCEPT ![first] = NULL])
<1> DEFINE t == RemoveAt(p, 1)
           l == [link EXCEPT ![first] = NULL]
<1>1. p \in Seq(Nodes)
  BY DEF Chain
<1>2. /\ Len(p) \in Nat /\ Len(p) # 0 /\ first = p[1] /\ 1 \in 1 .. Len(p)
      /\ \A k \in 1 .. Len(p) : p[k] \in Nodes /\ link[p[k]] = IF k = Len(p) THEN NULL ELSE p[k + 1]
      /\ \A j, k \in 1 .. Len(p) : p[j] = p[k] => j = k
  BY ChainNodes
<1>3. /\ t \in Seq(Nodes) /\ Len(t) = Len(p) - 1
      /\ \A j \in 1 .. Len(p) - 1 : t[j] = IF j < 1 THEN p[j] ELSE p[j + 1]
  BY <1>1, <1>2, RemoveAtFacts
<1>4. \A m \in Nodes : m # first => l[m] = link[m]
  OBVIOUS
<1> HIDE DEF t, l
<1>5. \A k \in 1 .. Len(t) : k + 1 \in 1 .. Len(p) /\ t[k] = p[k + 1]
  BY <1>2, <1>3
<1>6. ASSUME NEW k \in 1 .. Len(t)
      PROVE  l[t[k]] = IF k = Len(t) THEN NULL ELSE t[k + 1]
  <2>1. k + 1 \in 1 .. Len(p) /\ t[k] = p[k + 1]
    BY <1>5
  <2>2. p[k + 1] # first
    BY <1>2, <2>1
  <2>3. l[t[k]] = IF k + 1 = Len(p) THEN NULL ELSE p[(k + 1) + 1]
    BY <1>2, <1>4, <2>1, <2>2
  <2>4. k + 1 = Len(p) <=> k = Len(t)
    BY <1>2, <1>3
  <2>5. k # Len(t) => k + 1 \in 1 .. Len(t)
    BY <1>2, <1>3
  <2> QED BY <1>5, <2>3, <2>4, <2>5
<1>7. ASSUME NEW j \in 1 .. Len(t), NEW k \in 1 .. Len(t), t[j] = t[k] PROVE j = k
  <2>1. j + 1 = k + 1
    BY <1>2, <1>5, <1>7
  <2> QED BY <2>1
<1>8. link[first] = IF Len(t) = 0 THEN NULL ELSE t[1]
  <2>1. link[first] = IF 1 = Len(p) THEN NULL ELSE p[1 + 1]
    BY <1>2
  <2>2. 1 # Len(p) => 1 \in 1 .. Len(t)
    BY <1>2, <1>3
  <2>3. 1 = Len(p) <=> Len(t) = 0
    BY <1>2, <1>3
  <2> QED BY <1>5, <2>1, <2>2, <2>3
<1>9. Chain(t, link[first], l)
  BY <1>3, <1>6, <1>7, <1>8, NodesChain
<1> QED BY <1>9 DEF t, l

(* delete_node at the node after the j-th.                                 *)
LEMMA ChainUnlink ==
  ASSUME NEW p, NEW first, NEW link \in [Nodes -> Address], Chain(p, first, link),
         NEW j \in 1 .. Len(p), j # Len(p)
  PROVE  /\ j + 1 \in 1 .. Len(p)
         /\ Chain(RemoveAt(p, j + 1), first,
                  [link EXCEPT ![p[j]] = link[p[j + 1]], ![p[j + 1]] = NULL])
<1> DEFINE t == RemoveAt(p, j + 1)
           l == [link EXCEPT ![p[j]] = link[p[j + 1]], ![p[j + 1]] = NULL]
<1>1. p \in Seq(Nodes)
  BY DEF Chain
<1>2. /\ Len(p) \in Nat /\ first = IF Len(p) = 0 THEN NULL ELSE p[1]
      /\ \A k \in 1 .. Len(p) : p[k] \in Nodes /\ link[p[k]] = IF k = Len(p) THEN NULL ELSE p[k + 1]
      /\ \A i, k \in 1 .. Len(p) : p[i] = p[k] => i = k
  BY ChainNodes
<1>3. j + 1 \in 1 .. Len(p) /\ j \in Nat /\ j >= 1
  BY <1>2
<1>4. /\ t \in Seq(Nodes) /\ Len(t) = Len(p) - 1
      /\ \A k \in 1 .. Len(p) - 1 : t[k] = IF k < j + 1 THEN p[k] ELSE p[k + 1]
  BY <1>1, <1>3, RemoveAtFacts
<1>5. /\ p[j] \in Nodes /\ p[j + 1] \in Nodes /\ p[j] # p[j + 1]
      /\ link[p[j]] = p[j + 1]
      /\ link[p[j + 1]] = IF j + 1 = Len(p) THEN NULL ELSE p[(j + 1) + 1]
  BY <1>2, <1>3
<1>6. /\ l[p[j]] = link[p[j + 1]]
      /\ \A m \in Nodes : m # p[j] /\ m # p[j + 1] => l[m] = link[m]
  BY <1>5
<1> HIDE DEF t, l
<1>7. ASSUME NEW k \in 1 .. Len(t)
      PROVE  l[t[k]] = IF k = Len(t) THEN NULL ELSE t[k + 1]
  <2>1. CASE k < j
    <3>0. /\ k \in 1 .. Len(p) - 1 /\ k \in 1 .. Len(p) /\ k # Len(p) /\ k # j /\ k # j + 1
          /\ k < j + 1 /\ k # Len(p) - 1 /\ k + 1 \in 1 .. Len(p) - 1 /\ k + 1 < j + 1
      <4>1. k \in 1 .. Len(p) - 1 /\ Len(p) \in Nat
        BY <1>2, <1>4
      <4> QED BY ONLY <1>3, <2>1, <4>1
    <3>1. /\ t[k] = p[k] /\ k \in 1 .. Len(p) /\ k # Len(p) /\ k # j /\ k # j + 1
          /\ k # Len(t) /\ k + 1 \in 1 .. Len(p) - 1 /\ k + 1 < j + 1
      BY ONLY <1>4, <3>0
    <3>2. p[k] # p[j] /\ p[k] # p[j + 1]
      BY <1>2, <1>3, <3>1
    <3>3. l[p[k]] = p[k + 1]
      BY <1>2, <1>6, <3>1, <3>2
    <3> QED BY <1>4, <3>1, <3>3
  <2>2. CASE k = j
    <3>1. t[k] = p[j]
      BY <1>2, <1>3, <1>4, <2>2
    <3>2. j + 1 = Len(p) <=> k = Len(t)
      BY <1>2, <1>3, <1>4, <2>2
    <3>3. k # Len(t) => t[k + 1] = p[(j + 1) + 1]
      <4>1. k # Len(t) => k + 1 \in 1 .. Len(p) - 1 /\ ~ (k + 1 < j + 1)
        BY <1>2, <1>3, <1>4, <2>2
      <4> QED BY <1>4, <2>2, <4>1
    <3> QED BY <1>5, <1>6, <3>1, <3>2, <3>3
  <2>3. CASE k > j
    <3>1. /\ t[k] = p[k + 1] /\ k + 1 \in 1 .. Len(p) /\ k + 1 # j /\ k + 1 # j + 1
          /\ (k + 1 = Len(p) <=> k = Len(t))
          /\ k # Len(t) => k + 1 \in 1 .. Len(p) - 1 /\ ~ (k + 1 < j + 1)
      <4>1. /\ k \in 1 .. Len(p) - 1 /\ ~ (k < j + 1)
            /\ k + 1 \in 1 .. Len(p) /\ k + 1 # j /\ k + 1 # j + 1
            /\ (k + 1 = Len(p) <=> k = Len(t))
            /\ k # Len(t) => k + 1 \in 1 .. Len(p) - 1 /\ ~ (k + 1 < j + 1)
        <5>1. Len(p) \in Nat /\ Len(t) = Len(p) - 1
          BY <1>2, <1>4
        <5> QED BY ONLY <1>3, <2>3, <5>1, k \in 1 .. Len(t)
      <4> QED BY <1>4, <4>1
    <3>2. p[k + 1] # p[j] /\ p[k + 1] # p[j + 1]
      BY <1>2, <1>3, <3>1
    <3>3. l[t[k]] = IF k + 1 = Len(p) THEN NULL ELSE p[(k + 1) + 1]
      BY <1>2, <1>6, <3>1, <3>2
    <3>4. k # Len(t) => t[k + 1] = p[(k + 1) + 1]
      BY <1>4, <3>1
    <3> QED BY <3>1, <3>3, <3>4
  <2> QED BY <1>2, <1>3, <1>4, <2>1, <2>2, <2>3
<1>8. ASSUME NEW i \in 1 .. Len(t), NEW k \in 1 .. Len(t), t[i] = t[k] PROVE i = k
  <2> DEFINE at(x) == IF x < j + 1 THEN x ELSE x + 1
  <2>1. \A x \in 1 .. Len(t) : at(x) \in 1 .. Len(p) /\ t[x] = p[at(x)]
    BY <1>2, <1>3, <1>4
  <2>2. at(i) = at(k)
    <3> HIDE DEF at
    <3>1. p[at(i)] = p[at(k)] /\ at(i) \in 1 .. Len(p) /\ at(k) \in 1 .. Len(p)
      BY <1>8, <2>1
    <3> QED BY <1>2, <3>1
  <2> QED BY <1>2, <1>3, <1>4, <2>2
<1>9. first = IF Len(t) = 0 THEN NULL ELSE t[1]
  <2>1. Len(t) # 0 /\ 1 \in 1 .. Len(p) - 1 /\ 1 < j + 1 /\ Len(p) # 0
    BY <1>2, <1>3, <1>4
  <2> QED BY <1>2, <1>4, <2>1
<1>10. Chain(t, first, l)
  BY <1>4, <1>7, <1>8, <1>9, NodesChain
<1> QED BY <1>3, <1>10 DEF t, l
-----------------------------------------------------------------------------
(* The data of the nodes of p, which contents are for the path.            *)
DataOf(p, values) == [k \in DOMAIN p |-> values[p[k]]]

LEMMA DataOfFacts ==
  ASSUME NEW p \in Seq(Nodes), NEW values, \A k \in 1 .. Len(p) : values[p[k]] \in Data
  PROVE  /\ DataOf(p, values) \in Seq(Data)
         /\ Len(DataOf(p, values)) = Len(p)
         /\ \A k \in 1 .. Len(p) : DataOf(p, values)[k] = values[p[k]]
<1>1. DOMAIN p = 1 .. Len(p) /\ Len(p) \in Nat
  OBVIOUS
<1>2. DataOf(p, values) = [k \in 1 .. Len(p) |-> values[p[k]]]
  BY <1>1 DEF DataOf
<1>3. DataOf(p, values) \in [1 .. Len(p) -> Data]
  BY <1>2
<1>4. DataOf(p, values) \in Seq(Data)
  BY <1>1, <1>3 DEF Seq
<1> QED BY <1>1, <1>2, <1>4

LEMMA DataOfPush ==
  ASSUME NEW p \in Seq(Nodes), NEW values \in [Nodes -> Data \cup {NULL}],
         \A k \in 1 .. Len(p) : values[p[k]] \in Data,
         NEW n \in Nodes, \A k \in 1 .. Len(p) : p[k] # n, NEW d \in Data
  PROVE  /\ \A k \in 1 .. Len(Cons(n, p)) : [values EXCEPT ![n] = d][Cons(n, p)[k]] \in Data
         /\ DataOf(Cons(n, p), [values EXCEPT ![n] = d]) = Cons(d, DataOf(p, values))
<1> DEFINE t == Cons(n, p)
           v == [values EXCEPT ![n] = d]
           old == DataOf(p, values)
<1>0. Len(p) \in Nat /\ \A i \in 1 .. Len(p) : p[i] \in Nodes
  OBVIOUS
<1>1. /\ t \in Seq(Nodes) /\ Len(t) = Len(p) + 1 /\ t[1] = n
      /\ \A i \in 1 .. Len(p) : t[i + 1] = p[i]
  BY ONLY ConsFacts, p \in Seq(Nodes), n \in Nodes
<1>2. v[n] = d /\ \A m \in Nodes : m # n => v[m] = values[m]
  OBVIOUS
<1>3. old \in Seq(Data) /\ Len(old) = Len(p) /\ \A k \in 1 .. Len(p) : old[k] = values[p[k]]
  BY DataOfFacts
<1>4. /\ Cons(d, old) \in Seq(Data) /\ Len(Cons(d, old)) = Len(p) + 1 /\ Cons(d, old)[1] = d
      /\ \A i \in 1 .. Len(p) : Cons(d, old)[i + 1] = old[i]
  <2> HIDE DEF old
  <2> QED BY <1>3, ConsFacts
<1> DEFINE new == Cons(d, old)
<1> HIDE DEF t, v, old, new
<1>5. ASSUME NEW k \in 1 .. Len(t) PROVE v[t[k]] \in Data /\ v[t[k]] = new[k]
  <2>1. CASE k = 1
    BY <1>1, <1>2, <1>4, <2>1 DEF new
  <2>2. CASE k # 1
    <3>1. k - 1 \in 1 .. Len(p) /\ (k - 1) + 1 = k
      BY <1>0, <1>1, <2>2
    <3>2. t[k] = p[k - 1] /\ p[k - 1] \in Nodes /\ p[k - 1] # n /\ new[k] = old[k - 1]
      BY <1>0, <1>1, <1>4, <3>1 DEF new
    <3> QED BY <1>2, <1>3, <3>1, <3>2
  <2> QED BY <2>1, <2>2
<1>6. DataOf(t, v) \in Seq(Data) /\ Len(DataOf(t, v)) = Len(t)
      /\ \A k \in 1 .. Len(t) : DataOf(t, v)[k] = v[t[k]]
  BY <1>1, <1>5, DataOfFacts
<1>7. DataOf(t, v) = new
  <2>1. Len(DataOf(t, v)) = Len(new) /\ DataOf(t, v) \in Seq(Data) /\ new \in Seq(Data)
    BY <1>1, <1>4, <1>6 DEF new
  <2>2. \A k \in 1 .. Len(DataOf(t, v)) : DataOf(t, v)[k] = new[k]
    BY <1>5, <1>6
  <2> QED BY ONLY <2>1, <2>2, SeqEqual
<1> QED BY <1>5, <1>7 DEF t, v, old, new

LEMMA DataOfRemove ==
  ASSUME NEW p \in Seq(Nodes), NEW values \in [Nodes -> Data \cup {NULL}],
         \A k \in 1 .. Len(p) : values[p[k]] \in Data,
         \A j, k \in 1 .. Len(p) : p[j] = p[k] => j = k,
         NEW i \in 1 .. Len(p)
  PROVE  /\ \A k \in 1 .. Len(RemoveAt(p, i)) :
              [values EXCEPT ![p[i]] = NULL][RemoveAt(p, i)[k]] \in Data
         /\ DataOf(RemoveAt(p, i), [values EXCEPT ![p[i]] = NULL]) = RemoveAt(DataOf(p, values), i)
<1> DEFINE t == RemoveAt(p, i)
           v == [values EXCEPT ![p[i]] = NULL]
           old == DataOf(p, values)
           new == RemoveAt(old, i)
<1>1. /\ t \in Seq(Nodes) /\ Len(t) = Len(p) - 1 /\ Len(p) \in Nat
      /\ \A j \in 1 .. Len(p) - 1 : t[j] = IF j < i THEN p[j] ELSE p[j + 1]
  <2>1. Len(p) \in Nat
    BY ONLY p \in Seq(Nodes)
  <2>2. /\ RemoveAt(p, i) \in Seq(Nodes)
        /\ Len(RemoveAt(p, i)) = Len(p) - 1
        /\ \A j \in 1 .. Len(p) - 1 :
             RemoveAt(p, i)[j] = IF j < i THEN p[j] ELSE p[j + 1]
    BY ONLY p \in Seq(Nodes), i \in 1 .. Len(p), RemoveAtFacts, Zenon
  <2> QED BY <2>1, <2>2, Zenon
<1>2. \A k \in 1 .. Len(p) : k # i => v[p[k]] = values[p[k]]
  OBVIOUS
<1>3. old \in Seq(Data) /\ Len(old) = Len(p) /\ \A k \in 1 .. Len(p) : old[k] = values[p[k]]
  BY DataOfFacts
<1>4. /\ new \in Seq(Data) /\ Len(new) = Len(p) - 1
      /\ \A j \in 1 .. Len(p) - 1 : new[j] = IF j < i THEN old[j] ELSE old[j + 1]
  <2> HIDE DEF old
  <2> QED BY <1>3, RemoveAtFacts
<1> HIDE DEF t, v, old, new
<1>5. ASSUME NEW k \in 1 .. Len(t) PROVE v[t[k]] \in Data /\ v[t[k]] = new[k]
  <2> DEFINE at == IF k < i THEN k ELSE k + 1
  <2>1. k \in 1 .. Len(p) - 1 /\ at \in 1 .. Len(p) /\ at # i
    BY <1>1
  <2>2. t[k] = p[at] /\ new[k] = old[at]
    BY <1>1, <1>4, <2>1
  <2> HIDE DEF at
  <2> QED BY <1>2, <1>3, <2>1, <2>2
<1>6. DataOf(t, v) \in Seq(Data) /\ Len(DataOf(t, v)) = Len(t)
      /\ \A k \in 1 .. Len(t) : DataOf(t, v)[k] = v[t[k]]
  BY <1>1, <1>5, DataOfFacts
<1>7. DataOf(t, v) = new
  BY <1>1, <1>4, <1>5, <1>6, SeqEqual
<1> QED BY <1>5, <1>7 DEF t, v, old, new

(* The first match is the node that RemoveFirst takes out.                 *)
LEMMA FirstMatch ==
  ASSUME NEW s \in Seq(Data), NEW e, NEW i \in 1 .. Len(s), s[i] = e,
         \A j \in 1 .. i - 1 : s[j] # e
  PROVE  Contains(s, e) /\ RemoveFirst(s, e) = RemoveAt(s, i)
<1>1. Contains(s, e)
  BY DEF Contains
<1>2. PICK k \in 1 .. Len(s) :
        /\ s[k] = e
        /\ \A j \in 1 .. k - 1 : s[j] # e
        /\ RemoveFirst(s, e) = RemoveAt(s, k)
  BY <1>1, RemoveFirstIndex
<1>3. ~ (k < i) /\ ~ (i < k)
  <2>1. k < i => k \in 1 .. i - 1
    OBVIOUS
  <2>2. i < k => i \in 1 .. k - 1
    OBVIOUS
  <2> QED BY <1>2, <2>1, <2>2
<1>4. i = k
  BY <1>3
<1> QED BY <1>1, <1>2, <1>4
-----------------------------------------------------------------------------
(* The fields of the heap have their shape.                                *)
Heap ==
  /\ head \in Address /\ tail \in Nodes
  /\ next \in [Nodes -> Address]
  /\ data \in [Nodes -> Data \cup {NULL}]
  /\ alive \subseteq Nodes
  /\ status \in {"ok", "fault", "destroyed"} /\ ret \in {0, 1}

(* The nodes of the list are a chain, and hold data; none of them is free  *)
(* until the list is destroyed.                                            *)
Linked == Chain(path, head, next)
Filled == \A k \in 1 .. Len(path) : data[path[k]] \in Data
Held == status # "destroyed" => \A k \in 1 .. Len(path) : path[k] \in alive

(* length and, from two nodes on, tail are those of the chain.             *)
Measured ==
  /\ length = Len(path)
  /\ Len(path) >= 2 => tail = path[Len(path)]

ListInv == Heap /\ Linked /\ Filled /\ Held /\ Measured

(* find_node has looked at the nodes in front of the one it stands on.     *)
FindAt ==
  op = "find" =>
    \/ /\ iter = NULL
       /\ \A k \in 1 .. Len(path) : data[path[k]] # target
    \/ \E j \in 1 .. Len(path) :
         /\ iter = path[j]
         /\ \A k \in 1 .. j - 1 : data[path[k]] # target

(* delete_node has looked at the node it stands on as well, and stands on  *)
(* the last one only when it is the only one.                              *)
DeleteAt ==
  op = "delete" =>
    \E j \in 1 .. Len(path) :
      /\ iter = path[j]
      /\ j = 1 \/ j < Len(path)
      /\ \A k \in 1 .. j : data[path[k]] # target

(* filter has picked, each once, some of the ids it wants that are in the  *)
(* list: in its first pass those in front of the node it stands on, after  *)
(* it all of them.  After the first pass over a single node it stands on   *)
(* no node.                                                                *)
Picked(k) == data[path[k]] \in wanted => Contains(picked, data[path[k]])

FilterAt ==
  op = "filter" =>
    /\ wanted # {} /\ wanted \subseteq Data /\ Len(path) # 0
    /\ \A x \in Range(picked) : x \in wanted /\ \E k \in 1 .. Len(path) : data[path[k]] = x
    /\ \/ /\ passes = 0
          /\ \E j \in 1 .. Len(path) : iter = path[j] /\ \A k \in 1 .. j - 1 : Picked(k)
       \/ /\ passes \in 1 .. Cardinality(wanted)
          /\ \A k \in 1 .. Len(path) : Picked(k)
          /\ \/ Len(path) = 1 /\ iter = NULL /\ passes = 1
             \/ Len(path) >= 2 /\ \E j \in 1 .. Len(path) : iter = path[j]

CallInv ==
  /\ op \in {"none", "find", "delete", "filter"} /\ target \in Data
  /\ op # "none" => status = "ok"
  /\ op = "none" => iter = NULL
  /\ op # "filter" => wanted = {} /\ passes = 0
  /\ picked \in Seq(Data) /\ IsInjective(picked)
  /\ FindAt /\ DeleteAt /\ FilterAt

(* What the invariant says of the list, node by node.                      *)
LEMMA ListFacts ==
  ASSUME ListInv
  PROVE  /\ path \in Seq(Nodes) /\ Len(path) \in Nat /\ DOMAIN path = 1 .. Len(path)
         /\ Len(path) <= Cardinality(Nodes)
         /\ head = IF Len(path) = 0 THEN NULL ELSE path[1]
         /\ \A k \in 1 .. Len(path) :
              /\ path[k] \in Nodes /\ path[k] # NULL
              /\ next[path[k]] = IF k = Len(path) THEN NULL ELSE path[k + 1]
         /\ \A j, k \in 1 .. Len(path) : path[j] = path[k] => j = k
<1>1. Chain(path, head, next)
  BY DEF ListInv, Linked
<1>2. path \in Seq(Nodes) /\ IsInjective(path)
  BY <1>1 DEF Chain
<1>3. Len(path) <= Cardinality(Nodes)
  BY <1>2, ChainLength
<1> QED BY <1>1, <1>2, <1>3, ChainNodes

LEMMA ContentsFacts ==
  ASSUME ListInv, status # "destroyed"
  PROVE  /\ contents = DataOf(path, data)
         /\ contents \in Seq(Data) /\ Len(contents) = Len(path)
         /\ \A k \in 1 .. Len(path) : contents[k] = data[path[k]]
<1>1. contents = DataOf(path, data)
  BY DEF contents, DataOf
<1>2. path \in Seq(Nodes) /\ \A k \in 1 .. Len(path) : data[path[k]] \in Data
  BY ListFacts DEF ListInv, Filled
<1> QED BY <1>1, <1>2, DataOfFacts

(* Nothing of the list changes.                                            *)
LEMMA ListKept ==
  ASSUME ListInv, UNCHANGED <<fields, heap>>, ret' \in {0, 1},
         status' \in {status, "fault"}, status # "destroyed"
  PROVE  ListInv' /\ path' = path /\ contents' = contents /\ alive' = alive
<1>1. UNCHANGED <<head, tail, length, next, data, alive>>
  BY DEF fields, heap
<1>2. path' = path
  BY <1>1 DEF path
<1>3. contents' = contents
  BY <1>1, <1>2 DEF contents
<1> QED BY <1>1, <1>2, <1>3 DEF ListInv, Heap, Linked, Filled, Held, Measured

(* A node that malloc returned is pushed.                                  *)
LEMMA PushStep ==
  ASSUME ListInv, status = "ok", NEW n, NEW d \in Data, Allocate(n, d, head),
         head' = n, tail' = TailAfterPush(n), length' = length + 1,
         status' = status, ret' = 1
  PROVE  ListInv' /\ path' = Cons(n, path) /\ contents' = Cons(d, contents)
<1>1. /\ n \in Nodes /\ n \notin alive /\ alive' = alive \cup {n}
      /\ data' = [data EXCEPT ![n] = d] /\ next' = [next EXCEPT ![n] = head]
  BY DEF Allocate
<1>2. /\ path \in Seq(Nodes) /\ Len(path) \in Nat /\ DOMAIN path = 1 .. Len(path)
      /\ head = IF Len(path) = 0 THEN NULL ELSE path[1]
      /\ \A k \in 1 .. Len(path) : path[k] \in Nodes /\ path[k] \in alive /\ path[k] # n
  BY <1>1, ListFacts DEF ListInv, Held
<1>3. /\ next \in [Nodes -> Address] /\ data \in [Nodes -> Data \cup {NULL}]
      /\ head \in Address /\ tail \in Nodes /\ alive \subseteq Nodes
      /\ Chain(path, head, next)
      /\ \A k \in 1 .. Len(path) : data[path[k]] \in Data
      /\ length = Len(path) /\ (Len(path) >= 2 => tail = path[Len(path)])
  BY DEF ListInv, Heap, Linked, Filled, Measured
<1>4. Chain(Cons(n, path), n, next')
  BY <1>1, <1>2, <1>3, ChainPush
<1>5. path' = Cons(n, path)
  BY <1>4, ChainIsPath DEF path
<1>6. Linked'
  BY <1>4, <1>5 DEF Linked
<1>7. /\ Len(path') = Len(path) + 1 /\ path'[1] = n
      /\ \A k \in 1 .. Len(path) : path'[k + 1] = path[k]
  <2>1. /\ Len(Cons(n, path)) = Len(path) + 1 /\ Cons(n, path)[1] = n
        /\ \A k \in 1 .. Len(path) : Cons(n, path)[k + 1] = path[k]
    <3>1. path \in Seq(Nodes) /\ n \in Nodes
      BY <1>1, <1>2
    <3> QED BY ONLY <3>1, ConsFacts
  <2> QED BY ONLY <1>5, <2>1
<1>8. /\ \A k \in 1 .. Len(path') : data'[path'[k]] \in Data
      /\ DataOf(path', data') = Cons(d, DataOf(path, data))
  <2> DEFINE new == [data EXCEPT ![n] = d]
  <2>1. /\ path \in Seq(Nodes) /\ n \in Nodes /\ data \in [Nodes -> Data \cup {NULL}]
        /\ \A k \in 1 .. Len(path) : data[path[k]] \in Data
        /\ \A k \in 1 .. Len(path) : path[k] # n
    BY <1>1, <1>2, <1>3
  <2>2. /\ \A k \in 1 .. Len(Cons(n, path)) : new[Cons(n, path)[k]] \in Data
        /\ DataOf(Cons(n, path), new) = Cons(d, DataOf(path, data))
    BY ONLY <2>1, d \in Data, DataOfPush
  <2>3. data' = new
    BY <1>1
  <2> HIDE DEF new
  <2> QED BY ONLY <1>5, <2>2, <2>3
<1>9. Heap'
  <2>1. next' \in [Nodes -> Address] /\ data' \in [Nodes -> Data \cup {NULL}]
    BY <1>1, <1>3
  <2>2. tail' \in Nodes
    BY <1>2, <1>3 DEF TailAfterPush
  <2> QED BY <1>1, <1>3, <2>1, <2>2 DEF Heap, Address
<1>10. Filled'
  BY <1>8 DEF Filled
<1>11. Held'
  <2> SUFFICES ASSUME NEW k \in 1 .. Len(path') PROVE path'[k] \in alive'
    BY DEF Held
  <2>1. k # 1 => k - 1 \in 1 .. Len(path) /\ (k - 1) + 1 = k
    BY <1>2, <1>7
  <2> QED BY <1>1, <1>2, <1>7, <2>1
<1>12. Measured'
  <2>1. length' = Len(path')
    BY <1>3, <1>7
  <2>2. ASSUME Len(path') >= 2 PROVE tail' = path'[Len(path')]
    <3>1. Len(path) \in 1 .. Len(path) /\ Len(path') = Len(path) + 1 /\ Len(path) # 0
      BY <1>2, <1>7, <2>2
    <3>2. path'[Len(path')] = path[Len(path)]
      BY <1>7, <3>1
    <3>3. CASE Len(path) = 1
      BY <1>2, <1>3, <3>2, <3>3 DEF TailAfterPush
    <3>4. CASE Len(path) # 1
      <4>1. Len(path) >= 2
        BY <1>2, <3>1, <3>4
      <4> QED BY <1>3, <3>2, <3>4, <4>1 DEF TailAfterPush
    <3> QED BY <3>3, <3>4
  <2> QED BY <2>1, <2>2 DEF Measured
<1>13. contents' = Cons(d, contents)
  BY <1>8 DEF contents, DataOf
<1> QED BY <1>5, <1>6, <1>9, <1>10, <1>11, <1>12, <1>13 DEF ListInv

(* push_node on an empty list: the node is not linked.                     *)
LEMMA RefusedStep ==
  ASSUME ListInv, status = "ok", NEW n, NEW d \in Data, Allocate(n, d, head),
         head = NULL, UNCHANGED fields, status' = status, ret' = 0
  PROVE  ListInv' /\ path = <<>> /\ path' = <<>> /\ contents = <<>> /\ contents' = <<>>
<1> DEFINE empty == <<>>
<1>1. /\ n \in Nodes /\ alive' = alive \cup {n}
      /\ data' = [data EXCEPT ![n] = d] /\ next' = [next EXCEPT ![n] = head]
  BY DEF Allocate
<1>2. path = empty
  <2>1. path \in Seq(Nodes) /\ Len(path) \in Nat
    BY ListFacts
  <2>2. Len(path) = 0
    <3>1. Len(path) # 0 => 1 \in 1 .. Len(path)
      BY <2>1
    <3> QED BY <3>1, ListFacts
  <2> QED BY <2>1, <2>2
<1>3. Chain(empty, NULL, next')
  BY DEF Chain, IsInjective
<1>4. UNCHANGED <<head, tail, length>>
  BY DEF fields
<1>5. path' = empty
  BY <1>3, <1>4, ChainIsPath DEF path
<1>6. Len(empty) = 0 /\ DOMAIN empty = {}
  OBVIOUS
<1>7. contents = empty /\ contents' = empty
  BY <1>2, <1>5, <1>6 DEF contents
<1>8. Heap'
  <2>1. next' \in [Nodes -> Address] /\ data' \in [Nodes -> Data \cup {NULL}]
    BY <1>1 DEF ListInv, Heap
  <2> QED BY <1>1, <1>4, <2>1 DEF ListInv, Heap
<1>9. Linked'
  BY <1>3, <1>4, <1>5 DEF Linked
<1> HIDE DEF empty
<1>10. Filled' /\ Held'
  BY <1>5, <1>6 DEF Filled, Held
<1>11. Measured'
  BY <1>2, <1>4, <1>5, <1>6 DEF ListInv, Measured
<1> QED BY <1>2, <1>5, <1>7, <1>8, <1>9, <1>10, <1>11 DEF ListInv, empty

(* delete_node takes the i-th node out of the chain and destroys it.       *)
LEMMA UnlinkStep ==
  ASSUME ListInv, status = "ok", NEW i \in 1 .. Len(path),
         Free(path[i]), Chain(RemoveAt(path, i), head', next'),
         head' \in Address, next' \in [Nodes -> Address],
         tail' = (IF i = Len(path) /\ i # 1 THEN path[i - 1] ELSE tail),
         length' = length - 1, status' = status, ret' = 1
  PROVE  ListInv' /\ path' = RemoveAt(path, i) /\ contents' = RemoveAt(contents, i)
<1>1. /\ alive' = alive \ {path[i]}
      /\ data' = [data EXCEPT ![path[i]] = NULL]
  BY DEF Free
<1>2. /\ path \in Seq(Nodes) /\ Len(path) \in Nat
      /\ \A k \in 1 .. Len(path) : path[k] \in Nodes /\ path[k] \in alive
      /\ \A j, k \in 1 .. Len(path) : path[j] = path[k] => j = k
  BY ListFacts DEF ListInv, Held
<1>3. /\ data \in [Nodes -> Data \cup {NULL}] /\ tail \in Nodes /\ alive \subseteq Nodes
      /\ \A k \in 1 .. Len(path) : data[path[k]] \in Data
      /\ length = Len(path) /\ (Len(path) >= 2 => tail = path[Len(path)])
  BY DEF ListInv, Heap, Filled, Measured
<1>4. path' = RemoveAt(path, i)
  BY ChainIsPath DEF path
<1>5. Linked'
  BY <1>4 DEF Linked
<1>6. /\ Len(path') = Len(path) - 1
      /\ \A j \in 1 .. Len(path) - 1 : path'[j] = IF j < i THEN path[j] ELSE path[j + 1]
  BY <1>2, <1>4, RemoveAtFacts
<1>7. /\ \A k \in 1 .. Len(path') : data'[path'[k]] \in Data
      /\ DataOf(path', data') = RemoveAt(DataOf(path, data), i)
  BY <1>1, <1>2, <1>3, <1>4, DataOfRemove
<1>8. Heap'
  <2>1. data' \in [Nodes -> Data \cup {NULL}]
    BY <1>1, <1>2, <1>3
  <2>2. i # 1 => i - 1 \in 1 .. Len(path)
    BY <1>2
  <2>3. tail' \in Nodes
    BY <1>2, <1>3, <2>2
  <2> QED BY <1>1, <1>3, <2>1, <2>3 DEF Heap
<1>9. Filled'
  BY <1>7 DEF Filled
<1>10. Held'
  <2> SUFFICES ASSUME NEW k \in 1 .. Len(path') PROVE path'[k] \in alive'
    BY DEF Held
  <2> DEFINE at == IF k < i THEN k ELSE k + 1
  <2>1. k \in 1 .. Len(path) - 1 /\ at \in 1 .. Len(path) /\ at # i
    BY <1>2, <1>6
  <2>2. path'[k] = path[at]
    BY <1>6, <2>1
  <2> HIDE DEF at
  <2> QED BY <1>1, <1>2, <2>1, <2>2
<1>11. Measured'
  <2>1. length' = Len(path')
    BY <1>3, <1>6
  <2>2. ASSUME Len(path') >= 2 PROVE tail' = path'[Len(path')]
    <3>1. Len(path') \in 1 .. Len(path) - 1 /\ Len(path') + 1 = Len(path) /\ Len(path) >= 2
      BY <1>2, <1>6, <2>2
    <3>2. CASE i = Len(path)
      <4>1. i # 1 /\ Len(path') = i - 1 /\ Len(path') < i
        BY <3>1, <3>2
      <4> QED BY <1>6, <3>1, <3>2, <4>1
    <3>3. CASE i # Len(path)
      <4>1. ~ (Len(path') < i)
        BY <1>2, <3>1, <3>3
      <4> QED BY <1>3, <1>6, <3>1, <3>3, <4>1
    <3> QED BY <3>2, <3>3
  <2> QED BY <2>1, <2>2 DEF Measured
<1>12. contents' = RemoveAt(contents, i)
  BY <1>7 DEF contents, DataOf
<1> QED BY <1>4, <1>5, <1>8, <1>9, <1>10, <1>11, <1>12 DEF ListInv
-----------------------------------------------------------------------------
(* What callers see of a step: one call of ListSpec, or nothing.           *)
filtered == IF op = "filter" THEN <<>> ELSE picked

AbstractStep == Abstract!Next \/ UNCHANGED <<contents, filtered, ret, status>>

(* A node that is not in the list was not in it before, unless push_node   *)
(* refused it.                                                             *)
KeepsNodes ==
  status' # "destroyed" /\ (alive \ Range(path))' # alive \ Range(path)
    => head = NULL /\ ret' = 0

(* ListSpec takes the operators on sequences from the same modules.        *)
LEMMA SameOperators ==
  ASSUME NEW s, NEW e
  PROVE  /\ Abstract!Cons(e, s) = Cons(e, s)
         /\ Abstract!Contains(s, e) <=> Contains(s, e)
         /\ Abstract!RemoveFirst(s, e) = RemoveFirst(s, e)
         /\ Abstract!DeleteFaults(s, e) <=> DeleteFaults(s, e)
         /\ Abstract!Cardinality(s) = Cardinality(s)
         /\ Abstract!Range(s) = Range(s)
         /\ Abstract!IsInjective(s) <=> IsInjective(s)
<1>1. Abstract!Cons(e, s) = Cons(e, s)
  BY DEF Abstract!Cons, Cons
<1>2. Abstract!Contains(s, e) <=> Contains(s, e)
  BY DEF Abstract!Contains, Contains
<1>3. Abstract!RemoveFirst(s, e) = RemoveFirst(s, e)
  BY DEF Abstract!RemoveFirst, RemoveFirst, Abstract!SelectInSeq, SelectInSeq,
         Abstract!RemoveAt, RemoveAt, Abstract!Min, Min
<1>4. Abstract!DeleteFaults(s, e) <=> DeleteFaults(s, e)
  BY DEF Abstract!DeleteFaults, DeleteFaults
<1>5. Abstract!Cardinality(s) = Cardinality(s)
  BY DEF Abstract!Cardinality, Cardinality
<1>6. Abstract!Range(s) = Range(s)
  BY DEF Abstract!Range, Range
<1>7. Abstract!IsInjective(s) <=> IsInjective(s)
  BY DEF Abstract!IsInjective, IsInjective
<1> QED BY <1>1, <1>2, <1>3, <1>4, <1>5, <1>6, <1>7

Good == ListInv' /\ CallInv' /\ AbstractStep /\ KeepsNodes

LEMMA NotCalled ==
  ASSUME CallInv, op' = "none", iter' = NULL, target' \in Data,
         wanted' = {}, passes' = 0, picked' \in Seq(Data), IsInjective(picked')
  PROVE  CallInv'
BY DEF CallInv, FindAt, DeleteAt, FilterAt

LEMMA EmptyPicked == <<>> \in Seq(Data) /\ IsInjective(<<>>)
BY DEF IsInjective

(* push_data, and push_node on a list that is not empty.                   *)
LEMMA PushGood ==
  ASSUME ListInv, CallInv, NEW n, NEW d \in Data, PushData(n, d) \/ PushNode(n, d)
  PROVE  Good
<1>1. /\ status = "ok" /\ op = "none" /\ status' = status /\ Allocate(n, d, head)
      /\ UNCHANGED <<op, iter, target, wanted, passes, picked>>
  BY DEF PushData, PushNode, Idle, call, filtering
<1>2. CallInv'
  BY <1>1, NotCalled DEF CallInv
<1>3. filtered' = filtered
  BY <1>1 DEF filtered
<1>4. CASE /\ head' = n /\ tail' = TailAfterPush(n) /\ length' = length + 1 /\ ret' = 1
           /\ PushData(n, d) \/ head # NULL
  <2>1. ListInv' /\ path' = Cons(n, path) /\ contents' = Cons(d, contents)
    BY <1>1, <1>4, PushStep
  <2>2. AbstractStep
    <3>1. CASE PushData(n, d)
      <4>1. Abstract!PushData(d)
        BY <1>1, <1>3, <1>4, <2>1, SameOperators DEF Abstract!PushData, filtered
      <4> QED BY <4>1 DEF AbstractStep, Abstract!Next
    <3>2. CASE head # NULL
      <4>1. contents # <<>>
        BY <1>1, <3>2, ListFacts, ContentsFacts
      <4>2. Abstract!PushNode(d)
        BY <1>1, <1>3, <1>4, <2>1, <4>1, SameOperators DEF Abstract!PushNode, filtered
      <4> QED BY <4>2 DEF AbstractStep, Abstract!Next
    <3> QED BY <1>4, <3>1, <3>2
  <2>3. KeepsNodes
    <3>1. n \in Nodes /\ n \notin alive /\ alive' = alive \cup {n}
      BY <1>1 DEF Allocate
    <3>2. path \in Seq(Nodes) /\ Cons(n, path) \in Seq(Nodes)
      BY <3>1, ListFacts, ConsFacts
    <3>3. \A x : x \in Range(path') <=> x = n \/ x \in Range(path)
      BY <2>1, <3>1, <3>2, ConsContains, ContainsIsInRange
    <3> QED BY <3>1, <3>3 DEF KeepsNodes
  <2> QED BY <1>2, <2>1, <2>2, <2>3 DEF Good
<1>5. CASE PushNode(n, d) /\ head = NULL /\ ret' = 0 /\ UNCHANGED fields
  <2>1. ListInv' /\ path = <<>> /\ path' = <<>> /\ contents = <<>> /\ contents' = <<>>
    BY <1>1, <1>5, RefusedStep
  <2>2. Abstract!PushNode(d)
    BY <1>1, <1>3, <1>5, <2>1 DEF Abstract!PushNode, filtered
  <2>3. AbstractStep
    BY <2>2 DEF AbstractStep, Abstract!Next
  <2>4. KeepsNodes
    BY <1>5 DEF KeepsNodes
  <2> QED BY <1>2, <2>1, <2>3, <2>4 DEF Good
<1> QED BY <1>4, <1>5 DEF PushData, PushNode

(* A step that only moves the call on.                                     *)
LEMMA WalkGood ==
  ASSUME ListInv, CallInv, CallInv', UNCHANGED <<fields, heap, ret, status, filtered>>,
         status # "destroyed"
  PROVE  Good
<1>1. ret \in {0, 1}
  BY DEF ListInv, Heap
<1>2. ListInv' /\ path' = path /\ contents' = contents /\ alive' = alive
  BY <1>1, ListKept
<1>3. AbstractStep
  BY <1>2 DEF AbstractStep
<1>4. KeepsNodes
  BY <1>2 DEF KeepsNodes
<1> QED BY <1>2, <1>3, <1>4 DEF Good

LEMMA FindGood ==
  ASSUME ListInv, CallInv, (\E d \in Data : FindStart(d)) \/ FindStep
  PROVE  Good
<1>0. UNCHANGED <<fields, heap, wanted, passes, picked, status>> /\ status = "ok"
  BY DEF FindStart, FindStep, Idle, filtering, CallInv
<1>1. path' = path /\ data' = data
  BY <1>0 DEF path, fields, heap
<1>2. CASE \E d \in Data : FindStart(d)
  <2>1. PICK d \in Data : FindStart(d)
    BY <1>2
  <2>2. op = "none" /\ op' = "find" /\ iter' = head /\ target' = d /\ ret' = ret
    BY <2>1 DEF FindStart, Idle
  <2>3. FindAt'
    <3>1. CASE Len(path) = 0
      BY <1>1, <2>2, <3>1, ListFacts DEF FindAt
    <3>2. CASE Len(path) # 0
      <4>1. iter' = path[1] /\ Len(path) \in Nat
        BY <2>2, <3>2, ListFacts
      <4>2. 1 \in 1 .. Len(path) /\ 1 .. 1 - 1 = {}
        BY ONLY <3>2, <4>1
      <4> QED BY <1>1, <4>1, <4>2 DEF FindAt
    <3> QED BY <3>1, <3>2
  <2>4. CallInv'
    BY <1>0, <2>2, <2>3 DEF CallInv, DeleteAt, FilterAt
  <2>5. filtered' = filtered
    BY <1>0, <2>2 DEF filtered
  <2> QED BY <1>0, <2>2, <2>4, <2>5, WalkGood
<1>3. CASE FindStep
  <2>1. op = "find"
    BY <1>3 DEF FindStep
  <2>2. contents \in Seq(Data) /\ Len(contents) = Len(path)
        /\ \A k \in 1 .. Len(path) : contents[k] = data[path[k]]
    BY <1>0, ContentsFacts
  <2>3. ASSUME NEW r \in {0, 1}, Return(r), Contains(contents, target) <=> r = 1
        PROVE  Good
    <3>1. op' = "none" /\ iter' = NULL /\ ret' = r /\ target' = target
      BY <2>3 DEF Return
    <3>2. CallInv'
      BY <1>0, <2>1, <3>1, NotCalled DEF CallInv
    <3>3. ListInv' /\ contents' = contents /\ alive' = alive
      BY <1>0, <2>3, <3>1, ListKept
    <3>4. filtered' = filtered
      BY <1>0, <2>1, <3>1 DEF filtered
    <3>5. Abstract!FindNode(target)
      BY <1>0, <2>3, <3>1, <3>3, <3>4, SameOperators DEF Abstract!FindNode, filtered
    <3>6. AbstractStep
      BY <3>5 DEF AbstractStep, Abstract!Next, CallInv
    <3> QED BY <1>1, <3>2, <3>3, <3>6 DEF Good, KeepsNodes
  <2>4. CASE iter = NULL /\ Return(0)
    <3>1. \A k \in 1 .. Len(path) : data[path[k]] # target
      BY <2>1, <2>4, ListFacts DEF CallInv, FindAt
    <3>2. ~ Contains(contents, target)
      BY <2>2, <3>1 DEF Contains
    <3> QED BY <2>3, <2>4, <3>2
  <2>5. CASE iter # NULL
    <3>1. PICK j \in 1 .. Len(path) :
            iter = path[j] /\ \A k \in 1 .. j - 1 : data[path[k]] # target
      BY <2>1, <2>5 DEF CallInv, FindAt
    <3>2. CASE data[iter] = target /\ Return(1)
      <4>1. Contains(contents, target)
        BY <2>2, <3>1, <3>2 DEF Contains
      <4> QED BY <2>3, <3>2, <4>1
    <3>3. CASE data[iter] # target /\ iter' = Advance /\ UNCHANGED <<op, target, ret>>
      <4>1. Len(path) \in Nat /\ iter' = IF j = Len(path) THEN NULL ELSE path[j + 1]
        BY <3>1, <3>3, ListFacts DEF Advance
      <4>2. \A k \in 1 .. j : data[path[k]] # target
        <5>1. \A k \in 1 .. j : k # j => k \in 1 .. j - 1
          BY <4>1
        <5> QED BY <3>1, <3>3, <5>1
      <4>3. FindAt'
        <5>1. CASE j = Len(path)
          BY <1>1, <3>3, <4>1, <4>2, <5>1 DEF FindAt
        <5>2. CASE j # Len(path)
          <6>1. j + 1 \in 1 .. Len(path) /\ (j + 1) - 1 = j
            BY <4>1, <5>2
          <6> QED BY <1>1, <3>3, <4>1, <4>2, <5>2, <6>1 DEF FindAt
        <5> QED BY <5>1, <5>2
      <4>4. CallInv'
        BY <1>0, <2>1, <3>3, <4>3 DEF CallInv, DeleteAt, FilterAt
      <4>5. filtered' = filtered
        BY <1>0, <3>3 DEF filtered
      <4> QED BY <1>0, <3>3, <4>4, <4>5, WalkGood
    <3> QED BY <1>3, <2>5, <3>2, <3>3 DEF FindStep
  <2> QED BY <1>3, <2>4, <2>5 DEF FindStep
<1> QED BY <1>2, <1>3

(* A node that delete_node takes out is not in the list and not allocated. *)
LEMMA RemoveAtRange ==
  ASSUME NEW p \in Seq(Nodes), NEW i \in 1 .. Len(p),
         \A j, k \in 1 .. Len(p) : p[j] = p[k] => j = k
  PROVE  Range(RemoveAt(p, i)) = Range(p) \ {p[i]}
<1> DEFINE t == RemoveAt(p, i)
<1>1. /\ t \in Seq(Nodes) /\ Len(t) = Len(p) - 1 /\ Len(p) \in Nat
      /\ \A j \in 1 .. Len(p) - 1 : t[j] = IF j < i THEN p[j] ELSE p[j + 1]
  <2>1. Len(p) \in Nat
    BY ONLY p \in Seq(Nodes)
  <2>2. /\ RemoveAt(p, i) \in Seq(Nodes)
        /\ Len(RemoveAt(p, i)) = Len(p) - 1
        /\ \A j \in 1 .. Len(p) - 1 :
             RemoveAt(p, i)[j] = IF j < i THEN p[j] ELSE p[j + 1]
    BY ONLY p \in Seq(Nodes), i \in 1 .. Len(p), RemoveAtFacts, Zenon
  <2> QED BY <2>1, <2>2, Zenon
<1> HIDE DEF t
<1>2. DOMAIN t = 1 .. Len(t) /\ DOMAIN p = 1 .. Len(p)
  BY <1>1
<1>3. ASSUME NEW k \in 1 .. Len(t) PROVE \E m \in 1 .. Len(p) : m # i /\ t[k] = p[m]
  <2>1. CASE k < i
    <3>1. k \in 1 .. Len(p) - 1 /\ k \in 1 .. Len(p) /\ k # i
      BY <1>1, <2>1
    <3> QED BY <1>1, <2>1, <3>1
  <2>2. CASE ~ (k < i)
    <3>1. k \in 1 .. Len(p) - 1 /\ k + 1 \in 1 .. Len(p) /\ k + 1 # i
      BY <1>1, <2>2
    <3> QED BY <1>1, <2>2, <3>1
  <2> QED BY <2>1, <2>2
<1>4. ASSUME NEW m \in 1 .. Len(p), m # i PROVE \E k \in 1 .. Len(t) : t[k] = p[m]
  <2>1. CASE m < i
    <3>1. m \in 1 .. Len(p) - 1 /\ m \in 1 .. Len(t)
      BY <1>1, <2>1
    <3> QED BY <1>1, <2>1, <3>1
  <2>2. CASE ~ (m < i)
    <3>1. m - 1 \in 1 .. Len(p) - 1 /\ m - 1 \in 1 .. Len(t) /\ ~ (m - 1 < i) /\ (m - 1) + 1 = m
      BY <1>1, <1>4, <2>2
    <3>2. t[m - 1] = p[m]
      BY <1>1, <3>1
    <3> QED BY <3>1, <3>2
  <2> QED BY <2>1, <2>2
<1>5. ASSUME NEW x \in Range(t) PROVE x \in Range(p) \ {p[i]}
  <2>1. PICK k \in 1 .. Len(t) : x = t[k]
    BY <1>2 DEF Range
  <2>2. PICK m \in 1 .. Len(p) : m # i /\ t[k] = p[m]
    BY <1>3
  <2> QED BY <1>2, <2>1, <2>2 DEF Range
<1>6. ASSUME NEW x \in Range(p) \ {p[i]} PROVE x \in Range(t)
  <2>1. PICK m \in 1 .. Len(p) : x = p[m]
    BY <1>2 DEF Range
  <2>2. PICK k \in 1 .. Len(t) : t[k] = p[m]
    BY <1>4, <2>1
  <2> QED BY <1>2, <2>1, <2>2 DEF Range
<1>7. Range(t) = Range(p) \ {p[i]}
  BY <1>5, <1>6
<1> QED BY <1>7 DEF t

(* How a call of delete_node ends, in the words of ListSpec.               *)
LEMMA DeleteAnswer ==
  ASSUME NEW d \in Data, status = "ok", filtered' = filtered,
         \/ /\ DeleteFaults(contents, d)
            /\ status' = "fault" /\ contents' = contents /\ ret' = ret
         \/ /\ ~ DeleteFaults(contents, d)
            /\ contents' = RemoveFirst(contents, d) /\ status' = status
            /\ ret' = IF Contains(contents, d) THEN 1 ELSE 0
  PROVE  AbstractStep
<1>1. Abstract!DeleteNode(d)
  BY SameOperators DEF Abstract!DeleteNode, filtered
<1> QED BY <1>1 DEF AbstractStep, Abstract!Next

(* The i-th node, the first that matches, is taken out and destroyed.      *)
LEMMA DeleteFoundGood ==
  ASSUME ListInv, CallInv, CallInv', status = "ok", NEW d \in Data, NEW i \in 1 .. Len(path),
         Free(path[i]), Chain(RemoveAt(path, i), head', next'),
         head' \in Address, next' \in [Nodes -> Address],
         tail' = (IF i = Len(path) /\ i # 1 THEN path[i - 1] ELSE tail),
         length' = length - 1, status' = status, ret' = 1, filtered' = filtered,
         data[path[i]] = d, \A k \in 1 .. i - 1 : data[path[k]] # d
  PROVE  Good
<1>1. ListInv' /\ path' = RemoveAt(path, i) /\ contents' = RemoveAt(contents, i)
  BY UnlinkStep
<1>2. contents \in Seq(Data) /\ Len(contents) = Len(path) /\ Len(path) \in Nat
      /\ \A k \in 1 .. Len(path) : contents[k] = data[path[k]]
  BY ContentsFacts, ListFacts
<1>3. contents[i] = d /\ i \in 1 .. Len(contents) /\ \A k \in 1 .. i - 1 : contents[k] # d
  <2>1. \A k \in 1 .. i - 1 : k \in 1 .. Len(path)
    BY ONLY <1>2, i \in 1 .. Len(path)
  <2> QED BY <1>2, <2>1
<1>4. Contains(contents, d) /\ RemoveFirst(contents, d) = RemoveAt(contents, i)
  BY ONLY <1>2, <1>3, FirstMatch
<1>5. ~ DeleteFaults(contents, d)
  <2>1. contents # <<>>
    BY ONLY <1>3
  <2>2. Len(contents) = 1 => i = 1
    BY ONLY <1>3
  <2> QED BY <1>3, <2>1, <2>2 DEF DeleteFaults
<1>6. AbstractStep
  BY <1>1, <1>4, <1>5, DeleteAnswer
<1>7. KeepsNodes
  <2>1. path \in Seq(Nodes) /\ \A j, k \in 1 .. Len(path) : path[j] = path[k] => j = k
    BY ListFacts
  <2>2. Range(path') = Range(path) \ {path[i]}
    BY <1>1, <2>1, RemoveAtRange
  <2>3. path[i] \in Range(path)
    BY ListFacts DEF Range
  <2>4. alive' = alive \ {path[i]}
    BY DEF Free
  <2>5. alive' \ Range(path') = alive \ Range(path)
    BY ONLY <2>2, <2>3, <2>4
  <2> QED BY <2>5 DEF KeepsNodes
<1> QED BY <1>1, <1>6, <1>7 DEF Good

(* A call of delete_node that ends without a match, or at NULL.            *)
LEMMA DeleteNotFoundGood ==
  ASSUME ListInv, CallInv, CallInv', status = "ok", NEW d \in Data, UNCHANGED <<fields, heap>>,
         filtered' = filtered,
         \/ DeleteFaults(contents, d) /\ status' = "fault" /\ ret' = ret
         \/ /\ ~ DeleteFaults(contents, d) /\ ~ Contains(contents, d)
            /\ status' = status /\ ret' = 0
  PROVE  Good
<1>1. ret' \in {0, 1}
  BY DEF ListInv, Heap
<1>2. ListInv' /\ path' = path /\ contents' = contents /\ alive' = alive
  BY <1>1, ListKept
<1>3. AbstractStep
  BY <1>2, DeleteAnswer DEF RemoveFirst, Contains
<1>4. KeepsNodes
  BY <1>2 DEF KeepsNodes
<1> QED BY <1>2, <1>3, <1>4 DEF Good

LEMMA DeleteStartGood ==
  ASSUME ListInv, CallInv, NEW d \in Data, DeleteStart(d)
  PROVE  Good
<1>0. status = "ok" /\ op = "none" /\ UNCHANGED filtering
  BY DEF DeleteStart, Idle
<1>1. CASE head = NULL /\ Fault
  <2>1. /\ status' = "fault" /\ op' = "none" /\ iter' = NULL /\ target' = target /\ ret' = ret
        /\ UNCHANGED <<fields, heap, wanted, passes, picked>>
    BY <1>0, <1>1 DEF Fault, filtering
  <2>2. CallInv'
    BY <1>0, <2>1, NotCalled DEF CallInv
  <2>3. filtered' = filtered
    BY <1>0, <2>1 DEF filtered
  <2>4. DeleteFaults(contents, d)
    <3>1. Len(path) = 0
      <4>1. Len(path) # 0 => 1 \in 1 .. Len(path)
        <5>1. Len(path) \in Nat
          BY ListFacts
        <5> QED BY ONLY <5>1
      <4> QED BY <1>1, <4>1, ListFacts
    <3>2. contents \in Seq(Data) /\ Len(contents) = 0
      BY <1>0, <3>1, ContentsFacts
    <3> QED BY <3>2 DEF DeleteFaults
  <2> QED BY <1>0, <2>1, <2>2, <2>3, <2>4, DeleteNotFoundGood
<1>2. CASE /\ head # NULL /\ data[head] = d
           /\ head' = next[head]
           /\ Free(head)
           /\ next' = [next EXCEPT ![head] = NULL]
           /\ length' = length - 1
           /\ ret' = 1
           /\ UNCHANGED <<tail, call, filtering, status>>
  <2>1. Len(path) # 0 /\ Len(path) \in Nat /\ head = path[1]
    BY <1>2, ListFacts
  <2>2. 1 \in 1 .. Len(path) /\ \A k \in 1 .. 1 - 1 : FALSE
    BY ONLY <2>1
  <2>3. head \in Nodes /\ path[1] \in Nodes
    BY <2>1, <2>2, ListFacts
  <2>4. Chain(path, head, next) /\ next \in [Nodes -> Address] /\ path # <<>>
    BY <2>1 DEF ListInv, Linked, Heap
  <2>5. Chain(RemoveAt(path, 1), head', next')
    BY ONLY <1>2, <2>4, ChainDropHead
  <2>6. head' \in Address /\ next' \in [Nodes -> Address]
    BY <1>2, <2>3, <2>4 DEF Address
  <2>7. CallInv' /\ filtered' = filtered
    <3>1. UNCHANGED <<op, iter, target, wanted, passes, picked>> /\ status' = status
      BY <1>2 DEF call, filtering
    <3> QED BY <1>0, <3>1, NotCalled DEF CallInv, filtered
  <2>8. Free(path[1]) /\ data[path[1]] = d /\ \A k \in 1 .. 1 - 1 : data[path[k]] # d
    BY <1>2, <2>1, <2>2
  <2>9. tail' = IF 1 = Len(path) /\ 1 # 1 THEN path[1 - 1] ELSE tail
    BY <1>2
  <2> QED BY <1>0, <1>2, <2>2, <2>5, <2>6, <2>7, <2>8, <2>9, DeleteFoundGood
<1>3. CASE /\ head # NULL /\ data[head] # d
           /\ op' = "delete" /\ iter' = head /\ target' = d
           /\ UNCHANGED <<fields, heap, filtering, ret, status>>
  <2>1. Len(path) # 0 /\ Len(path) \in Nat /\ head = path[1]
    BY <1>3, ListFacts
  <2>2. 1 \in 1 .. Len(path) /\ \A k \in 1 .. 1 : k = 1
    BY ONLY <2>1
  <2>3. path' = path /\ data' = data
    BY <1>3 DEF path, fields, heap
  <2>4. DeleteAt'
    BY <1>3, <2>1, <2>2, <2>3 DEF DeleteAt
  <2>5. CallInv'
    BY <1>0, <1>3, <2>4 DEF CallInv, FindAt, FilterAt, filtering
  <2>6. filtered' = filtered
    BY <1>0, <1>3 DEF filtered, filtering
  <2> QED BY <1>0, <1>3, <2>5, <2>6, WalkGood
<1> QED BY <1>1, <1>2, <1>3 DEF DeleteStart

LEMMA DeleteStepGood ==
  ASSUME ListInv, CallInv, DeleteStep
  PROVE  Good
<1>0. /\ status = "ok" /\ op = "delete" /\ target \in Data
      /\ UNCHANGED <<wanted, passes, picked>> /\ op' # "filter"
  BY DEF DeleteStep, CallInv, filtering, Fault, Return
<1>1. PICK j \in 1 .. Len(path) :
        /\ iter = path[j]
        /\ j = 1 \/ j < Len(path)
        /\ \A k \in 1 .. j : data[path[k]] # target
  BY <1>0 DEF CallInv, DeleteAt
<1>2. /\ Len(path) \in Nat
      /\ \A k \in 1 .. Len(path) :
           /\ path[k] \in Nodes /\ path[k] # NULL
           /\ next[path[k]] = IF k = Len(path) THEN NULL ELSE path[k + 1]
  BY ListFacts
<1>3. contents \in Seq(Data) /\ Len(contents) = Len(path)
      /\ \A k \in 1 .. Len(path) : contents[k] = data[path[k]]
  BY <1>0, ContentsFacts
<1>4. filtered' = filtered
  BY <1>0 DEF filtered
<1>5. CASE next[iter] = NULL /\ Fault
  <2>1. /\ status' = "fault" /\ op' = "none" /\ iter' = NULL /\ target' = target /\ ret' = ret
        /\ UNCHANGED <<fields, heap>>
    BY <1>5 DEF Fault
  <2>2. CallInv'
    BY <1>0, <2>1, NotCalled DEF CallInv
  <2>3. j = Len(path)
    <3>1. j # Len(path) => j + 1 \in 1 .. Len(path)
      BY ONLY <1>2, j \in 1 .. Len(path)
    <3> QED BY <1>1, <1>2, <1>5, <3>1
  <2>4. Len(path) = 1 /\ j = 1
    BY ONLY <1>1, <1>2, <2>3
  <2>5. DeleteFaults(contents, target)
    BY <1>1, <1>3, <2>4 DEF DeleteFaults
  <2> QED BY <1>0, <1>4, <2>1, <2>2, <2>5, DeleteNotFoundGood
<1>6. CASE next[iter] # NULL
  <2>1. j # Len(path)
    BY <1>1, <1>2, <1>6
  <2>2. j + 1 \in 1 .. Len(path) /\ j \in Nat
    BY ONLY <1>2, <2>1, j \in 1 .. Len(path)
  <2>3. next[iter] = path[j + 1]
    BY <1>1, <1>2, <2>1
  <2>4. Chain(path, head, next) /\ next \in [Nodes -> Address] /\ head \in Address
    BY DEF ListInv, Linked, Heap
  <2>5. next[path[j + 1]] = NULL <=> j + 1 = Len(path)
    <3>1. j + 1 # Len(path) => (j + 1) + 1 \in 1 .. Len(path)
      BY ONLY <1>2, <2>2
    <3> QED BY <1>2, <2>2, <3>1
  <2>6. CASE /\ data[path[j + 1]] = target
             /\ Free(path[j + 1])
             /\ Relink
             /\ tail' = TailAfterDelete
             /\ length' = length - 1
             /\ Return(1)
             /\ UNCHANGED <<head, status>>
    <3>1. next' = [next EXCEPT ![path[j]] = next[path[j + 1]], ![path[j + 1]] = NULL]
      BY <1>1, <2>3, <2>6 DEF Relink
    <3>2. Chain(RemoveAt(path, j + 1), head', next')
      BY <2>1, <2>4, <2>6, <3>1, ChainUnlink
    <3>3. next' \in [Nodes -> Address]
      BY <1>2, <2>2, <2>4, <3>1 DEF Address
    <3>4. tail' = IF j + 1 = Len(path) /\ j + 1 # 1 THEN path[(j + 1) - 1] ELSE tail
      <4>1. j + 1 # 1 /\ (j + 1) - 1 = j
        BY ONLY <2>2, j \in 1 .. Len(path)
      <4> QED BY <1>1, <2>3, <2>5, <2>6, <4>1 DEF TailAfterDelete
    <3>5. op' = "none" /\ iter' = NULL /\ ret' = 1 /\ target' = target
      BY <2>6 DEF Return
    <3>6. CallInv'
      BY <1>0, <3>5, NotCalled DEF CallInv
    <3>7. \A k \in 1 .. (j + 1) - 1 : data[path[k]] # target
      <4>1. (j + 1) - 1 = j
        BY ONLY <2>2
      <4> QED BY <1>1, <4>1
    <3> QED BY <1>0, <1>4, <2>2, <2>4, <2>6, <3>2, <3>3, <3>4, <3>5, <3>6, <3>7, DeleteFoundGood
  <2>7. ASSUME data[path[j + 1]] # target
        PROVE  \A k \in 1 .. j + 1 : data[path[k]] # target
    <3>1. \A k \in 1 .. j + 1 : k # j + 1 => k \in 1 .. j
      BY ONLY <2>2
    <3> QED BY <1>1, <2>7, <3>1
  <2>8. CASE /\ data[path[j + 1]] # target
             /\ next[path[j + 1]] = NULL /\ Return(0)
             /\ UNCHANGED <<fields, heap, status>>
    <3>1. op' = "none" /\ iter' = NULL /\ ret' = 0 /\ target' = target
      BY <2>8 DEF Return
    <3>2. CallInv'
      BY <1>0, <3>1, NotCalled DEF CallInv
    <3>3. ~ Contains(contents, target)
      BY <1>3, <2>5, <2>7, <2>8 DEF Contains
    <3>4. ~ DeleteFaults(contents, target)
      <4>1. Len(path) # 0 /\ Len(path) # 1
        BY ONLY <1>2, <2>2, j \in 1 .. Len(path)
      <4> QED BY <1>3, <4>1 DEF DeleteFaults
    <3> QED BY <1>0, <1>4, <2>8, <3>1, <3>2, <3>3, <3>4, DeleteNotFoundGood
  <2>9. CASE /\ data[path[j + 1]] # target
             /\ next[path[j + 1]] # NULL
             /\ iter' = path[j + 1]
             /\ UNCHANGED <<op, target, ret, fields, heap, status>>
    <3>1. path' = path /\ data' = data
      BY <2>9 DEF path, fields, heap
    <3>2. j + 1 < Len(path)
      BY <1>2, <2>2, <2>5, <2>9
    <3>3. DeleteAt'
      BY <2>2, <2>7, <2>9, <3>1, <3>2 DEF DeleteAt
    <3>4. CallInv'
      BY <1>0, <2>9, <3>3 DEF CallInv, FindAt, FilterAt
    <3> QED BY <1>0, <1>4, <2>9, <3>4, WalkGood
  <2> QED BY <1>6, <2>3, <2>6, <2>8, <2>9 DEF DeleteStep
<1> QED BY <1>5, <1>6 DEF DeleteStep

(* A list without duplicates is no longer than there are data to hold, and *)
(* one that is as long holds all of them.                                  *)
LEMMA InjectiveLength ==
  ASSUME NEW s \in Seq(Data), IsInjective(s), NEW S, S \subseteq Data, Range(s) \subseteq S
  PROVE  /\ Cardinality(S) \in Nat /\ Cardinality(S) <= Cardinality(Data)
         /\ Cardinality(Data) \in Nat
         /\ Len(s) \in Nat /\ Len(s) <= Cardinality(S)
         /\ Len(s) = Cardinality(S) => Range(s) = S
<1>1. IsFiniteSet(Data) /\ Cardinality(Data) \in Nat
  BY NodesAssumption, FS_CardinalityType
<1>2. IsFiniteSet(S) /\ Cardinality(S) <= Cardinality(Data)
  BY <1>1, FS_Subset
<1>3. Cardinality(S) \in Nat
  BY <1>2, FS_CardinalityType
<1>4. DOMAIN s = 1 .. Len(s) /\ Len(s) \in Nat
  OBVIOUS
<1>5. \A k \in 1 .. Len(s) : s[k] \in S
  BY <1>4 DEF Range
<1>6. s \in [1 .. Len(s) -> S]
  <2>1. s = [k \in 1 .. Len(s) |-> s[k]]
    BY <1>4
  <2> QED BY <1>5, <2>1
<1>7. s \in Injection(1 .. Len(s), S)
  BY <1>4, <1>6 DEF Injection, IsInjective
<1>8. /\ Cardinality(1 .. Len(s)) <= Cardinality(S)
      /\ Cardinality(1 .. Len(s)) = Cardinality(S) <=> s \in Surjection(1 .. Len(s), S)
  BY <1>2, <1>7, FS_Injection
<1>9. Cardinality(1 .. Len(s)) = Len(s)
  <2>1. Len(s) \in Nat /\ 1 \in Int /\ Len(s) \in Int
    BY <1>4
  <2>2. Cardinality(1 .. Len(s)) = IF 1 > Len(s) THEN 0 ELSE Len(s) - 1 + 1
    BY ONLY <2>1, FS_Interval
  <2> QED BY ONLY <2>1, <2>2
<1>10. s \in Surjection(1 .. Len(s), S) => Range(s) = S
  BY <1>4, <1>5 DEF Surjection, Range
<1> QED BY <1>1, <1>2, <1>3, <1>4, <1>8, <1>9, <1>10

(* What the invariant says of a filter in progress.                        *)
LEMMA FilterFacts ==
  ASSUME ListInv, CallInv, op = "filter"
  PROVE  /\ wanted # {} /\ wanted \subseteq Data /\ Len(path) # 0
         /\ Range(picked) \subseteq wanted /\ Range(picked) \subseteq Range(contents)
         /\ Cardinality(wanted) \in Nat /\ Cardinality(wanted) # 0
         /\ Cardinality(wanted) <= Cardinality(Data) /\ Cardinality(Data) \in Nat
         /\ Len(picked) \in Nat /\ Len(picked) <= Cardinality(wanted)
         /\ Len(picked) = Cardinality(wanted) => Range(picked) = wanted
<1>1. /\ wanted # {} /\ wanted \subseteq Data /\ Len(path) # 0
      /\ \A x \in Range(picked) : x \in wanted /\ \E k \in 1 .. Len(path) : data[path[k]] = x
      /\ picked \in Seq(Data) /\ IsInjective(picked) /\ status = "ok"
  BY DEF CallInv, FilterAt
<1>2. Range(picked) \subseteq wanted
  BY <1>1
<1>3. /\ Cardinality(wanted) \in Nat /\ Cardinality(wanted) <= Cardinality(Data)
      /\ Cardinality(Data) \in Nat
      /\ Len(picked) \in Nat /\ Len(picked) <= Cardinality(wanted)
      /\ Len(picked) = Cardinality(wanted) => Range(picked) = wanted
  BY ONLY <1>1, <1>2, InjectiveLength
<1>4. Cardinality(wanted) # 0
  <2>1. IsFiniteSet(wanted)
    BY <1>1, NodesAssumption, FS_Subset
  <2> QED BY <1>1, <2>1, FS_EmptySet
<1>5. Range(picked) \subseteq Range(contents)
  <2>1. /\ contents \in Seq(Data) /\ Len(contents) = Len(path)
        /\ \A k \in 1 .. Len(path) : contents[k] = data[path[k]]
    BY <1>1, ContentsFacts
  <2>2. DOMAIN contents = 1 .. Len(path)
    BY <2>1
  <2> SUFFICES ASSUME NEW x \in Range(picked) PROVE x \in Range(contents)
    OBVIOUS
  <2>3. PICK k \in 1 .. Len(path) : data[path[k]] = x
    BY <1>1
  <2>4. k \in DOMAIN contents /\ contents[k] = x
    BY <2>1, <2>2, <2>3
  <2> QED BY <2>4 DEF Range
<1> QED BY <1>1, <1>2, <1>3, <1>4, <1>5

(* How a call of filter ends, in the words of ListSpec.                    *)
LEMMA FilterAnswer ==
  ASSUME NEW ids, ids \subseteq Data, status = "ok", contents' = contents, ret' = ret,
         \/ /\ \/ contents = <<>> /\ ids # {}
               \/ Len(contents) = 1 /\ Cardinality(ids) > 1
            /\ status' = "fault" /\ filtered' = <<>>
         \/ /\ contents # <<>> /\ (Len(contents) = 1 => Cardinality(ids) < 2)
            /\ IsInjective(filtered') /\ Range(filtered') = ids \cap Range(contents)
            /\ status' = status
  PROVE  AbstractStep
<1>1. Abstract!Filter(ids)
  BY SameOperators DEF Abstract!Filter, filtered
<1>2. ids \in SUBSET Data
  OBVIOUS
<1> QED BY <1>1, <1>2 DEF AbstractStep, Abstract!Next

(* The list is left alone, and what callers see is a step of ListSpec.     *)
LEMMA LeftAlone ==
  ASSUME ListInv, status # "destroyed", CallInv', UNCHANGED <<fields, heap>>, ret' = ret,
         status' \in {status, "fault"}, AbstractStep
  PROVE  Good
<1>1. ret' \in {0, 1}
  BY DEF ListInv, Heap
<1>2. ListInv' /\ path' = path /\ alive' = alive
  BY <1>1, ListKept
<1>3. KeepsNodes
  BY <1>2 DEF KeepsNodes
<1> QED BY <1>2, <1>3 DEF Good

LEMMA FilterStartGood ==
  ASSUME ListInv, CallInv, NEW ids \in SUBSET Data, FilterStart(ids)
  PROVE  Good
<1>0. /\ status = "ok" /\ op = "none" /\ iter = NULL /\ wanted = {} /\ passes = 0
      /\ target \in Data /\ picked' = <<>> /\ UNCHANGED <<fields, heap, target, ret>>
  BY DEF FilterStart, Idle, CallInv, Fault, call
<1>1. picked' \in Seq(Data) /\ IsInjective(picked')
  BY <1>0, EmptyPicked
<1>2. ret' \in {0, 1}
  BY <1>0 DEF ListInv, Heap
<1>3. filtered' = <<>>
  BY <1>0 DEF filtered
<1>4. CASE ids # {} /\ head = NULL /\ Fault /\ UNCHANGED <<wanted, passes>>
  <2>1. status' = "fault" /\ op' = "none" /\ iter' = NULL
    BY <1>4 DEF Fault
  <2>2. CallInv'
    BY <1>0, <1>1, <1>4, <2>1, NotCalled
  <2>3. contents = <<>>
    <3>1. Len(path) \in Nat
      BY ListFacts
    <3>2. Len(path) # 0 => 1 \in 1 .. Len(path)
      BY ONLY <3>1
    <3>3. Len(path) = 0
      BY <1>4, <3>2, ListFacts
    <3>4. contents \in Seq(Data) /\ Len(contents) = 0
      BY <1>0, <3>3, ContentsFacts
    <3> QED BY <3>4
  <2>4. contents' = contents
    BY <1>0, <1>2, <2>1, ListKept
  <2>5. AbstractStep
    <3>1. ids \subseteq Data /\ status = "ok" /\ contents' = contents /\ ret' = ret
      BY <1>0, <2>4
    <3>2. \/ contents = <<>> /\ ids # {}
          \/ Len(contents) = 1 /\ Cardinality(ids) > 1
      BY <1>4, <2>3, Zenon
    <3> QED BY <1>3, <2>1, <3>1, <3>2, FilterAnswer, Zenon
  <2> QED BY <1>0, <2>1, <2>2, <2>5, LeftAlone
<1>5. CASE status' = status
  <2>1. contents' = contents
    BY <1>0, <1>2, <1>5, ListKept
  <2>2. Abstract!Release
    BY <1>0, <1>3, <1>5, <2>1 DEF Abstract!Release, filtered
  <2>3. AbstractStep
    BY <2>2 DEF AbstractStep, Abstract!Next
  <2>4. CASE ids = {} /\ UNCHANGED <<fields, heap, call, wanted, passes, ret, status>>
    <3>1. op' = "none" /\ iter' = NULL /\ wanted' = {} /\ passes' = 0
      BY <1>0, <2>4 DEF call
    <3>2. CallInv'
      BY <1>0, <1>1, <3>1, NotCalled
    <3> QED BY <1>0, <1>5, <2>3, <3>2, LeftAlone
  <2>5. CASE /\ ids # {} /\ head # NULL
             /\ op' = "filter" /\ iter' = head
             /\ wanted' = ids /\ passes' = 0
    <3>1. Len(path) \in Nat /\ Len(path) # 0 /\ head = path[1]
      BY <2>5, ListFacts
    <3>2. 1 \in 1 .. Len(path) /\ \A k \in 1 .. 1 - 1 : FALSE
      BY ONLY <3>1
    <3>3. path' = path
      BY <1>0 DEF path, fields, heap
    <3>4. Range(picked') = {}
      BY <1>0 DEF Range
    <3>5. FilterAt'
      BY <2>5, <3>1, <3>2, <3>3, <3>4 DEF FilterAt, Picked
    <3>6. CallInv'
      BY <1>0, <1>1, <1>5, <2>5, <3>5 DEF CallInv, FindAt, DeleteAt
    <3> QED BY <1>0, <1>5, <2>3, <3>6, LeftAlone
  <2> QED BY <1>0, <1>4, <2>4, <2>5 DEF FilterStart
<1> QED BY <1>4, <1>5 DEF FilterStart

(* One node of a pass: its id is picked when it is wanted and new.         *)
LEMMA PickNode ==
  ASSUME ListInv, CallInv, op = "filter", NEW j \in 1 .. Len(path),
         picked' = PickedWith(data[path[j]]),
         path' = path, data' = data, wanted' = wanted
  PROVE  /\ picked' \in Seq(Data) /\ IsInjective(picked')
         /\ \A x \in Range(picked') :
              x \in wanted /\ \E k \in 1 .. Len(path) : data[path[k]] = x
         /\ \A k \in 1 .. Len(path) : Picked(k) => Picked(k)'
         /\ Picked(j)'
<1> DEFINE d == data[path[j]]
<1>1. /\ picked \in Seq(Data) /\ IsInjective(picked)
      /\ \A x \in Range(picked) : x \in wanted /\ \E k \in 1 .. Len(path) : data[path[k]] = x
  BY DEF CallInv, FilterAt
<1>2. d \in Data
  BY DEF ListInv, Filled
<1>3. \A x : Contains(picked, x) <=> x \in Range(picked)
  BY ONLY <1>1, ContainsIsInRange
<1>4. CASE d \in wanted /\ ~ Contains(picked, d)
  <2>1. picked' = Cons(d, picked)
    BY <1>3, <1>4 DEF PickedWith, filter_user_id
  <2>2. Cons(d, picked) \in Seq(Data) /\ IsInjective(Cons(d, picked))
    <3> HIDE DEF d
    <3> QED BY ONLY <1>1, <1>2, <1>4, ConsFacts, ConsInjective
  <2>3. \A x : Contains(Cons(d, picked), x) <=> x = d \/ Contains(picked, x)
    <3> HIDE DEF d
    <3> QED BY ONLY <1>1, <1>2, ConsContains
  <2>4. \A x : Contains(Cons(d, picked), x) <=> x \in Range(Cons(d, picked))
    <3> HIDE DEF d
    <3> QED BY ONLY <2>2, ContainsIsInRange
  <2>5. \A k \in 1 .. Len(path) : Picked(k) => Picked(k)'
    BY <2>1, <2>3 DEF Picked
  <2>6. Picked(j)'
    BY <2>1, <2>3 DEF Picked
  <2>7. ASSUME NEW x \in Range(picked')
        PROVE  x \in wanted /\ \E k \in 1 .. Len(path) : data[path[k]] = x
    BY <1>1, <1>3, <1>4, <2>1, <2>3, <2>4
  <2> QED BY <2>1, <2>2, <2>5, <2>6, <2>7
<1>5. CASE ~ (d \in wanted /\ ~ Contains(picked, d))
  <2>1. picked' = picked
    BY <1>3, <1>5 DEF PickedWith, filter_user_id
  <2>2. \A k \in 1 .. Len(path) : Picked(k) => Picked(k)'
    BY <2>1 DEF Picked
  <2>3. Picked(j)'
    BY <1>5, <2>1 DEF Picked
  <2> QED BY <1>1, <2>1, <2>2, <2>3
<1> QED BY <1>4, <1>5

LEMMA FilterStepGood ==
  ASSUME ListInv, CallInv, FilterStep
  PROVE  Good
<1> DEFINE num == Cardinality(wanted)
           more == passes < num /\ Len(picked) < num
<1>0. /\ status = "ok" /\ op = "filter" /\ target' = target /\ target \in Data
      /\ UNCHANGED <<fields, heap, ret>> /\ ret' \in {0, 1}
      /\ picked \in Seq(Data) /\ IsInjective(picked)
  BY DEF FilterStep, CallInv, Fault, ListInv, Heap
<1>1. /\ wanted # {} /\ wanted \subseteq Data /\ Len(path) # 0
      /\ Range(picked) \subseteq wanted /\ Range(picked) \subseteq Range(contents)
      /\ num \in Nat /\ num # 0 /\ Len(picked) \in Nat /\ Len(picked) <= num
      /\ Len(picked) = num => Range(picked) = wanted
  BY <1>0, FilterFacts
<1>2. \/ /\ passes = 0
         /\ \E j \in 1 .. Len(path) : iter = path[j] /\ \A k \in 1 .. j - 1 : Picked(k)
      \/ /\ passes \in 1 .. num
         /\ \A k \in 1 .. Len(path) : Picked(k)
         /\ \/ Len(path) = 1 /\ iter = NULL /\ passes = 1
            \/ Len(path) >= 2 /\ \E j \in 1 .. Len(path) : iter = path[j]
  BY <1>0 DEF CallInv, FilterAt
<1>3. /\ Len(path) \in Nat
      /\ head = path[1]
      /\ \A k \in 1 .. Len(path) :
           /\ path[k] # NULL
           /\ next[path[k]] = IF k = Len(path) THEN NULL ELSE path[k + 1]
  BY <1>1, ListFacts
<1>4. /\ contents \in Seq(Data) /\ Len(contents) = Len(path) /\ contents # <<>>
      /\ \A k \in 1 .. Len(path) : contents[k] = data[path[k]]
  <2>1. /\ contents \in Seq(Data) /\ Len(contents) = Len(path)
        /\ \A k \in 1 .. Len(path) : contents[k] = data[path[k]]
    BY <1>0, ContentsFacts
  <2>2. contents # <<>>
    BY <1>1, <2>1
  <2> QED BY <2>1, <2>2
<1>5. path' = path /\ data' = data
  BY <1>0 DEF path, fields, heap
<1> HIDE DEF num
<1>6. CASE /\ ~ more
           /\ op' = "none" /\ iter' = NULL
           /\ wanted' = {} /\ passes' = 0
           /\ UNCHANGED <<fields, heap, target, picked, ret, status>>
  <2>1. CallInv'
    BY <1>0, <1>6, NotCalled
  <2>2. contents' = contents
    BY <1>0, <1>6, ListKept
  <2>3. filtered' = picked
    BY <1>6 DEF filtered
  <2>4. Len(picked) = num \/ passes = num
    BY <1>1, <1>2, <1>6
  <2>5. ASSUME Len(path) = 1 PROVE num < 2
    <3>1. CASE passes = num
      BY <1>1, <1>2, <2>5, <3>1
    <3>2. CASE Len(picked) = num
      <4>1. ASSUME NEW k \in 1 .. Len(picked) PROVE picked[k] = data[path[1]]
        <5>1. picked[k] \in Range(contents)
          BY <1>0, <1>1 DEF Range
        <5> QED BY <1>4, <2>5, <5>1 DEF Range
      <4>2. ASSUME Len(picked) >= 2 PROVE FALSE
        <5>1. 1 \in 1 .. Len(picked) /\ 2 \in 1 .. Len(picked)
          BY ONLY <1>1, <4>2
        <5>2. DOMAIN picked = 1 .. Len(picked)
          BY <1>0
        <5>3. picked[1] = picked[2]
          BY <4>1, <5>1
        <5>4. 1 = 2
          BY <1>0, <5>1, <5>2, <5>3 DEF IsInjective
        <5> QED BY <5>4
      <4> QED BY <1>1, <3>2, <4>2
    <3> QED BY <2>4, <3>1, <3>2
  <2>6. Range(picked) = wanted \cap Range(contents)
    <3>1. CASE Len(picked) = num
      BY <1>1, <3>1
    <3>2. CASE passes = num
      <4>1. \A k \in 1 .. Len(path) : Picked(k)
        BY <1>1, <1>2, <3>2
      <4> SUFFICES ASSUME NEW x \in wanted, x \in Range(contents) PROVE x \in Range(picked)
        BY <1>1
      <4>2. PICK k \in 1 .. Len(path) : x = data[path[k]]
        BY <1>4 DEF Range
      <4>3. Contains(picked, x)
        BY <4>1, <4>2 DEF Picked
      <4> QED BY <1>0, <4>3, ContainsIsInRange
    <3> QED BY <2>4, <3>1, <3>2
  <2>7. IsInjective(filtered') /\ Range(filtered') = wanted \cap Range(contents)
    BY <1>0, <2>3, <2>6
  <2>8. AbstractStep
    BY <1>0, <1>1, <1>4, <1>6, <2>2, <2>5, <2>7, FilterAnswer DEF num
  <2> QED BY <1>0, <1>6, <2>1, <2>8, LeftAlone
<1>7. CASE /\ more /\ iter = NULL /\ Fault
           /\ picked' = <<>> /\ wanted' = {} /\ passes' = 0
  <2>1. status' = "fault" /\ op' = "none" /\ iter' = NULL
    BY <1>7 DEF Fault
  <2>2. CallInv'
    BY <1>0, <1>7, <2>1, EmptyPicked, NotCalled
  <2>3. contents' = contents
    BY <1>0, <2>1, ListKept
  <2>4. filtered' = <<>>
    BY <1>7, <2>1 DEF filtered
  <2>5. Len(path) = 1 /\ passes = 1
    BY <1>2, <1>3, <1>7
  <2>6. num > 1
    BY <1>1, <1>7, <2>5
  <2>7. AbstractStep
    BY <1>0, <1>1, <1>4, <2>1, <2>3, <2>4, <2>5, <2>6, FilterAnswer DEF num
  <2> QED BY <1>0, <2>1, <2>2, <2>7, LeftAlone
<1>8. CASE /\ more /\ iter # NULL
           /\ picked' = PickedWith(data[iter])
           /\ \/ next[iter] = NULL /\ iter' = next[head] /\ passes' = passes + 1
              \/ next[iter] # NULL /\ iter' = next[iter] /\ UNCHANGED passes
           /\ UNCHANGED <<fields, heap, op, target, wanted, ret, status>>
  <2>1. PICK j \in 1 .. Len(path) :
          /\ iter = path[j]
          /\ \/ passes = 0 /\ \A k \in 1 .. j - 1 : Picked(k)
             \/ /\ passes \in 1 .. num /\ Len(path) >= 2
                /\ \A k \in 1 .. Len(path) : Picked(k)
    BY <1>2, <1>8
  <2>2. /\ picked' \in Seq(Data) /\ IsInjective(picked')
        /\ \A x \in Range(picked') :
             x \in wanted /\ \E k \in 1 .. Len(path) : data[path[k]] = x
        /\ \A k \in 1 .. Len(path) : Picked(k) => Picked(k)'
        /\ Picked(j)'
    BY <1>0, <1>5, <1>8, <2>1, PickNode
  <2>3. /\ num' = num
        /\ wanted' # {} /\ wanted' \subseteq Data /\ Len(path') # 0
        /\ \A x \in Range(picked') :
             x \in wanted' /\ \E k \in 1 .. Len(path') : data'[path'[k]] = x
    BY <1>1, <1>5, <1>8, <2>2 DEF num
  <2>4. \A k \in 1 .. j : Picked(k)'
    <3>1. \A k \in 1 .. j : k # j => k \in 1 .. j - 1 /\ k \in 1 .. Len(path)
      BY ONLY <1>3, j \in 1 .. Len(path)
    <3> QED BY <2>1, <2>2, <3>1
  <2> DEFINE Walk ==
        \/ /\ passes = 0
           /\ \E i \in 1 .. Len(path) : iter = path[i] /\ \A k \in 1 .. i - 1 : Picked(k)
        \/ /\ passes \in 1 .. num
           /\ \A k \in 1 .. Len(path) : Picked(k)
           /\ \/ Len(path) = 1 /\ iter = NULL /\ passes = 1
              \/ Len(path) >= 2 /\ \E i \in 1 .. Len(path) : iter = path[i]
  <2>5. ASSUME j = Len(path) PROVE Walk'
    <3>1. iter' = next[path[1]] /\ passes' = passes + 1
      BY <1>3, <1>8, <2>1, <2>5
    <3>2. \A k \in 1 .. Len(path) : Picked(k)'
      BY <2>4, <2>5
    <3>3. passes' \in 1 .. num
      BY <1>1, <1>8, <2>1, <3>1
    <3>4. CASE Len(path) = 1
      <4>1. 1 \in 1 .. Len(path) /\ ~ (Len(path) >= 2)
        BY ONLY <3>4
      <4>2. iter' = NULL
        BY <1>3, <3>1, <3>4, <4>1
      <4>3. passes' = 1
        BY <2>1, <3>1, <4>1
      <4>4. passes' \in 1 .. num' /\ Len(path') = 1 /\ \A k \in 1 .. Len(path') : Picked(k)'
        BY <1>5, <2>3, <3>2, <3>3, <3>4
      <4> QED BY <4>2, <4>3, <4>4
    <3>5. CASE Len(path) # 1
      <4>1. Len(path) >= 2 /\ 1 \in 1 .. Len(path) /\ 1 + 1 \in 1 .. Len(path)
        <5>1. Len(path) # 0 /\ Len(path) \in Nat
          BY <1>1, <1>3
        <5>2. \A m \in Nat : m # 0 /\ m # 1 => m >= 2 /\ 1 \in 1 .. m /\ 1 + 1 \in 1 .. m
          BY ONLY TRUE
        <5> QED BY ONLY <3>5, <5>1, <5>2
      <4>2. iter' = path[1 + 1]
        <5>1. next[path[1]] = IF 1 = Len(path) THEN NULL ELSE path[1 + 1]
          BY ONLY <1>3, <4>1
        <5> QED BY <3>1, <3>5, <5>1
      <4> QED BY <1>5, <2>3, <3>2, <3>3, <4>1, <4>2
    <3> QED BY <3>4, <3>5
  <2>6. ASSUME j # Len(path) PROVE Walk'
    <3>1. j + 1 \in 1 .. Len(path) /\ (j + 1) - 1 = j
      BY ONLY <1>3, <2>6, j \in 1 .. Len(path)
    <3>2. iter' = path[j + 1] /\ passes' = passes
      BY <1>3, <1>8, <2>1, <2>6, <3>1
    <3>3. CASE passes = 0
      BY <1>5, <2>4, <3>1, <3>2, <3>3
    <3>4. CASE passes # 0
      BY <1>5, <2>1, <2>2, <2>3, <3>1, <3>2, <3>4
    <3> QED BY <3>3, <3>4
  <2>7. FilterAt'
    BY <2>3, <2>5, <2>6 DEF FilterAt, num
  <2>8. CallInv'
    BY <1>0, <1>8, <2>2, <2>7 DEF CallInv, FindAt, DeleteAt
  <2>9. filtered' = filtered
    BY <1>0, <1>8 DEF filtered
  <2> QED BY <1>0, <1>8, <2>8, <2>9, WalkGood
<1> QED BY <1>6, <1>7, <1>8 DEF FilterStep, num

(* destroy_list: nothing of the list is looked at afterwards.              *)
LEMMA DestroyGood ==
  ASSUME ListInv, CallInv, DestroyList
  PROVE  Good
<1>1. /\ status = "ok" /\ op = "none" /\ status' = "destroyed" /\ alive' \subseteq alive
      /\ UNCHANGED <<head, tail, length, next, data, op, iter, target, wanted, passes, picked, ret>>
  BY DEF DestroyList, Idle, fields, call, filtering
<1>2. path' = path
  BY <1>1 DEF path
<1>3. ListInv'
  BY <1>1, <1>2 DEF ListInv, Heap, Linked, Filled, Held, Measured
<1>4. CallInv'
  BY <1>1, NotCalled DEF CallInv
<1>5. contents' = <<>>
  BY <1>1 DEF contents
<1>6. filtered' = filtered
  BY <1>1 DEF filtered
<1>7. Abstract!DestroyList
  BY <1>1, <1>5, <1>6 DEF Abstract!DestroyList, filtered
<1>8. AbstractStep
  BY <1>7 DEF AbstractStep, Abstract!Next
<1>9. KeepsNodes
  BY <1>1 DEF KeepsNodes
<1> QED BY <1>3, <1>4, <1>8, <1>9 DEF Good

LEMMA StutterGood ==
  ASSUME ListInv, CallInv, UNCHANGED vars
  PROVE  Good
<1>1. /\ UNCHANGED <<head, tail, length, next, data, alive, op, iter, target>>
      /\ UNCHANGED <<wanted, passes, picked, ret, status>>
  BY DEF vars, fields, heap, call, filtering
<1>2. path' = path
  BY <1>1 DEF path
<1>3. contents' = contents /\ filtered' = filtered
  BY <1>1, <1>2 DEF contents, filtered
<1>4. ListInv'
  BY <1>1, <1>2 DEF ListInv, Heap, Linked, Filled, Held, Measured
<1>5. CallInv'
  BY <1>1, <1>2 DEF CallInv, FindAt, DeleteAt, FilterAt, Picked
<1>6. AbstractStep /\ KeepsNodes
  BY <1>1, <1>2, <1>3 DEF AbstractStep, KeepsNodes
<1> QED BY <1>4, <1>5, <1>6 DEF Good

(* Every step keeps the invariant, loses no node, and is one of ListSpec.  *)
LEMMA StepGood ==
  ASSUME ListInv, CallInv, [Next]_vars
  PROVE  Good
<1>1. CASE \E d \in Data, n \in Nodes : PushData(n, d) \/ PushNode(n, d)
  BY <1>1, PushGood
<1>2. CASE (\E d \in Data : FindStart(d)) \/ FindStep
  BY <1>2, FindGood
<1>3. CASE (\E d \in Data : DeleteStart(d)) \/ DeleteStep
  BY <1>3, DeleteStartGood, DeleteStepGood
<1>4. CASE (\E ids \in SUBSET Data : FilterStart(ids)) \/ FilterStep
  BY <1>4, FilterStartGood, FilterStepGood
<1>5. CASE DestroyList
  BY <1>5, DestroyGood
<1>6. CASE UNCHANGED vars
  BY <1>6, StutterGood
<1> QED BY <1>1, <1>2, <1>3, <1>4, <1>5, <1>6 DEF Next, Step

(* users_init and channels_init: one node, one datum.                      *)
LEMMA InitGood ==
  ASSUME Init
  PROVE  ListInv /\ CallInv /\ Abstract!Init
<1>1. PICK n \in Nodes, d \in Data :
        /\ head = n /\ tail = n
        /\ alive = {n}
        /\ data = [m \in Nodes |-> IF m = n THEN d ELSE NULL]
  BY DEF Init
<1>2. /\ length = 1 /\ next = [m \in Nodes |-> NULL]
      /\ op = "none" /\ iter = NULL /\ target \in Data
      /\ wanted = {} /\ passes = 0 /\ picked = <<>> /\ ret = 1 /\ status = "ok"
  BY DEF Init
<1> DEFINE one == <<n>>
<1>3. /\ one \in Seq(Nodes) /\ Len(one) = 1 /\ one[1] = n /\ DOMAIN one = {1}
      /\ 1 .. Len(one) = {1}
  OBVIOUS
<1> HIDE DEF one
<1>4. \A k \in 1 .. Len(one) : k = 1 /\ one[k] = n
  BY ONLY <1>3
<1>5. Chain(one, head, next)
  <2>1. /\ head = IF Len(one) = 0 THEN NULL ELSE one[1]
        /\ \A k \in 1 .. Len(one) : next[one[k]] = IF k = Len(one) THEN NULL ELSE one[k + 1]
    BY <1>1, <1>2, <1>3, <1>4
  <2>2. \A j, k \in 1 .. Len(one) : one[j] = one[k] => j = k
    BY ONLY <1>4
  <2> QED BY <1>3, <2>1, <2>2, NodesChain
<1>6. path = one
  BY <1>5, ChainIsPath DEF path
<1>7. Heap
  BY <1>1, <1>2 DEF Heap, Address
<1>8. Filled /\ Held /\ Measured
  BY <1>1, <1>2, <1>3, <1>4, <1>6 DEF Filled, Held, Measured
<1>9. ListInv
  BY <1>5, <1>6, <1>7, <1>8 DEF ListInv, Linked
<1>10. CallInv
  BY <1>2, EmptyPicked DEF CallInv, FindAt, DeleteAt, FilterAt
<1>11. contents = <<d>>
  <2>1. contents \in Seq(Data) /\ Len(contents) = 1 /\ contents[1] = d
    BY <1>1, <1>2, <1>3, <1>6, <1>9, ContentsFacts
  <2> QED BY <2>1
<1>12. Abstract!Init
  BY <1>2, <1>11 DEF Abstract!Init
<1> QED BY <1>9, <1>10, <1>12

(* The inductive invariant.                                                *)
LEMMA Invariant == Spec => [](ListInv /\ CallInv)
<1>1. Init => ListInv /\ CallInv
  BY InitGood
<1>2. ListInv /\ CallInv /\ [Next]_vars => (ListInv /\ CallInv)'
  BY StepGood DEF Good
<1> QED BY <1>1, <1>2, PTL DEF Spec

(* A call that has not reached the end stands on a node of the list.       *)
LEMMA Standing ==
  ASSUME CallInv
  PROVE  op # "none" /\ iter # NULL => \E j \in 1 .. Len(path) : iter = path[j]
BY DEF CallInv, FindAt, DeleteAt, FilterAt
-----------------------------------------------------------------------------
(* list->length stays within the addresses, a walk on an address, and what *)
(* filter has made within the data, for every number of either.            *)
THEOREM Typing == Spec => []TypeOK
<1>1. ASSUME ListInv, CallInv PROVE TypeOK
  <2>1. /\ head \in Address /\ tail \in Nodes
        /\ next \in [Nodes -> Address]
        /\ data \in [Nodes -> Data \cup {NULL}]
        /\ alive \subseteq Nodes
        /\ ret \in {0, 1} /\ status \in {"ok", "fault", "destroyed"}
    BY <1>1 DEF ListInv, Heap
  <2>2. length \in 0 .. Cardinality(Nodes)
    <3>1. Len(path) \in Nat /\ Len(path) <= Cardinality(Nodes) /\ length = Len(path)
      BY <1>1, ListFacts DEF ListInv, Measured
    <3>2. Cardinality(Nodes) \in Nat
      BY NodesAssumption, FS_CardinalityType
    <3> QED BY ONLY <3>1, <3>2
  <2>3. /\ op \in {"none", "find", "delete", "filter"} /\ target \in Data
        /\ picked \in Seq(Data) /\ IsInjective(picked)
    BY <1>1 DEF CallInv
  <2>4. Cardinality(Data) \in Nat /\ Len(picked) <= Cardinality(Data)
    <3>1. Range(picked) \subseteq Data
      BY <2>3 DEF Range
    <3> QED BY <2>3, <3>1, InjectiveLength
  <2>5. wanted \subseteq Data /\ passes \in 0 .. Cardinality(Data)
    <3>1. CASE op = "filter"
      <4>1. passes = 0 \/ passes \in 1 .. Cardinality(wanted)
        BY <1>1, <3>1 DEF CallInv, FilterAt
      <4>2. /\ wanted \subseteq Data /\ Cardinality(wanted) \in Nat
            /\ Cardinality(wanted) <= Cardinality(Data)
        BY <1>1, <3>1, FilterFacts
      <4> QED BY <2>4, <4>1, <4>2
    <3>2. CASE op # "filter"
      BY <1>1, <2>4, <3>2 DEF CallInv
    <3> QED BY <3>1, <3>2
  <2>6. iter \in Address
    <3>1. CASE op # "none" /\ iter # NULL
      <4>1. PICK j \in 1 .. Len(path) : iter = path[j]
        BY <1>1, <3>1, Standing
      <4> QED BY <1>1, <4>1, ListFacts DEF Address
    <3>2. CASE op = "none" \/ iter = NULL
      BY <1>1, <3>2 DEF CallInv, Address
    <3> QED BY <3>1, <3>2
  <2> QED BY <2>1, <2>2, <2>3, <2>4, <2>5, <2>6 DEF TypeOK
<1> QED BY <1>1, Invariant, PTL

(* Whatever is pushed and deleted, on addresses that malloc hands out      *)
(* again, the list has no freed node and no cycle, list->length counts it, *)
(* its tail is its last node from two nodes on, and a walk stands in it.   *)
THEOREM ChainKept == Spec => []WellFormed
<1>1. ASSUME ListInv, CallInv PROVE WellFormed
  <2> SUFFICES ASSUME status # "destroyed"
               PROVE  /\ Range(path) \subseteq alive
                      /\ IsInjective(path)
                      /\ length = Len(path)
                      /\ Len(path) >= 2 => tail = Last(path)
                      /\ op # "none" /\ iter # NULL => Contains(path, iter)
    BY DEF WellFormed
  <2>1. Range(path) \subseteq alive
    BY <1>1, ListFacts DEF ListInv, Held, Range
  <2>2. IsInjective(path)
    BY <1>1 DEF ListInv, Linked, Chain
  <2>3. length = Len(path) /\ (Len(path) >= 2 => tail = Last(path))
    BY <1>1 DEF ListInv, Measured, Last
  <2>4. op # "none" /\ iter # NULL => \E j \in 1 .. Len(path) : iter = path[j]
    BY <1>1, Standing
  <2>5. op # "none" /\ iter # NULL => Contains(path, iter)
    BY <2>4 DEF Contains
  <2> QED BY <2>1, <2>2, <2>3, <2>5
<1> QED BY <1>1, Invariant, PTL

(* delete_node and destroy_node lose no node: the one that is allocated    *)
(* and in no list is one that push_node refused.                           *)
THEOREM NoNodeLost == Spec => LostOnlyWhenRefused
<1>1. ListInv /\ CallInv /\ [Next]_vars =>
        [status' # "destroyed" /\ (alive \ Range(path))' # alive \ Range(path)
           => head = NULL /\ ret' = 0]_vars
  BY StepGood DEF Good, KeepsNodes
<1> QED BY <1>1, Invariant, PTL DEF Spec, LostOnlyWhenRefused

(* A caller of linked_list.c sees a sequence: each call on the pointers    *)
(* takes the step of ListSpec, faults included, and nothing between.       *)
THEOREM Refinement == Spec => ImplementsListSpec
<1>1. Init => Abstract!Init
  BY InitGood
<1>2. ListInv /\ CallInv /\ [Next]_vars => [Abstract!Next]_(Abstract!vars)
  BY StepGood DEF Good, AbstractStep, Abstract!vars, filtered
<1> QED BY <1>1, <1>2, Invariant, PTL DEF Spec, ImplementsListSpec, Abstract!Spec
-----------------------------------------------------------------------------
(* How much of its walk a call has left: nodes from the one it stands on,  *)
(* and for filter the passes over the list it may still make.              *)
AheadOf(p, n) ==
  IF Contains(p, n) THEN Len(p) + 1 - (CHOOSE j \in 1 .. Len(p) : p[j] = n) ELSE 0

PassesLeft == (Cardinality(wanted) - passes) * (Len(path) + 1)

StepsLeft ==
  CASE op = "none"   -> 0
    [] op = "filter" -> PassesLeft + AheadOf(path, iter) + 1
    [] OTHER         -> AheadOf(path, iter) + 1

MostSteps == (Cardinality(Data) + 1) * (Cardinality(Nodes) + 1)

LEMMA AheadFacts ==
  ASSUME ListInv
  PROVE  /\ \A j \in 1 .. Len(path) : AheadOf(path, path[j]) = Len(path) + 1 - j
         /\ AheadOf(path, NULL) = 0
<1>1. /\ \A j \in 1 .. Len(path) : path[j] # NULL
      /\ \A j, k \in 1 .. Len(path) : path[j] = path[k] => j = k
  BY ListFacts
<1>2. ASSUME NEW j \in 1 .. Len(path)
      PROVE  AheadOf(path, path[j]) = Len(path) + 1 - j
  <2> DEFINE i == CHOOSE i \in 1 .. Len(path) : path[i] = path[j]
  <2>1. i \in 1 .. Len(path) /\ path[i] = path[j]
    BY Zenon
  <2>2. i = j
    BY ONLY <1>1, <2>1, j \in 1 .. Len(path)
  <2>3. Contains(path, path[j])
    BY DEF Contains
  <2>4. AheadOf(path, path[j]) = Len(path) + 1 - i
    BY ONLY <2>3 DEF AheadOf
  <2> QED BY ONLY <2>2, <2>4
<1>3. AheadOf(path, NULL) = 0
  BY <1>1 DEF AheadOf, Contains
<1> QED BY <1>2, <1>3

(* What a call has left is a number no larger than the list allows.        *)
LEMMA AheadBound ==
  ASSUME ListInv, CallInv, op # "none"
  PROVE  AheadOf(path, iter) \in Nat /\ AheadOf(path, iter) <= Len(path)
<1>1. Len(path) \in Nat
  BY ListFacts
<1>2. CASE iter = NULL
  BY <1>1, <1>2, AheadFacts
<1>3. CASE iter # NULL
  <2>1. PICK j \in 1 .. Len(path) : iter = path[j]
    BY <1>3, Standing
  <2>2. AheadOf(path, iter) = Len(path) + 1 - j
    BY <2>1, AheadFacts
  <2> QED BY ONLY <1>1, <2>2, j \in 1 .. Len(path)
<1> QED BY <1>2, <1>3

LEMMA ProductGrows ==
  ASSUME NEW a \in Nat, NEW b \in Nat, NEW c \in Nat, NEW d \in Nat, a <= b, c <= d
  PROVE  a * c \in Nat /\ a * c <= b * d
<1>1. a * c \in Nat /\ b * d \in Nat
  OBVIOUS
<1>2. (b - a) * c >= 0 /\ b * (d - c) >= 0
  OBVIOUS
<1>3. b * d - a * c = (b - a) * c + b * (d - c)
  OBVIOUS
<1> QED BY <1>1, <1>2, <1>3
(* The node behind the one a walk stands on is nearer to the end.          *)
LEMMA WalkOn ==
  ASSUME ListInv, NEW j \in 1 .. Len(path)
  PROVE  /\ AheadOf(path, next[path[j]]) < AheadOf(path, path[j])
         /\ AheadOf(path, next[path[j]]) \in Nat
<1>1. Len(path) \in Nat /\ next[path[j]] = IF j = Len(path) THEN NULL ELSE path[j + 1]
  BY ListFacts
<1>2. AheadOf(path, path[j]) = Len(path) + 1 - j /\ AheadOf(path, NULL) = 0
  BY AheadFacts
<1>3. CASE j = Len(path)
  BY ONLY <1>1, <1>2, <1>3
<1>4. CASE j # Len(path)
  <2>1. j + 1 \in 1 .. Len(path)
    BY ONLY <1>1, <1>4, j \in 1 .. Len(path)
  <2>2. AheadOf(path, path[j + 1]) = Len(path) + 1 - (j + 1)
    BY <2>1, AheadFacts
  <2>3. next[path[j]] = path[j + 1]
    BY ONLY <1>1, <1>4
  <2>4. Len(path) + 1 - (j + 1) < Len(path) + 1 - j /\ Len(path) + 1 - (j + 1) \in Nat
    BY ONLY <1>1, <2>1
  <2> QED BY ONLY <1>2, <2>2, <2>3, <2>4
<1> QED BY <1>3, <1>4

(* filter makes no more passes than it was given ids.                      *)
LEMMA PassesBound ==
  ASSUME ListInv, CallInv, op = "filter"
  PROVE  /\ Cardinality(wanted) \in Nat /\ Cardinality(wanted) <= Cardinality(Data)
         /\ Cardinality(Data) \in Nat
         /\ passes \in Nat /\ passes <= Cardinality(wanted)
<1>1. /\ Cardinality(wanted) \in Nat /\ Cardinality(wanted) <= Cardinality(Data)
      /\ Cardinality(Data) \in Nat
  BY FilterFacts
<1>2. passes = 0 \/ passes \in 1 .. Cardinality(wanted)
  BY DEF CallInv, FilterAt
<1> QED BY ONLY <1>1, <1>2

LEMMA StepsBound ==
  ASSUME ListInv, CallInv
  PROVE  StepsLeft \in 0 .. MostSteps
<1> DEFINE N == Cardinality(Nodes)
           D == Cardinality(Data)
           A == AheadOf(path, iter)
           L == Len(path)
<1>1. L \in Nat /\ N \in Nat /\ L <= N /\ D \in Nat
  BY ListFacts, NodesAssumption, FS_CardinalityType
<1>2. MostSteps \in Nat /\ N + 1 <= MostSteps
  <2> HIDE DEF N, D
  <2>1. 1 * (N + 1) <= (D + 1) * (N + 1) /\ (D + 1) * (N + 1) \in Nat
    BY ONLY <1>1, ProductGrows
  <2> QED BY ONLY <1>1, <2>1 DEF MostSteps, N, D
<1>3. CASE op = "none"
  BY ONLY <1>2, <1>3 DEF StepsLeft
<1>4. CASE op # "none" /\ op # "filter"
  <2>1. A \in Nat /\ A <= L
    BY <1>4, AheadBound
  <2>2. StepsLeft = A + 1
    BY <1>4 DEF StepsLeft
  <2> HIDE DEF A, L, N
  <2> QED BY ONLY <1>1, <1>2, <2>1, <2>2
<1>5. CASE op = "filter"
  <2> DEFINE W == Cardinality(wanted)
  <2>1. A \in Nat /\ A <= L
    BY <1>5, AheadBound
  <2>2. W \in Nat /\ W <= D /\ passes \in Nat /\ passes <= W
    BY <1>5, PassesBound
  <2>3. StepsLeft = PassesLeft + A + 1
    BY <1>5 DEF StepsLeft
  <2>4. PassesLeft = (W - passes) * (L + 1)
    BY DEF PassesLeft
  <2> HIDE DEF W, A, L, N, D
  <2>5. (W - passes) * (L + 1) \in Nat /\ (W - passes) * (L + 1) <= D * (N + 1)
    <3>1. W - passes \in Nat /\ W - passes <= D /\ L + 1 \in Nat /\ N + 1 \in Nat /\ L + 1 <= N + 1
      BY ONLY <1>1, <2>2
    <3> QED BY ONLY <1>1, <3>1, ProductGrows
  <2>6. MostSteps = D * (N + 1) + (N + 1)
    <3>1. \A a, b \in Nat : (a + 1) * (b + 1) = a * (b + 1) + (b + 1)
      OBVIOUS
    <3> QED BY ONLY <1>1, <3>1 DEF MostSteps, N, D
  <2>7. D * (N + 1) \in Nat
    BY ONLY <1>1
  <2> QED BY ONLY <1>1, <2>1, <2>3, <2>4, <2>5, <2>6, <2>7
<1> QED BY <1>3, <1>4, <1>5

(* A step of a call that does not end it moves it on.                      *)
LEMMA FindAdvances ==
  ASSUME ListInv, CallInv, FindStep
  PROVE  StepsLeft' < StepsLeft
<1>1. op = "find" /\ UNCHANGED <<fields, heap>> /\ path' = path
  BY DEF FindStep, path, fields, heap
<1>2. StepsLeft = AheadOf(path, iter) + 1 /\ AheadOf(path, iter) \in Nat
  BY <1>1, AheadBound DEF StepsLeft
<1>3. CASE op' = "none"
  <2>1. StepsLeft' = 0
    BY <1>3 DEF StepsLeft
  <2> QED BY ONLY <1>2, <2>1
<1>4. CASE iter # NULL /\ iter' = Advance /\ op' = op
  <2>1. PICK j \in 1 .. Len(path) : iter = path[j]
    BY <1>1, <1>4, Standing
  <2>2. AheadOf(path, iter') < AheadOf(path, iter) /\ AheadOf(path, iter') \in Nat
    BY <1>4, <2>1, WalkOn DEF Advance
  <2>3. StepsLeft' = AheadOf(path, iter') + 1
    BY <1>1, <1>4 DEF StepsLeft
  <2> QED BY ONLY <1>2, <2>2, <2>3
<1> QED BY <1>3, <1>4 DEF FindStep, Return
LEMMA DeleteAdvances ==
  ASSUME ListInv, CallInv, DeleteStep
  PROVE  StepsLeft' < StepsLeft
<1>1. op = "delete" /\ op # "none"
  BY DEF DeleteStep
<1>2. StepsLeft = AheadOf(path, iter) + 1 /\ AheadOf(path, iter) \in Nat
  BY <1>1, AheadBound DEF StepsLeft
<1>3. CASE op' = "none"
  <2>1. StepsLeft' = 0
    BY <1>3 DEF StepsLeft
  <2> QED BY ONLY <1>2, <2>1
<1>4. CASE iter' = next[iter] /\ op' = op /\ UNCHANGED <<fields, heap>>
  <2>1. PICK j \in 1 .. Len(path) : iter = path[j]
    BY <1>1 DEF CallInv, DeleteAt
  <2>2. path' = path
    BY <1>4 DEF path, fields, heap
  <2>3. AheadOf(path, iter') < AheadOf(path, iter) /\ AheadOf(path, iter') \in Nat
    BY <1>4, <2>1, WalkOn
  <2>4. StepsLeft' = AheadOf(path, iter') + 1
    BY <1>1, <1>4, <2>2 DEF StepsLeft
  <2> QED BY ONLY <1>2, <2>3, <2>4
<1> QED BY <1>3, <1>4 DEF DeleteStep, Return, Fault

LEMMA FilterAdvances ==
  ASSUME ListInv, CallInv, FilterStep
  PROVE  StepsLeft' < StepsLeft
<1> DEFINE W == Cardinality(wanted)
           L == Len(path)
           A == AheadOf(path, iter)
<1>1. op = "filter" /\ op # "none" /\ UNCHANGED <<fields, heap>> /\ path' = path
  BY DEF FilterStep, Fault, path, fields, heap
<1>2. /\ StepsLeft = (W - passes) * (L + 1) + A + 1
      /\ A \in Nat /\ L \in Nat /\ L # 0
  BY <1>1, AheadBound, ListFacts, FilterFacts DEF StepsLeft, PassesLeft
<1>3. W \in Nat /\ passes \in Nat /\ passes <= W
  BY <1>1, PassesBound
<1>4. (W - passes) * (L + 1) \in Nat
  BY ONLY <1>2, <1>3
<1>5. CASE op' = "none"
  <2>1. StepsLeft' = 0
    BY <1>5 DEF StepsLeft
  <2> HIDE DEF W, L, A
  <2> QED BY ONLY <1>2, <1>4, <2>1
<1>6. CASE /\ passes < W /\ iter # NULL /\ op' = op /\ wanted' = wanted
           /\ \/ next[iter] = NULL /\ iter' = next[head] /\ passes' = passes + 1
              \/ next[iter] # NULL /\ iter' = next[iter] /\ UNCHANGED passes
  <2> DEFINE B == AheadOf(path, iter')
  <2>1. PICK j \in 1 .. Len(path) : iter = path[j]
    BY <1>1, <1>6, Standing
  <2>2. StepsLeft' = (W - passes') * (L + 1) + B + 1
    BY <1>1, <1>6 DEF StepsLeft, PassesLeft
  <2>3. CASE iter' = next[iter] /\ passes' = passes
    <3>1. B < A /\ B \in Nat
      BY <2>1, <2>3, WalkOn
    <3> HIDE DEF W, L, A, B
    <3>2. StepsLeft' = (W - passes) * (L + 1) + B + 1
      BY ONLY <2>2, <2>3
    <3> QED BY ONLY <1>2, <1>4, <3>1, <3>2
  <2>4. CASE iter' = next[head] /\ passes' = passes + 1
    <3>1. 1 \in 1 .. Len(path) /\ head = path[1]
      <4>1. Len(path) \in Nat /\ Len(path) # 0 /\ head = path[1]
        BY <1>2, ListFacts
      <4> QED BY ONLY <4>1
    <3>2. B < AheadOf(path, path[1]) /\ B \in Nat
      BY <2>4, <3>1, WalkOn
    <3>3. AheadOf(path, path[1]) = L + 1 - 1
      BY <3>1, AheadFacts
    <3> HIDE DEF W, L, A, B
    <3>4. (W - (passes + 1)) * (L + 1) = (W - passes) * (L + 1) - (L + 1)
      BY ONLY <1>2, <1>3
    <3>5. StepsLeft' = (W - (passes + 1)) * (L + 1) + B + 1
      BY ONLY <2>2, <2>4
    <3> QED BY ONLY <1>2, <1>4, <3>2, <3>3, <3>4, <3>5
  <2> QED BY <1>6, <2>3, <2>4
<1> QED BY <1>5, <1>6 DEF FilterStep, Fault

(* A call under way has steps left, at most MostSteps.                     *)
StepsBounded ==
  /\ StepsLeft \in 0 .. MostSteps
  /\ op # "none" <=> StepsLeft # 0

(* Whatever happens while find_node, delete_node or filter is under way    *)
(* leaves it fewer steps.                                                  *)
CallsAdvance == [][op # "none" => StepsLeft' < StepsLeft]_vars

(* No walk over a list goes round: every call of find_node, delete_node    *)
(* and filter ends after at most MostSteps of its steps.  CallsReturn adds *)
(* only that the thread is scheduled.                                      *)
THEOREM CallsShorten == Spec => []StepsBounded /\ CallsAdvance
<1>1. ASSUME ListInv, CallInv PROVE StepsBounded
  <2>1. StepsLeft \in 0 .. MostSteps
    BY <1>1, StepsBound
  <2>2. CASE op = "none"
    BY <2>1, <2>2 DEF StepsBounded, StepsLeft
  <2>3. CASE op # "none"
    <3>1. AheadOf(path, iter) \in Nat
      BY <1>1, <2>3, AheadBound
    <3>2. op = "filter" => PassesLeft \in Nat
      <4> SUFFICES ASSUME op = "filter" PROVE PassesLeft \in Nat
        OBVIOUS
      <4>1. Cardinality(wanted) - passes \in Nat
        BY <1>1, PassesBound
      <4>2. Len(path) + 1 \in Nat
        <5>1. Len(path) \in Nat
          BY <1>1, ListFacts
        <5> QED BY ONLY <5>1
      <4> QED BY ONLY <4>1, <4>2 DEF PassesLeft
    <3>3. StepsLeft # 0
      <4>1. CASE op = "filter"
        <5>1. StepsLeft = PassesLeft + AheadOf(path, iter) + 1
          BY ONLY <4>1 DEF StepsLeft
        <5> QED BY ONLY <3>1, <3>2, <4>1, <5>1
      <4>2. CASE op # "filter"
        <5>1. StepsLeft = AheadOf(path, iter) + 1
          BY ONLY <2>3, <4>2 DEF StepsLeft
        <5> QED BY ONLY <3>1, <5>1
      <4> QED BY ONLY <4>1, <4>2
    <3> QED BY ONLY <2>1, <2>3, <3>3 DEF StepsBounded
  <2> QED BY <2>2, <2>3
<1>2. ListInv /\ CallInv /\ [Next]_vars => [op # "none" => StepsLeft' < StepsLeft]_vars
  <2> SUFFICES ASSUME ListInv, CallInv, Next, op # "none" PROVE StepsLeft' < StepsLeft
    OBVIOUS
  <2>1. FindStep \/ DeleteStep \/ FilterStep
    BY DEF Next, Step, Idle, PushData, PushNode, FindStart, DeleteStart, FilterStart, DestroyList
  <2> QED BY <2>1, FindAdvances, DeleteAdvances, FilterAdvances
<1> QED BY <1>1, <1>2, Invariant, PTL DEF Spec, CallsAdvance
=============================================================================
