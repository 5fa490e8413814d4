------------------------------ MODULE ListProofs ------------------------------
(***************************************************************************)
(* The operations of LinkedList on a list whose two chains of links hold a *)
(* sequence of nodes: which sequence they leave.  Following links is a     *)
(* recursion of any length; the induction it needs is that every set of    *)
(* numbers has a least one.                                                *)
(***************************************************************************)
EXTENDS LinkedList, TLAPS, FiniteSetTheorems, WellFoundedInduction

LEMMA LeastOf ==
  ASSUME NEW T, T \subseteq Nat, T # {}
  PROVE  \E m \in T : \A k \in T : m <= k
<1>1. PICK m \in T : \A k \in T : ~ (<<k, m>> \in OpToRel(<, Nat))
  BY WFMin, NatLessThanWellFounded
<1>2. ASSUME NEW k \in T PROVE m <= k
  <2>1. <<k, m>> \in OpToRel(<, Nat) <=> k < m
    BY DEF OpToRel
  <2>2. ~(k < m)
    BY <1>1, <2>1
  <2>3. k \in Nat /\ m \in Nat
    OBVIOUS
  <2> QED
    BY <2>2, <2>3
<1> QED
  BY <1>2

LEMMA Induction ==
  ASSUME NEW S, 0 \in S, \A n \in Nat : n \in S => n + 1 \in S
  PROVE  Nat \subseteq S
<1> SUFFICES ASSUME Nat \ S # {} PROVE FALSE
  OBVIOUS
<1>1. PICK m \in Nat \ S : \A k \in Nat \ S : m <= k
  BY LeastOf
<1>2. m # 0 /\ m - 1 \in Nat
  BY <1>1
<1>3. m - 1 \in S
  BY <1>1, <1>2
<1> QED
  BY <1>1, <1>2, <1>3

-----------------------------------------------------------------------------
(* What the list is to be: its nodes in order, none of them twice.         *)
Orders == {s \in Seq(Node) : \A i, j \in 1 .. Len(s) : s[i] = s[j] => i = j}

(* Following link from first meets the nodes of s, and then Null.          *)
Chained(first, link, s) ==
  /\ first = IF Len(s) = 0 THEN Null ELSE s[1]
  /\ \A i \in 1 .. Len(s) : link[s[i]] = IF i < Len(s) THEN s[i + 1] ELSE Null

Met(s) == [i \in 0 .. Cardinality(Node) |-> IF i < Len(s) THEN s[i + 1] ELSE Null]

LEMMA NodesFit ==
  ASSUME NEW s \in Orders
  PROVE  Len(s) \in Nat /\ Len(s) <= Cardinality(Node) /\ Cardinality(Node) \in Nat
<1>1. s \in [1 .. Len(s) -> Node] /\ Len(s) \in Nat
  BY DEF Orders
<1>2. s \in Injection(1 .. Len(s), Node)
  BY <1>1 DEF Orders, Injection, IsInjective
<1>3. IsFiniteSet(Node) /\ Cardinality(Node) \in Nat
  BY NodeAssumption, FS_CardinalityType
<1>4. Cardinality(1 .. Len(s)) <= Cardinality(Node)
  BY <1>2, <1>3, FS_Injection
<1>5. Cardinality(1 .. Len(s)) = Len(s)
  <2>1. 1 \in Int /\ Len(s) \in Int
    BY <1>1
  <2>2. Cardinality(1 .. Len(s)) = IF 1 > Len(s) THEN 0 ELSE Len(s) - 1 + 1
    BY <2>1, FS_Interval
  <2> QED
    BY <1>1, <2>2
<1> QED
  BY <1>1, <1>3, <1>4, <1>5

LEMMA PathMeets ==
  ASSUME NEW s \in Orders, NEW first, NEW link, Chained(first, link, s)
  PROVE  Path(first, link) = Met(s)
<1> DEFINE C == Cardinality(Node)
           p == Path(first, link)
           From(q, i) == IF i = 0 THEN first
                         ELSE IF q[i - 1] = Null THEN Null ELSE link[q[i - 1]]
<1>1. Len(s) \in Nat /\ Len(s) <= C /\ C \in Nat /\ \A i \in 1 .. Len(s) : s[i] \in Node /\ s[i] # Null
  BY NodesFit, NodeAssumption DEF Orders
<1>2. Met(s) = [i \in 0 .. C |-> From(Met(s), i)]
  <2>1. ASSUME NEW i \in 0 .. C PROVE Met(s)[i] = From(Met(s), i)
    <3>1. CASE i = 0
      BY <1>1, <3>1 DEF Met, Chained
    <3>2. CASE i # 0 /\ i - 1 < Len(s)
      <4>1. Met(s)[i - 1] = s[i] /\ s[i] # Null
        BY <1>1, <3>2 DEF Met
      <4>2. link[s[i]] = IF i < Len(s) THEN s[i + 1] ELSE Null
        BY <1>1, <3>2 DEF Chained
      <4> QED
        BY <3>2, <4>1, <4>2 DEF Met
    <3>3. CASE i # 0 /\ ~(i - 1 < Len(s))
      BY <1>1, <3>3 DEF Met
    <3> QED
      BY <3>1, <3>2, <3>3
  <2>2. Met(s) = [i \in 0 .. C |-> Met(s)[i]]
    BY DEF Met
  <2> HIDE DEF From
  <2> QED
    BY <2>1, <2>2
<1>3. p = [i \in 0 .. C |-> From(p, i)]
  BY <1>2 DEF Path
<1>4. \A i \in Nat : i \in 0 .. C => p[i] = Met(s)[i]
  <2> DEFINE S == {i \in Nat : i \in 0 .. C => p[i] = Met(s)[i]}
  <2>1. 0 \in S
    <3>1. p[0] = first
      BY <1>1, <1>3
    <3>2. Met(s)[0] = first
      BY <1>1, <1>2
    <3> QED
      BY <3>1, <3>2
  <2>2. ASSUME NEW n \in Nat, n \in S PROVE n + 1 \in S
    <3> SUFFICES ASSUME n + 1 \in 0 .. C PROVE p[n + 1] = Met(s)[n + 1]
      OBVIOUS
    <3>1. p[n] = Met(s)[n]
      BY <1>1, <2>2
    <3>2. p[n + 1] = From(p, n + 1)
      BY <1>3
    <3>3. Met(s)[n + 1] = From(Met(s), n + 1)
      BY <1>2
    <3>4. From(p, n + 1) = From(Met(s), n + 1)
      <4>1. (n + 1) - 1 = n
        OBVIOUS
      <4> QED
        BY <3>1, <4>1
    <3> HIDE DEF From, p
    <3> QED
      BY <3>2, <3>3, <3>4
  <2> HIDE DEF S
  <2>3. Nat \subseteq S
    BY <2>1, <2>2, Induction
  <2> QED
    BY <2>3 DEF S
<1>5. p = [i \in 0 .. C |-> p[i]] /\ Met(s) = [i \in 0 .. C |-> Met(s)[i]]
  BY <1>2, <1>3
<1> HIDE DEF p
<1> QED
  BY <1>1, <1>4, <1>5 DEF p

-----------------------------------------------------------------------------
(* A list whose links hold the nodes of s, forwards and backwards, and     *)
(* those only; with priorities none comes behind a lower one.              *)
Links == [Node -> Node \cup {Null}]
Shape == {"enable_prio", "head", "tail", "size", "allocated", "prio", "prev", "next"}

(* What the operations rely on, whatever is in the memory of other nodes.  *)
Holds(l, s) ==
  /\ s \in Orders
  /\ l.size = Len(s)
  /\ l.head = IF Len(s) = 0 THEN Null ELSE s[1]
  /\ l.tail = IF Len(s) = 0 THEN Null ELSE s[Len(s)]
  /\ \A i \in 1 .. Len(s) : /\ l.next[s[i]] = IF i < Len(s) THEN s[i + 1] ELSE Null
                            /\ l.prev[s[i]] = IF i > 1 THEN s[i - 1] ELSE Null
  /\ l.prev \in Links /\ l.next \in Links
  /\ l = [f \in Shape |-> l[f]]

Elements(s) == {s[i] : i \in 1 .. Len(s)}

Sorted(l, s) ==
  /\ l.prio \in [Node -> Int] /\ l.enable_prio \in BOOLEAN
  /\ l.enable_prio => \A i, j \in 1 .. Len(s) : i < j => l.prio[s[i]] >= l.prio[s[j]]

(* The nodes that are not allocated are as EmptyList and Freed leave them. *)
Clear(l, s) ==
  /\ l.allocated = Elements(s)
  /\ \A n \in Node \ Elements(s) : l.prio[n] = 0 /\ l.prev[n] = Null /\ l.next[n] = Null

ListOf(l, s) == Holds(l, s) /\ Sorted(l, s) /\ Clear(l, s)

Backwards(s) == [i \in 1 .. Len(s) |-> s[Len(s) + 1 - i]]

LEMMA BackwardsOrder ==
  ASSUME NEW s \in Orders
  PROVE  /\ Backwards(s) \in Orders /\ Len(Backwards(s)) = Len(s)
         /\ \A i \in 1 .. Len(s) : Backwards(s)[i] = s[Len(s) + 1 - i]
<1>1. Len(s) \in Nat /\ s \in [1 .. Len(s) -> Node]
  BY DEF Orders
<1>2. Backwards(s) \in [1 .. Len(s) -> Node]
  BY <1>1 DEF Backwards
<1>3. Backwards(s) \in Seq(Node) /\ Len(Backwards(s)) = Len(s)
  BY <1>1, <1>2
<1>4. \A i \in 1 .. Len(s) : Backwards(s)[i] = s[Len(s) + 1 - i] /\ Len(s) + 1 - i \in 1 .. Len(s)
  BY <1>1 DEF Backwards
<1>5. \A i, j \in 1 .. Len(s) : Backwards(s)[i] = Backwards(s)[j] => i = j
  BY <1>1, <1>4 DEF Orders
<1> QED
  BY <1>3, <1>4, <1>5 DEF Orders

LEMMA PathsOfList ==
  ASSUME NEW l, NEW s, Holds(l, s)
  PROVE  /\ Path(l.head, l.next) = Met(s)
         /\ Path(l.tail, l.prev) = Met(Backwards(s))
<1>1. Len(s) \in Nat /\ s \in Orders
  BY DEF Holds, Orders
<1>2. Chained(l.head, l.next, s)
  BY DEF Holds, Chained
<1> DEFINE b == Backwards(s)
<1>3. b \in Orders /\ Len(b) = Len(s) /\ \A i \in 1 .. Len(s) : b[i] = s[Len(s) + 1 - i]
  BY <1>1, BackwardsOrder
<1> HIDE DEF b
<1>4. Chained(l.tail, l.prev, b)
  <2>1. l.tail = IF Len(b) = 0 THEN Null ELSE b[1]
    BY <1>1, <1>3 DEF Holds
  <2>2. ASSUME NEW i \in 1 .. Len(b)
        PROVE  l.prev[b[i]] = IF i < Len(b) THEN b[i + 1] ELSE Null
    <3> DEFINE j == Len(s) + 1 - i
    <3>1. j \in 1 .. Len(s) /\ b[i] = s[j]
      BY <1>1, <1>3
    <3>2. l.prev[s[j]] = IF j > 1 THEN s[j - 1] ELSE Null
      BY <3>1 DEF Holds
    <3>3. i < Len(b) => b[i + 1] = s[j - 1] /\ j > 1
      BY <1>1, <1>3
    <3>4. ~(i < Len(b)) => ~(j > 1)
      BY <1>1, <1>3
    <3> HIDE DEF j
    <3> QED
      BY <3>1, <3>2, <3>3, <3>4
  <2> QED
    BY <2>1, <2>2 DEF Chained
<1> QED
  BY <1>1, <1>2, <1>3, <1>4, PathMeets DEF b

(* Forward and Backward give the two orders back.                          *)
LEMMA MetNodes ==
  ASSUME NEW s \in Orders
  PROVE  LET p == Met(s)
         IN  [i \in 1 .. Cardinality({j \in DOMAIN p : p[j] # Null}) |-> p[i - 1]] = s
<1> DEFINE p == Met(s)
<1>1. /\ Len(s) \in Nat /\ Len(s) <= Cardinality(Node) /\ Cardinality(Node) \in Nat
      /\ s \in [1 .. Len(s) -> Node] /\ \A i \in 1 .. Len(s) : s[i] # Null
  BY NodesFit, NodeAssumption DEF Orders
<1>2. {j \in DOMAIN p : p[j] # Null} = 0 .. (Len(s) - 1)
  BY <1>1 DEF Met
<1>3. Cardinality(0 .. (Len(s) - 1)) = Len(s)
  <2>1. 0 \in Int /\ Len(s) - 1 \in Int
    BY <1>1
  <2>2. Cardinality(0 .. (Len(s) - 1)) = IF 0 > Len(s) - 1 THEN 0 ELSE Len(s) - 1 - 0 + 1
    BY <2>1, FS_Interval
  <2> QED
    BY <1>1, <2>2
<1>4. \A i \in 1 .. Len(s) : p[i - 1] = s[i]
  BY <1>1 DEF Met
<1>5. s = [i \in 1 .. Len(s) |-> s[i]]
  BY <1>1
<1> HIDE DEF p
<1>6. [i \in 1 .. Len(s) |-> p[i - 1]] = s
  BY <1>4, <1>5
<1> QED
  BY <1>2, <1>3, <1>6 DEF p

LEMMA WalksOfList ==
  ASSUME NEW l, NEW s, Holds(l, s)
  PROVE  Forward(l) = s /\ Backward(l) = Backwards(s)
<1>1. s \in Orders /\ Backwards(s) \in Orders
  BY BackwardsOrder DEF Holds
<1>2. Forward(l) = s
  BY <1>1, PathsOfList, MetNodes DEF Forward
<1>3. Backward(l) = Backwards(s)
  BY <1>1, PathsOfList, MetNodes DEF Backward
<1> QED
  BY <1>2, <1>3

-----------------------------------------------------------------------------
(* Where a priority belongs: behind the first k - 1 nodes, which are not   *)
(* lower, and before the others, which are.                                *)
Splits(prio, s, k, p) ==
  /\ k \in 1 .. Len(s) + 1
  /\ \A i \in 1 .. Len(s) : IF i < k THEN prio[s[i]] >= p ELSE prio[s[i]] < p

LEMMA PlaceExists ==
  ASSUME NEW l, NEW s \in Orders, Sorted(l, s), l.enable_prio, NEW p \in Int
  PROVE  \E k \in 1 .. Len(s) + 1 : Splits(l.prio, s, k, p)
<1> DEFINE T == {k \in 1 .. Len(s) + 1 : \A i \in k .. Len(s) : l.prio[s[i]] < p}
<1>1. Len(s) \in Nat /\ \A i \in 1 .. Len(s) : s[i] \in Node /\ l.prio[s[i]] \in Int
  BY DEF Orders, Sorted
<1>2. T \subseteq Nat /\ Len(s) + 1 \in T
  BY <1>1
<1>3. PICK k \in T : \A j \in T : k <= j
  BY <1>2, LeastOf
<1>4. ASSUME NEW i \in 1 .. Len(s), i < k PROVE l.prio[s[i]] >= p
  <2> SUFFICES ASSUME l.prio[s[i]] < p PROVE FALSE
    BY <1>1
  <2>1. ASSUME NEW j \in i .. Len(s) PROVE l.prio[s[j]] < p
    <3>1. j \in 1 .. Len(s) /\ (i < j \/ i = j)
      BY <1>1
    <3>2. i < j => l.prio[s[i]] >= l.prio[s[j]]
      BY <3>1 DEF Sorted
    <3> QED
      BY <1>1, <3>1, <3>2
  <2>2. i \in T
    BY <1>1, <2>1
  <2>3. k <= i /\ k \in Nat
    BY <1>2, <1>3, <2>2
  <2> QED
    BY <1>4, <2>3
<1>5. ASSUME NEW i \in 1 .. Len(s), ~(i < k) PROVE l.prio[s[i]] < p
  <2>1. i \in k .. Len(s)
    BY <1>2, <1>3, <1>5
  <2> QED
    BY <1>3, <2>1
<1>6. k \in 1 .. Len(s) + 1
  BY <1>3
<1> QED
  BY <1>4, <1>5, <1>6 DEF Splits

LEMMA LowerFound ==
  ASSUME NEW l, NEW s \in Orders, NEW k, NEW p \in Int, Splits(l.prio, s, k, p),
         l.prio \in [Node -> Int], Path(l.head, l.next) = Met(s)
  PROVE  FirstLower(l, p) = IF k <= Len(s) THEN s[k] ELSE Null
<1> DEFINE path == Path(l.head, l.next)
           hits == {i \in DOMAIN path : path[i] # Null /\ l.prio[path[i]] < p}
<1>1. FirstLower(l, p) = IF hits = {} THEN Null ELSE path[Min(hits)]
  BY DEF FirstLower, FirstOn
<1>2. /\ Len(s) \in Nat /\ Len(s) <= Cardinality(Node) /\ Cardinality(Node) \in Nat
      /\ k \in 1 .. Len(s) + 1
      /\ \A i \in 1 .. Len(s) : s[i] \in Node /\ s[i] # Null /\ l.prio[s[i]] \in Int
  <2>1. Len(s) \in Nat /\ Len(s) <= Cardinality(Node) /\ Cardinality(Node) \in Nat
    BY NodesFit
  <2>2. \A i \in 1 .. Len(s) : s[i] \in Node
    BY DEF Orders
  <2>3. k \in 1 .. Len(s) + 1
    BY DEF Splits
  <2> QED
    BY <2>1, <2>2, <2>3, NodeAssumption
<1>3. /\ DOMAIN path = 0 .. Cardinality(Node)
      /\ \A i \in DOMAIN path : path[i] = IF i < Len(s) THEN s[i + 1] ELSE Null
  BY DEF Met
<1> HIDE DEF path
<1>4. ASSUME NEW i \in DOMAIN path PROVE i \in hits <=> i \in (k - 1) .. (Len(s) - 1)
  <2>1. CASE i < Len(s)
    <3>1. i + 1 \in 1 .. Len(s) /\ path[i] = s[i + 1] /\ s[i + 1] # Null /\ l.prio[s[i + 1]] \in Int
      BY <1>2, <1>3, <2>1
    <3>2. IF i + 1 < k THEN l.prio[s[i + 1]] >= p ELSE l.prio[s[i + 1]] < p
      BY <3>1 DEF Splits
    <3>3. i \in hits <=> l.prio[s[i + 1]] < p
      BY <3>1
    <3>4. (l.prio[s[i + 1]] < p) <=> ~(i + 1 < k)
      BY <3>1, <3>2
    <3> HIDE DEF hits
    <3> QED
      BY <1>2, <1>3, <2>1, <3>3, <3>4
  <2>2. CASE ~(i < Len(s))
    BY <1>2, <1>3, <2>2
  <2> QED
    BY <2>1, <2>2
<1>5. hits = (k - 1) .. (Len(s) - 1)
  <2>1. hits \subseteq DOMAIN path /\ (k - 1) .. (Len(s) - 1) \subseteq DOMAIN path
    BY <1>2, <1>3
  <2> HIDE DEF hits
  <2> QED
    BY <1>4, <2>1
<1> HIDE DEF hits
<1>6. CASE k <= Len(s)
  <2>1. k - 1 \in hits /\ \A y \in hits : k - 1 <= y
    BY <1>2, <1>5, <1>6
  <2>2. Min(hits) \in hits /\ \A y \in hits : Min(hits) <= y
    BY <2>1 DEF Min
  <2>3. Min(hits) = k - 1
    BY <1>2, <1>5, <2>1, <2>2
  <2>4. path[k - 1] = s[k]
    BY <1>2, <1>3, <1>6
  <2> QED
    BY <1>1, <1>6, <2>1, <2>3, <2>4
<1>7. CASE ~(k <= Len(s))
  BY <1>1, <1>2, <1>5, <1>7
<1> QED
  BY <1>6, <1>7

LEMMA NotLowerFound ==
  ASSUME NEW l, NEW s \in Orders, NEW k, NEW p \in Int, Splits(l.prio, s, k, p),
         l.prio \in [Node -> Int], Path(l.tail, l.prev) = Met(Backwards(s))
  PROVE  LastNotLower(l, p) = IF k > 1 THEN s[k - 1] ELSE Null
<1> DEFINE path == Path(l.tail, l.prev)
           hits == {i \in DOMAIN path : path[i] # Null /\ l.prio[path[i]] >= p}
<1>1. LastNotLower(l, p) = IF hits = {} THEN Null ELSE path[Min(hits)]
  BY DEF LastNotLower, FirstOn
<1>2. /\ Len(s) \in Nat /\ Len(s) <= Cardinality(Node) /\ Cardinality(Node) \in Nat
      /\ k \in 1 .. Len(s) + 1
      /\ \A i \in 1 .. Len(s) : s[i] \in Node /\ s[i] # Null /\ l.prio[s[i]] \in Int
  <2>1. Len(s) \in Nat /\ Len(s) <= Cardinality(Node) /\ Cardinality(Node) \in Nat
    BY NodesFit
  <2>2. \A i \in 1 .. Len(s) : s[i] \in Node
    BY DEF Orders
  <2>3. k \in 1 .. Len(s) + 1
    BY DEF Splits
  <2> QED
    BY <2>1, <2>2, <2>3, NodeAssumption
<1>3. /\ DOMAIN path = 0 .. Cardinality(Node)
      /\ \A i \in DOMAIN path : path[i] = IF i < Len(s) THEN s[Len(s) - i] ELSE Null
  <2>1. Len(Backwards(s)) = Len(s) /\ \A i \in 1 .. Len(s) : Backwards(s)[i] = s[Len(s) + 1 - i]
    BY BackwardsOrder
  <2>2. path = [i \in 0 .. Cardinality(Node) |->
                   IF i < Len(s) THEN Backwards(s)[i + 1] ELSE Null]
    BY <2>1 DEF Met
  <2> HIDE DEF path
  <2>3. ASSUME NEW i \in 0 .. Cardinality(Node), i < Len(s) PROVE path[i] = s[Len(s) - i]
    <3>1. i + 1 \in 1 .. Len(s) /\ Len(s) + 1 - (i + 1) = Len(s) - i
      BY <1>2, <2>3
    <3> QED
      BY <2>1, <2>2, <2>3, <3>1
  <2> QED
    BY <2>2, <2>3
<1> HIDE DEF path
<1>4. ASSUME NEW i \in DOMAIN path
      PROVE  i \in hits <=> i \in (Len(s) + 1 - k) .. (Len(s) - 1)
  <2>1. CASE i < Len(s)
    <3>1. Len(s) - i \in 1 .. Len(s) /\ path[i] = s[Len(s) - i]
          /\ s[Len(s) - i] # Null /\ l.prio[s[Len(s) - i]] \in Int
      BY <1>2, <1>3, <2>1
    <3>2. IF Len(s) - i < k THEN l.prio[s[Len(s) - i]] >= p ELSE l.prio[s[Len(s) - i]] < p
      BY <3>1 DEF Splits
    <3>3. i \in hits <=> l.prio[s[Len(s) - i]] >= p
      BY <3>1
    <3>4. (l.prio[s[Len(s) - i]] >= p) <=> Len(s) - i < k
      BY <3>1, <3>2
    <3> HIDE DEF hits
    <3> QED
      BY <1>2, <1>3, <2>1, <3>3, <3>4
  <2>2. CASE ~(i < Len(s))
    BY <1>2, <1>3, <2>2
  <2> QED
    BY <2>1, <2>2
<1>5. hits = (Len(s) + 1 - k) .. (Len(s) - 1)
  <2>1. hits \subseteq DOMAIN path /\ (Len(s) + 1 - k) .. (Len(s) - 1) \subseteq DOMAIN path
    BY <1>2, <1>3
  <2> HIDE DEF hits
  <2> QED
    BY <1>4, <2>1
<1> HIDE DEF hits
<1>6. CASE k > 1
  <2> DEFINE i == Len(s) + 1 - k
  <2>1. i \in hits /\ \A y \in hits : i <= y
    BY <1>2, <1>5, <1>6
  <2>2. Min(hits) \in hits /\ \A y \in hits : Min(hits) <= y
    BY <2>1 DEF Min
  <2>3. Min(hits) = i
    <3>1. i \in Int /\ Min(hits) \in Int
      BY <1>2, <1>5, <2>2
    <3>2. Min(hits) <= i /\ i <= Min(hits)
      BY <2>1, <2>2
    <3> HIDE DEF i
    <3> QED
      BY <3>1, <3>2
  <2>4. path[i] = s[k - 1]
    <3>1. i \in DOMAIN path /\ i < Len(s) /\ Len(s) - i = k - 1
      BY <1>2, <1>3, <1>6
    <3> HIDE DEF i
    <3> QED
      BY <1>3, <3>1
  <2> HIDE DEF i
  <2> QED
    BY <1>1, <1>6, <2>1, <2>3, <2>4
<1>7. CASE ~(k > 1)
  BY <1>1, <1>2, <1>5, <1>7
<1> QED
  BY <1>6, <1>7

-----------------------------------------------------------------------------
(* The list with node n, of priority q, put in as its k-th.                *)
Spliced(l, s, k, n, q) ==
  [enable_prio |-> l.enable_prio,
   head |-> IF k = 1 THEN n ELSE l.head,
   tail |-> IF k = Len(s) + 1 THEN n ELSE l.tail,
   size |-> l.size + 1,
   allocated |-> l.allocated \cup {n},
   prio |-> [l.prio EXCEPT ![n] = q],
   prev |-> [m \in Node |-> IF m = n THEN IF k > 1 THEN s[k - 1] ELSE Null
                            ELSE IF k <= Len(s) /\ m = s[k] THEN n ELSE l.prev[m]],
   next |-> [m \in Node |-> IF m = n THEN IF k <= Len(s) THEN s[k] ELSE Null
                            ELSE IF k > 1 /\ m = s[k - 1] THEN n ELSE l.next[m]]]

Added(l, n, q) == [Created(l, n, q) EXCEPT !.size = @ + 1]

LEMMA AddedFields ==
  ASSUME NEW l, NEW s, ListOf(l, s), NEW n \in Node, n \notin l.allocated, NEW q
  PROVE  LET c == Added(l, n, q)
         IN  /\ c.enable_prio = l.enable_prio /\ c.head = l.head /\ c.tail = l.tail
             /\ c.size = l.size + 1 /\ c.allocated = l.allocated \cup {n}
             /\ c.prio = [l.prio EXCEPT ![n] = q]
             /\ c.prev = l.prev /\ c.next = l.next
             /\ c = [f \in Shape |-> c[f]]
<1> DEFINE c == Added(l, n, q)
           d == Created(l, n, q)
<1>1. l = [f \in Shape |-> l[f]] /\ l.prev \in Links /\ l.next \in Links
      /\ l.prev[n] = Null /\ l.next[n] = Null
  BY DEF ListOf, Holds, Clear
<1>2. /\ d = [f \in Shape |-> d[f]]
      /\ d.enable_prio = l.enable_prio /\ d.head = l.head /\ d.tail = l.tail
      /\ d.size = l.size /\ d.allocated = l.allocated \cup {n}
      /\ d.prio = [l.prio EXCEPT ![n] = q]
      /\ d.prev = [l.prev EXCEPT ![n] = Null] /\ d.next = [l.next EXCEPT ![n] = Null]
  BY <1>1 DEF Created, Shape
<1>3. c = [d EXCEPT !.size = @ + 1]
  BY DEF Added
<1> HIDE DEF c, d
<1>4. d.prev = l.prev /\ d.next = l.next
  BY <1>1, <1>2 DEF Links
<1>5. c = [f \in Shape |-> c[f]] /\ c.size = d.size + 1
      /\ c.enable_prio = d.enable_prio /\ c.head = d.head /\ c.tail = d.tail
      /\ c.allocated = d.allocated /\ c.prio = d.prio /\ c.prev = d.prev /\ c.next = d.next
  BY <1>2, <1>3 DEF Shape
<1>6. c.prev = l.prev /\ c.next = l.next
  BY <1>4, <1>5
<1> QED
  BY <1>2, <1>5, <1>6 DEF c

LEMMA BeforeIsSpliced ==
  ASSUME NEW l, NEW s, ListOf(l, s), NEW n \in Node, n \notin l.allocated, NEW q,
         NEW k \in 1 .. Len(s)
  PROVE  LinkedBefore(Added(l, n, q), n, s[k]) = Spliced(l, s, k, n, q)
<1> DEFINE c == Added(l, n, q)
           r == LinkedBefore(c, n, s[k])
           t == Spliced(l, s, k, n, q)
<1>1. /\ c.enable_prio = l.enable_prio /\ c.head = l.head /\ c.tail = l.tail
      /\ c.size = l.size + 1 /\ c.allocated = l.allocated \cup {n}
      /\ c.prio = [l.prio EXCEPT ![n] = q]
      /\ c.prev = l.prev /\ c.next = l.next
      /\ c = [f \in Shape |-> c[f]]
  BY AddedFields
<1>2. /\ Len(s) \in Nat /\ s[k] \in Node /\ s[k] # n /\ s[k] # Null
      /\ k > 1 => s[k - 1] \in Node /\ s[k - 1] # n /\ s[k - 1] # Null /\ s[k - 1] # s[k]
      /\ l.head = s[1] /\ l.tail = s[Len(s)]
      /\ l.prev[s[k]] = IF k > 1 THEN s[k - 1] ELSE Null
      /\ l.prev \in Links /\ l.next \in Links
      /\ s[1] = s[k] <=> k = 1
  <2>1. Len(s) \in Nat /\ \A i \in 1 .. Len(s) : s[i] \in Node /\ s[i] # Null /\ s[i] # n
    BY NodeAssumption DEF ListOf, Holds, Clear, Elements, Orders
  <2>2. 1 \in 1 .. Len(s) /\ Len(s) \in 1 .. Len(s) /\ (k > 1 => k - 1 \in 1 .. Len(s))
    BY <2>1
  <2>3. \A i, j \in 1 .. Len(s) : s[i] = s[j] => i = j
    BY DEF ListOf, Holds, Orders
  <2>4. s[1] = s[k] <=> k = 1
    BY <2>2, <2>3
  <2>5. k > 1 => s[k - 1] # s[k]
    BY <2>1, <2>2, <2>3
  <2>6. l.prev[s[k]] = IF k > 1 THEN s[k - 1] ELSE Null
    BY DEF ListOf, Holds
  <2>7. l.head = s[1] /\ l.tail = s[Len(s)] /\ l.prev \in Links /\ l.next \in Links
    BY <2>1, <2>2 DEF ListOf, Holds
  <2> QED
    BY <2>1, <2>2, <2>4, <2>5, <2>6, <2>7
<1> HIDE DEF c
<1>3. /\ r = [f \in Shape |-> r[f]]
      /\ r.enable_prio = c.enable_prio /\ r.tail = c.tail
      /\ r.size = c.size /\ r.allocated = c.allocated /\ r.prio = c.prio
      /\ r.head = (IF s[k] = c.head THEN n ELSE c.head)
      /\ r.prev = [SetLink(c.prev, s[k], n) EXCEPT ![n] = c.prev[s[k]]]
      /\ r.next = [SetLink(c.next, c.prev[s[k]], n) EXCEPT ![n] = s[k]]
  BY <1>1 DEF LinkedBefore, Shape
<1> HIDE DEF r
<1>4. r.prev = t.prev
  BY <1>1, <1>2, <1>3 DEF SetLink, Spliced, Links
<1>5. r.next = t.next
  BY <1>1, <1>2, <1>3 DEF SetLink, Spliced, Links
<1>6. /\ r.enable_prio = t.enable_prio /\ r.tail = t.tail /\ r.head = t.head
      /\ r.size = t.size /\ r.allocated = t.allocated /\ r.prio = t.prio
  BY <1>1, <1>2, <1>3 DEF Spliced
<1>7. t = [f \in Shape |-> t[f]]
  BY DEF Spliced, Shape
<1> HIDE DEF t
<1>8. \A f \in Shape : r[f] = t[f]
  BY <1>4, <1>5, <1>6 DEF Shape
<1>9. r = t
  BY <1>3, <1>7, <1>8
<1> QED
  BY <1>9 DEF r, t, c

LEMMA AfterIsSpliced ==
  ASSUME NEW l, NEW s, ListOf(l, s), NEW n \in Node, n \notin l.allocated, NEW q,
         NEW k \in 2 .. Len(s) + 1
  PROVE  LinkedAfter(Added(l, n, q), n, s[k - 1]) = Spliced(l, s, k, n, q)
<1> DEFINE c == Added(l, n, q)
           r == LinkedAfter(c, n, s[k - 1])
           t == Spliced(l, s, k, n, q)
<1>1. /\ c.enable_prio = l.enable_prio /\ c.head = l.head /\ c.tail = l.tail
      /\ c.size = l.size + 1 /\ c.allocated = l.allocated \cup {n}
      /\ c.prio = [l.prio EXCEPT ![n] = q]
      /\ c.prev = l.prev /\ c.next = l.next
      /\ c = [f \in Shape |-> c[f]]
  BY AddedFields
<1>2. /\ Len(s) \in Nat /\ k > 1 /\ k # 1
      /\ s[k - 1] \in Node /\ s[k - 1] # n /\ s[k - 1] # Null
      /\ k <= Len(s) => s[k] \in Node /\ s[k] # n /\ s[k] # Null /\ s[k] # s[k - 1]
      /\ l.head = s[1] /\ l.tail = s[Len(s)]
      /\ l.next[s[k - 1]] = IF k <= Len(s) THEN s[k] ELSE Null
      /\ l.prev \in Links /\ l.next \in Links
      /\ s[Len(s)] = s[k - 1] <=> k = Len(s) + 1
  <2>1. Len(s) \in Nat /\ \A i \in 1 .. Len(s) : s[i] \in Node /\ s[i] # Null /\ s[i] # n
    BY NodeAssumption DEF ListOf, Holds, Clear, Elements, Orders
  <2>2. k - 1 \in 1 .. Len(s) /\ Len(s) \in 1 .. Len(s) /\ (k <= Len(s) => k \in 1 .. Len(s))
    BY <2>1
  <2>3. \A i, j \in 1 .. Len(s) : s[i] = s[j] => i = j
    BY DEF ListOf, Holds, Orders
  <2>4. s[Len(s)] = s[k - 1] <=> k = Len(s) + 1
    BY <2>1, <2>2, <2>3
  <2>5. k <= Len(s) => s[k] # s[k - 1]
    BY <2>1, <2>2, <2>3
  <2>6. l.next[s[k - 1]] = IF k - 1 < Len(s) THEN s[(k - 1) + 1] ELSE Null
    BY <2>2 DEF ListOf, Holds
  <2>7. (k - 1) + 1 = k /\ (k - 1 < Len(s) <=> k <= Len(s))
    BY <2>1
  <2>8. l.head = s[1] /\ l.tail = s[Len(s)] /\ l.prev \in Links /\ l.next \in Links
    BY <2>1, <2>2 DEF ListOf, Holds
  <2> QED
    BY <2>1, <2>2, <2>4, <2>5, <2>6, <2>7, <2>8
<1> HIDE DEF c
<1>3. /\ r = [f \in Shape |-> r[f]]
      /\ r.enable_prio = c.enable_prio /\ r.head = c.head
      /\ r.size = c.size /\ r.allocated = c.allocated /\ r.prio = c.prio
      /\ r.tail = (IF s[k - 1] = c.tail THEN n ELSE c.tail)
      /\ r.next = [SetLink(c.next, s[k - 1], n) EXCEPT ![n] = c.next[s[k - 1]]]
      /\ r.prev = [SetLink(c.prev, c.next[s[k - 1]], n) EXCEPT ![n] = s[k - 1]]
  BY <1>1 DEF LinkedAfter, Shape
<1> HIDE DEF r
<1>4. r.prev = t.prev
  <2>1. t.prev = [m \in Node |-> IF m = n THEN s[k - 1]
                                 ELSE IF k <= Len(s) /\ m = s[k] THEN n ELSE l.prev[m]]
    BY <1>2 DEF Spliced
  <2>2. r.prev = [SetLink(l.prev, l.next[s[k - 1]], n) EXCEPT ![n] = s[k - 1]]
    BY <1>1, <1>3
  <2>3. CASE k <= Len(s)
    BY <1>2, <2>1, <2>2, <2>3 DEF SetLink, Links
  <2>4. CASE ~(k <= Len(s))
    BY <1>2, <2>1, <2>2, <2>4 DEF SetLink, Links
  <2> QED
    BY <2>3, <2>4
<1>5. r.next = t.next
  <2>1. t.next = [m \in Node |-> IF m = n THEN IF k <= Len(s) THEN s[k] ELSE Null
                                 ELSE IF m = s[k - 1] THEN n ELSE l.next[m]]
    BY <1>2 DEF Spliced
  <2>2. r.next = [SetLink(l.next, s[k - 1], n) EXCEPT ![n] = l.next[s[k - 1]]]
    BY <1>1, <1>3
  <2> HIDE DEF t
  <2>3. SetLink(l.next, s[k - 1], n) = [l.next EXCEPT ![s[k - 1]] = n]
    BY <1>2 DEF SetLink
  <2> QED
    BY <1>2, <2>1, <2>2, <2>3 DEF Links
<1>6. /\ r.enable_prio = t.enable_prio /\ r.tail = t.tail /\ r.head = t.head
      /\ r.size = t.size /\ r.allocated = t.allocated /\ r.prio = t.prio
  BY <1>1, <1>2, <1>3 DEF Spliced
<1>7. t = [f \in Shape |-> t[f]]
  BY DEF Spliced, Shape
<1> HIDE DEF t
<1>8. \A f \in Shape : r[f] = t[f]
  BY <1>4, <1>5, <1>6 DEF Shape
<1>9. r = t
  BY <1>3, <1>7, <1>8
<1> QED
  BY <1>9 DEF r, t, c

LEMMA OnlyIsSpliced ==
  ASSUME NEW l, NEW s, ListOf(l, s), NEW n \in Node, n \notin l.allocated, NEW q, Len(s) = 0
  PROVE  Only(Added(l, n, q), n) = Spliced(l, s, 1, n, q)
<1> DEFINE c == Added(l, n, q)
           r == Only(c, n)
           t == Spliced(l, s, 1, n, q)
<1>1. /\ c.enable_prio = l.enable_prio /\ c.head = l.head /\ c.tail = l.tail
      /\ c.size = l.size + 1 /\ c.allocated = l.allocated \cup {n}
      /\ c.prio = [l.prio EXCEPT ![n] = q]
      /\ c.prev = l.prev /\ c.next = l.next
      /\ c = [f \in Shape |-> c[f]]
  BY AddedFields
<1>2. l.prev \in Links /\ l.next \in Links /\ l.prev[n] = Null /\ l.next[n] = Null
  BY DEF ListOf, Holds, Clear
<1> HIDE DEF c
<1>3. /\ r = [f \in Shape |-> r[f]]
      /\ r.enable_prio = c.enable_prio /\ r.head = n /\ r.tail = n
      /\ r.size = c.size /\ r.allocated = c.allocated /\ r.prio = c.prio
      /\ r.prev = c.prev /\ r.next = c.next
  BY <1>1 DEF Only, Shape
<1> HIDE DEF r
<1>4. r.prev = t.prev /\ r.next = t.next
  BY <1>1, <1>2, <1>3 DEF Spliced, Links
<1>5. /\ r.enable_prio = t.enable_prio /\ r.tail = t.tail /\ r.head = t.head
      /\ r.size = t.size /\ r.allocated = t.allocated /\ r.prio = t.prio
  BY <1>1, <1>2, <1>3 DEF Spliced
<1>6. t = [f \in Shape |-> t[f]]
  BY DEF Spliced, Shape
<1> HIDE DEF t
<1>7. \A f \in Shape : r[f] = t[f]
  BY <1>4, <1>5 DEF Shape
<1>8. r = t
  BY <1>3, <1>6, <1>7
<1> QED
  BY <1>8 DEF r, t, c

(* Where push and push_back put a node.                                    *)
Fore(l, s, k, p) == IF l.enable_prio THEN Splits(l.prio, s, k, p) ELSE k = 1
Rear(l, s, k, p) == IF l.enable_prio THEN Splits(l.prio, s, k, p) ELSE k = Len(s) + 1
Rank(l, p) == IF l.enable_prio THEN p ELSE 0

LEMMA PushSplices ==
  ASSUME NEW l, NEW s, ListOf(l, s), NEW n \in Node, n \notin l.allocated,
         NEW p \in Int, NEW k \in 1 .. Len(s) + 1
  PROVE  /\ Fore(l, s, k, p) => Push(l, n, p) = Spliced(l, s, k, n, Rank(l, p))
         /\ Rear(l, s, k, p) => PushBack(l, n, p) = Spliced(l, s, k, n, Rank(l, p))
<1> DEFINE q == Rank(l, p)
           c == Added(l, n, q)
<1>1. /\ c.enable_prio = l.enable_prio /\ c.head = l.head /\ c.tail = l.tail
      /\ c.prio = [l.prio EXCEPT ![n] = q]
      /\ c.prev = l.prev /\ c.next = l.next
  BY AddedFields
<1>2. /\ Len(s) \in Nat /\ s \in Orders /\ q \in Int /\ l.prio \in [Node -> Int]
      /\ Len(s) = 0 => l.head = Null /\ l.tail = Null
      /\ Len(s) # 0 => l.head = s[1] /\ l.tail = s[Len(s)]
      /\ \A i \in 1 .. Len(s) : s[i] # Null /\ s[i] # n /\ s[i] \in Node
  <2>1. Len(s) \in Nat /\ s \in Orders /\ \A i \in 1 .. Len(s) : s[i] \in Node
    BY DEF ListOf, Holds, Orders
  <2>2. q \in Int /\ l.prio \in [Node -> Int]
    BY DEF ListOf, Sorted, Rank
  <2>3. \A i \in 1 .. Len(s) : s[i] # Null /\ s[i] # n
    BY <2>1, NodeAssumption DEF ListOf, Clear, Elements
  <2>4. /\ Len(s) = 0 => l.head = Null /\ l.tail = Null
        /\ Len(s) # 0 => l.head = s[1] /\ l.tail = s[Len(s)]
    BY DEF ListOf, Holds
  <2> QED
    BY <2>1, <2>2, <2>3, <2>4
<1>3. Path(l.head, l.next) = Met(s) /\ Path(l.tail, l.prev) = Met(Backwards(s))
  BY PathsOfList DEF ListOf
<1>4. /\ Push(l, n, p) = LET cur == IF c.enable_prio THEN FirstLower(c, p) ELSE c.head
                         IN  IF c.head = Null THEN Only(c, n)
                             ELSE IF cur # Null THEN LinkedBefore(c, n, cur)
                             ELSE LinkedAfter(c, n, c.tail)
      /\ PushBack(l, n, p) = LET cur == IF c.enable_prio THEN LastNotLower(c, p) ELSE c.tail
                             IN  IF c.tail = Null THEN Only(c, n)
                                 ELSE IF cur # Null THEN LinkedAfter(c, n, cur)
                                 ELSE LinkedBefore(c, n, c.head)
  BY DEF Push, PushBack, Added, Rank
<1>5. /\ Len(s) = 0 => Only(c, n) = Spliced(l, s, 1, n, q)
      /\ k <= Len(s) => LinkedBefore(c, n, s[k]) = Spliced(l, s, k, n, q)
      /\ k > 1 => LinkedAfter(c, n, s[k - 1]) = Spliced(l, s, k, n, q)
  <2>1. Len(s) = 0 => Only(c, n) = Spliced(l, s, 1, n, q)
    BY OnlyIsSpliced
  <2>2. k <= Len(s) => LinkedBefore(c, n, s[k]) = Spliced(l, s, k, n, q)
    <3>1. k <= Len(s) => k \in 1 .. Len(s)
      BY <1>2
    <3> QED
      BY <3>1, BeforeIsSpliced
  <2>3. k > 1 => LinkedAfter(c, n, s[k - 1]) = Spliced(l, s, k, n, q)
    <3>1. k > 1 => k \in 2 .. Len(s) + 1
      BY <1>2
    <3> QED
      BY <3>1, AfterIsSpliced
  <2> QED
    BY <2>1, <2>2, <2>3
<1> HIDE DEF c
<1>6. ASSUME l.enable_prio, Splits(l.prio, s, k, p)
      PROVE  /\ FirstLower(c, p) = IF k <= Len(s) THEN s[k] ELSE Null
             /\ LastNotLower(c, p) = IF k > 1 THEN s[k - 1] ELSE Null
  <2>1. \A i \in 1 .. Len(s) : c.prio[s[i]] = l.prio[s[i]]
    BY <1>1, <1>2
  <2>2. c.prio \in [Node -> Int]
    BY <1>1, <1>2
  <2>3. Splits(c.prio, s, k, p)
    BY <1>6, <2>1 DEF Splits
  <2>4. Path(c.head, c.next) = Met(s) /\ Path(c.tail, c.prev) = Met(Backwards(s))
    BY <1>1, <1>3
  <2> QED
    BY <1>2, <2>2, <2>3, <2>4, LowerFound, NotLowerFound
<1> HIDE DEF q
<1>7. ASSUME Fore(l, s, k, p) PROVE Push(l, n, p) = Spliced(l, s, k, n, q)
  <2> DEFINE cur == IF c.enable_prio THEN FirstLower(c, p) ELSE c.head
  <2>1. CASE Len(s) = 0
    <3>1. k = 1
      BY <1>2, <2>1
    <3> QED
      BY <1>1, <1>2, <1>4, <1>5, <2>1, <3>1
  <2>2. CASE Len(s) # 0
    <3>1. cur = IF k <= Len(s) THEN s[k] ELSE Null
      <4>1. CASE l.enable_prio
        BY <1>1, <1>6, <1>7, <4>1 DEF Fore
      <4>2. CASE ~l.enable_prio
        BY <1>1, <1>2, <1>7, <2>2, <4>2 DEF Fore
      <4> QED
        BY <4>1, <4>2
    <3> HIDE DEF cur
    <3>2. c.head # Null
      BY <1>1, <1>2, <2>2
    <3>3. Push(l, n, p) = IF cur # Null THEN LinkedBefore(c, n, cur) ELSE LinkedAfter(c, n, c.tail)
      BY <1>4, <3>2 DEF cur
    <3>4. CASE k <= Len(s)
      BY <1>2, <1>5, <3>1, <3>3, <3>4
    <3>5. CASE ~(k <= Len(s))
      <4>1. k = Len(s) + 1 /\ k > 1 /\ c.tail = s[k - 1]
        BY <1>1, <1>2, <2>2, <3>5
      <4> QED
        BY <1>5, <3>1, <3>3, <3>5, <4>1
    <3> QED
      BY <3>4, <3>5
  <2> QED
    BY <2>1, <2>2
<1>8. ASSUME Rear(l, s, k, p) PROVE PushBack(l, n, p) = Spliced(l, s, k, n, q)
  <2> DEFINE cur == IF c.enable_prio THEN LastNotLower(c, p) ELSE c.tail
  <2>1. CASE Len(s) = 0
    <3>1. k = 1
      BY <1>2, <2>1
    <3> QED
      BY <1>1, <1>2, <1>4, <1>5, <2>1, <3>1
  <2>2. CASE Len(s) # 0
    <3>1. cur = IF k > 1 THEN s[k - 1] ELSE Null
      <4>1. CASE l.enable_prio
        BY <1>1, <1>6, <1>8, <4>1 DEF Rear
      <4>2. CASE ~l.enable_prio
        BY <1>1, <1>2, <1>8, <2>2, <4>2 DEF Rear
      <4> QED
        BY <4>1, <4>2
    <3> HIDE DEF cur
    <3>2. c.tail # Null
      BY <1>1, <1>2, <2>2
    <3>3. PushBack(l, n, p) = IF cur # Null THEN LinkedAfter(c, n, cur) ELSE LinkedBefore(c, n, c.head)
      BY <1>4, <3>2 DEF cur
    <3>4. CASE k > 1
      <4>1. k - 1 \in 1 .. Len(s)
        BY <1>2, <3>4
      <4> QED
        BY <1>2, <1>5, <3>1, <3>3, <3>4, <4>1
    <3>5. CASE ~(k > 1)
      <4>1. k = 1 /\ k <= Len(s) /\ c.head = s[k]
        BY <1>1, <1>2, <2>2, <3>5
      <4> QED
        BY <1>5, <3>1, <3>3, <3>5, <4>1
    <3> QED
      BY <3>4, <3>5
  <2> QED
    BY <2>1, <2>2
<1> QED
  BY <1>7, <1>8 DEF q

-----------------------------------------------------------------------------
(* s with n put in as its k-th.                                            *)
Inserted(s, k, n) ==
  [i \in 1 .. Len(s) + 1 |-> IF i < k THEN s[i] ELSE IF i = k THEN n ELSE s[i - 1]]

LEMMA InsertedOrder ==
  ASSUME NEW s \in Orders, NEW k \in 1 .. Len(s) + 1, NEW n \in Node, n \notin Elements(s)
  PROVE  /\ Inserted(s, k, n) \in Orders /\ Len(Inserted(s, k, n)) = Len(s) + 1
         /\ Elements(Inserted(s, k, n)) = Elements(s) \cup {n}
<1> DEFINE t == Inserted(s, k, n)
<1>1. Len(s) \in Nat /\ \A i \in 1 .. Len(s) : s[i] \in Node /\ s[i] # n /\ s[i] \in Elements(s)
  BY DEF Orders, Elements
<1>2. /\ t = [i \in 1 .. Len(s) + 1 |-> t[i]]
      /\ \A i \in 1 .. Len(s) + 1 : /\ i < k => i \in 1 .. Len(s) /\ t[i] = s[i]
                                    /\ i = k => t[i] = n
                                    /\ i > k => i - 1 \in 1 .. Len(s) /\ t[i] = s[i - 1]
  BY <1>1 DEF Inserted
<1> HIDE DEF t
<1>3. t \in [1 .. Len(s) + 1 -> Node]
  BY <1>1, <1>2
<1>4. t \in Seq(Node) /\ Len(t) = Len(s) + 1
  BY <1>1, <1>3
<1>5. ASSUME NEW i \in 1 .. Len(t), NEW j \in 1 .. Len(t), t[i] = t[j] PROVE i = j
  <2>1. \A a, b \in 1 .. Len(s) : s[a] = s[b] => a = b
    BY DEF Orders
  <2>2. i \in 1 .. Len(s) + 1 /\ j \in 1 .. Len(s) + 1 /\ i \in Nat /\ j \in Nat
    BY <1>1, <1>4
  <2>3. CASE i < k /\ j < k
    BY <1>2, <1>5, <2>1, <2>2, <2>3
  <2>4. CASE i > k /\ j > k
    BY <1>2, <1>5, <2>1, <2>2, <2>4
  <2>5. CASE i < k /\ j > k
    <3>1. s[i] = s[j - 1] /\ i \in 1 .. Len(s) /\ j - 1 \in 1 .. Len(s)
      BY <1>2, <1>5, <2>2, <2>5
    <3>2. i = j - 1
      BY <2>1, <3>1
    <3> QED
      BY <2>2, <2>5, <3>2
  <2>6. CASE i > k /\ j < k
    <3>1. s[j] = s[i - 1] /\ j \in 1 .. Len(s) /\ i - 1 \in 1 .. Len(s)
      BY <1>2, <1>5, <2>2, <2>6
    <3>2. j = i - 1
      BY <2>1, <3>1
    <3> QED
      BY <2>2, <2>6, <3>2
  <2>7. CASE i = k \/ j = k
    BY <1>1, <1>2, <1>5, <2>2, <2>7
  <2> QED
    BY <2>2, <2>3, <2>4, <2>5, <2>6, <2>7
<1>6. Elements(t) = Elements(s) \cup {n}
  <2>1. ASSUME NEW x \in Elements(t) PROVE x \in Elements(s) \cup {n}
    BY <1>1, <1>2, <1>4 DEF Elements
  <2>2. n \in Elements(t)
    BY <1>2, <1>4 DEF Elements
  <2>3. ASSUME NEW i \in 1 .. Len(s) PROVE s[i] \in Elements(t)
    <3>1. CASE i < k
      BY <1>1, <1>2, <1>4, <3>1 DEF Elements
    <3>2. CASE ~(i < k)
      <4>1. i + 1 \in 1 .. Len(s) + 1 /\ i + 1 > k /\ (i + 1) - 1 = i
        BY <1>1, <3>2
      <4>2. t[i + 1] = s[i]
        BY <1>2, <4>1
      <4> QED
        BY <1>4, <4>1, <4>2 DEF Elements
    <3> QED
      BY <3>1, <3>2
  <2> QED
    BY <2>1, <2>2, <2>3 DEF Elements
<1> QED
  BY <1>4, <1>5, <1>6 DEF t, Orders

LEMMA SplicedIsList ==
  ASSUME NEW l, NEW s, ListOf(l, s), NEW n \in Node, n \notin l.allocated,
         NEW q \in Int, NEW k \in 1 .. Len(s) + 1,
         l.enable_prio => Splits(l.prio, s, k, q)
  PROVE  ListOf(Spliced(l, s, k, n, q), Inserted(s, k, n))
<1> DEFINE r == Spliced(l, s, k, n, q)
           t == Inserted(s, k, n)
<1>1. /\ Len(s) \in Nat /\ s \in Orders /\ n \notin Elements(s)
      /\ \A i \in 1 .. Len(s) : s[i] \in Node /\ s[i] # n /\ s[i] \in Elements(s)
      /\ n # Null /\ n \in Node
  <2>1. Len(s) \in Nat /\ s \in Orders /\ \A i \in 1 .. Len(s) : s[i] \in Node
    BY DEF ListOf, Holds, Orders
  <2>2. n \notin Elements(s)
    BY DEF ListOf, Clear
  <2>3. \A i \in 1 .. Len(s) : s[i] \in Elements(s)
    BY DEF Elements
  <2> QED
    BY <2>1, <2>2, <2>3, NodeAssumption
<1>2. t \in Orders /\ Len(t) = Len(s) + 1 /\ Elements(t) = Elements(s) \cup {n}
  BY <1>1, InsertedOrder
<1>3. \A i \in 1 .. Len(s) + 1 : /\ i < k => i \in 1 .. Len(s) /\ t[i] = s[i]
                                 /\ i = k => t[i] = n
                                 /\ i > k => i - 1 \in 1 .. Len(s) /\ t[i] = s[i - 1]
  BY <1>1 DEF Inserted
<1> HIDE DEF t
<1>4. /\ r.enable_prio = l.enable_prio /\ r.size = l.size + 1
      /\ r.allocated = l.allocated \cup {n} /\ r.prio = [l.prio EXCEPT ![n] = q]
      /\ r.head = (IF k = 1 THEN n ELSE l.head)
      /\ r.tail = (IF k = Len(s) + 1 THEN n ELSE l.tail)
      /\ r = [f \in Shape |-> r[f]]
  BY DEF Spliced, Shape
<1>5. /\ r.prev = [m \in Node |-> IF m = n THEN IF k > 1 THEN s[k - 1] ELSE Null
                                ELSE IF k <= Len(s) /\ m = s[k] THEN n ELSE l.prev[m]]
      /\ r.next = [m \in Node |-> IF m = n THEN IF k <= Len(s) THEN s[k] ELSE Null
                                ELSE IF k > 1 /\ m = s[k - 1] THEN n ELSE l.next[m]]
  BY DEF Spliced
<1> HIDE DEF r
<1>6. /\ \A i \in 1 .. Len(s) : l.next[s[i]] = IF i < Len(s) THEN s[i + 1] ELSE Null
      /\ \A i \in 1 .. Len(s) : l.prev[s[i]] = IF i > 1 THEN s[i - 1] ELSE Null
      /\ \A i, j \in 1 .. Len(s) : s[i] = s[j] => i = j
      /\ l.prev \in Links /\ l.next \in Links
      /\ l.size = Len(s)
      /\ Len(s) # 0 => l.head = s[1] /\ l.tail = s[Len(s)]
  BY DEF ListOf, Holds, Orders
<1>7. r.prev \in Links /\ r.next \in Links
  <2>1. k > 1 => k - 1 \in 1 .. Len(s)
    BY <1>1
  <2>2. k <= Len(s) => k \in 1 .. Len(s)
    BY <1>1
  <2> QED
    BY <1>1, <1>5, <1>6, <2>1, <2>2 DEF Links
<1>8. ASSUME NEW i \in 1 .. Len(t)
      PROVE  r.next[t[i]] = IF i < Len(t) THEN t[i + 1] ELSE Null
  <2>1. i \in 1 .. Len(s) + 1 /\ i \in Nat /\ k \in Nat
    BY <1>1, <1>2
  <2>2. CASE i = k
    <3>1. r.next[n] = IF k <= Len(s) THEN s[k] ELSE Null
      BY <1>1, <1>5
    <3>2. i < Len(t) => i + 1 \in 1 .. Len(s) + 1 /\ i + 1 > k /\ (i + 1) - 1 = k
      BY <1>1, <1>2, <2>1, <2>2
    <3>3. i < Len(t) => t[i + 1] = s[k] /\ k <= Len(s)
      BY <1>1, <1>2, <1>3, <2>1, <2>2, <3>2
    <3>4. ~(i < Len(t)) => ~(k <= Len(s))
      BY <1>1, <1>2, <2>1, <2>2
    <3> QED
      BY <1>3, <2>1, <2>2, <3>1, <3>3, <3>4
  <2>3. CASE i < k
    <3>1. i \in 1 .. Len(s) /\ t[i] = s[i] /\ s[i] \in Node /\ s[i] # n /\ i < Len(t)
      BY <1>1, <1>2, <1>3, <2>1, <2>3
    <3>2. r.next[s[i]] = IF k > 1 /\ s[i] = s[k - 1] THEN n ELSE l.next[s[i]]
      BY <1>5, <3>1
    <3>3. k - 1 \in 1 .. Len(s) /\ k > 1
      BY <1>1, <2>1, <2>3
    <3>4. s[i] = s[k - 1] <=> i + 1 = k
      BY <1>6, <2>1, <3>1, <3>3
    <3>5. CASE i + 1 = k
      <4>1. t[i + 1] = n
        BY <1>3, <3>5
      <4> QED
        BY <3>1, <3>2, <3>3, <3>4, <3>5, <4>1
    <3>6. CASE i + 1 # k
      <4>1. i + 1 < k /\ i + 1 \in 1 .. Len(s) + 1
        BY <1>1, <2>1, <2>3, <3>6
      <4>2. t[i + 1] = s[i + 1] /\ i < Len(s)
        BY <1>1, <1>3, <2>1, <4>1
      <4>3. l.next[s[i]] = s[i + 1]
        BY <1>6, <3>1, <4>2
      <4> QED
        BY <3>1, <3>2, <3>4, <3>6, <4>2, <4>3
    <3> QED
      BY <3>5, <3>6
  <2>4. CASE i > k
    <3>1. i - 1 \in 1 .. Len(s) /\ t[i] = s[i - 1] /\ s[i - 1] \in Node /\ s[i - 1] # n
      BY <1>1, <1>3, <2>1, <2>4
    <3>2. r.next[s[i - 1]] = IF k > 1 /\ s[i - 1] = s[k - 1] THEN n ELSE l.next[s[i - 1]]
      BY <1>5, <3>1
    <3>3. k > 1 => k - 1 \in 1 .. Len(s)
      BY <1>1, <2>1
    <3>4. ~(k > 1 /\ s[i - 1] = s[k - 1])
      <4>1. i - 1 # k - 1
        BY <2>1, <2>4
      <4> QED
        BY <1>6, <3>1, <3>3, <4>1
    <3>5. l.next[s[i - 1]] = IF i - 1 < Len(s) THEN s[(i - 1) + 1] ELSE Null
      BY <1>6, <3>1
    <3>6. (i - 1) + 1 = i /\ (i - 1 < Len(s) <=> i < Len(t))
      BY <1>1, <1>2, <2>1
    <3>7. i < Len(t) => t[i + 1] = s[i]
      <4>1. i < Len(t) => i + 1 \in 1 .. Len(s) + 1 /\ i + 1 > k /\ (i + 1) - 1 = i
        BY <1>1, <1>2, <2>1, <2>4
      <4> QED
        BY <1>3, <4>1
    <3> QED
      BY <3>1, <3>2, <3>4, <3>5, <3>6, <3>7
  <2> QED
    BY <2>1, <2>2, <2>3, <2>4
<1>9. ASSUME NEW i \in 1 .. Len(t)
      PROVE  r.prev[t[i]] = IF i > 1 THEN t[i - 1] ELSE Null
  <2>1. i \in 1 .. Len(s) + 1 /\ i \in Nat /\ k \in Nat
    BY <1>1, <1>2
  <2>2. CASE i = k
    <3>1. r.prev[n] = IF k > 1 THEN s[k - 1] ELSE Null
      BY <1>1, <1>5
    <3>2. i > 1 => i - 1 \in 1 .. Len(s) + 1 /\ i - 1 < k
      BY <1>1, <2>1, <2>2
    <3>3. i > 1 => t[i - 1] = s[k - 1]
      BY <1>3, <2>2, <3>2
    <3> QED
      BY <1>3, <2>1, <2>2, <3>1, <3>3
  <2>3. CASE i < k
    <3>1. i \in 1 .. Len(s) /\ t[i] = s[i] /\ s[i] \in Node /\ s[i] # n
      BY <1>1, <1>3, <2>1, <2>3
    <3>2. r.prev[s[i]] = IF k <= Len(s) /\ s[i] = s[k] THEN n ELSE l.prev[s[i]]
      BY <1>5, <3>1
    <3>3. ~(k <= Len(s) /\ s[i] = s[k])
      <4>1. k <= Len(s) => k \in 1 .. Len(s)
        BY <1>1, <2>1
      <4>2. i # k
        BY <2>1, <2>3
      <4> QED
        BY <1>6, <3>1, <4>1, <4>2
    <3>4. l.prev[s[i]] = IF i > 1 THEN s[i - 1] ELSE Null
      BY <1>6, <3>1
    <3>5. i > 1 => t[i - 1] = s[i - 1]
      <4>1. i > 1 => i - 1 \in 1 .. Len(s) + 1 /\ i - 1 < k
        BY <1>1, <2>1, <2>3
      <4> QED
        BY <1>3, <4>1
    <3> QED
      BY <3>1, <3>2, <3>3, <3>4, <3>5
  <2>4. CASE i > k
    <3>1. i - 1 \in 1 .. Len(s) /\ t[i] = s[i - 1] /\ s[i - 1] \in Node /\ s[i - 1] # n /\ i > 1
      BY <1>1, <1>3, <2>1, <2>4
    <3>2. r.prev[s[i - 1]] = IF k <= Len(s) /\ s[i - 1] = s[k] THEN n ELSE l.prev[s[i - 1]]
      BY <1>5, <3>1
    <3>3. k \in 1 .. Len(s)
      BY <1>1, <2>1, <2>4
    <3>4. s[i - 1] = s[k] <=> i - 1 = k
      BY <1>6, <3>1, <3>3
    <3>5. CASE i - 1 = k
      <4>1. t[i - 1] = n
        BY <1>3, <2>1, <3>1, <3>5
      <4> QED
        BY <3>1, <3>2, <3>3, <3>4, <3>5, <4>1
    <3>6. CASE i - 1 # k
      <4>1. i - 1 > k /\ i - 1 \in 1 .. Len(s) + 1
        BY <1>1, <2>1, <2>4, <3>6
      <4>2. t[i - 1] = s[(i - 1) - 1] /\ i - 1 > 1
        <5>1. k >= 1
          BY <1>1
        <5>2. t[i - 1] = s[(i - 1) - 1]
          BY <1>3, <4>1
        <5> QED
          BY <2>1, <4>1, <5>1, <5>2
      <4>3. l.prev[s[i - 1]] = s[(i - 1) - 1]
        BY <1>6, <3>1, <4>2
      <4> QED
        BY <3>1, <3>2, <3>4, <3>6, <4>2, <4>3
    <3> QED
      BY <3>5, <3>6
  <2> QED
    BY <2>1, <2>2, <2>3, <2>4
<1>10. r.head = t[1] /\ r.tail = t[Len(t)] /\ Len(t) # 0 /\ r.size = Len(t)
  <2>1. r.head = t[1]
    <3>1. CASE k = 1
      BY <1>1, <1>3, <1>4, <3>1
    <3>2. CASE k # 1
      <4>1. 1 \in 1 .. Len(s) + 1 /\ 1 < k /\ Len(s) # 0
        BY <1>1, <3>2
      <4> QED
        BY <1>3, <1>4, <1>6, <3>2, <4>1
    <3> QED
      BY <3>1, <3>2
  <2>2. r.tail = t[Len(t)]
    <3>1. CASE k = Len(s) + 1
      BY <1>1, <1>2, <1>3, <1>4, <3>1
    <3>2. CASE k # Len(s) + 1
      <4>1. Len(s) + 1 \in 1 .. Len(s) + 1 /\ Len(s) + 1 > k /\ Len(s) # 0
            /\ (Len(s) + 1) - 1 = Len(s)
        BY <1>1, <3>2
      <4>2. t[Len(s) + 1] = s[Len(s)]
        BY <1>3, <4>1
      <4> QED
        BY <1>2, <1>4, <1>6, <3>2, <4>1, <4>2
    <3> QED
      BY <3>1, <3>2
  <2> QED
    BY <1>1, <1>2, <1>4, <1>6, <2>1, <2>2
<1>11. Holds(r, t)
  BY <1>2, <1>4, <1>7, <1>8, <1>9, <1>10 DEF Holds
<1>12. Sorted(r, t)
  <2>1. l.prio \in [Node -> Int] /\ l.enable_prio \in BOOLEAN
    BY DEF ListOf, Sorted
  <2>2. r.prio \in [Node -> Int] /\ r.prio[n] = q
    BY <1>1, <1>4, <2>1
  <2>3. ASSUME l.enable_prio, NEW i \in 1 .. Len(t), NEW j \in 1 .. Len(t), i < j
        PROVE  r.prio[t[i]] >= r.prio[t[j]]
    <3>1. /\ i \in 1 .. Len(s) + 1 /\ j \in 1 .. Len(s) + 1 /\ i \in Nat /\ j \in Nat /\ k \in Nat
      BY <1>1, <1>2
    <3>2. \A a \in 1 .. Len(s) : r.prio[s[a]] = l.prio[s[a]] /\ l.prio[s[a]] \in Int
      BY <1>1, <1>4, <2>1
    <3>3. \A a, b \in 1 .. Len(s) : a < b => l.prio[s[a]] >= l.prio[s[b]]
      BY <2>3 DEF ListOf, Sorted
    <3>4. \A a \in 1 .. Len(s) : IF a < k THEN l.prio[s[a]] >= q ELSE l.prio[s[a]] < q
      BY <2>3 DEF Splits
    <3>5. CASE j < k
      <4>1. t[i] = s[i] /\ t[j] = s[j] /\ i \in 1 .. Len(s) /\ j \in 1 .. Len(s)
        BY <1>3, <2>3, <3>1, <3>5
      <4> QED
        BY <2>3, <3>2, <3>3, <4>1
    <3>6. CASE j = k
      <4>1. t[i] = s[i] /\ t[j] = n /\ i \in 1 .. Len(s) /\ i < k
        BY <1>3, <2>3, <3>1, <3>6
      <4> QED
        BY <2>2, <3>2, <3>4, <4>1
    <3>7. CASE j > k /\ i < k
      <4>1. t[i] = s[i] /\ t[j] = s[j - 1] /\ i \in 1 .. Len(s) /\ j - 1 \in 1 .. Len(s) /\ i < j - 1
        BY <1>3, <2>3, <3>1, <3>7
      <4> QED
        BY <3>2, <3>3, <4>1
    <3>8. CASE j > k /\ i = k
      <4>1. t[i] = n /\ t[j] = s[j - 1] /\ j - 1 \in 1 .. Len(s) /\ ~(j - 1 < k)
        BY <1>3, <3>1, <3>8
      <4>2. l.prio[s[j - 1]] < q
        BY <3>4, <4>1
      <4> QED
        BY <2>2, <3>2, <4>1, <4>2
    <3>9. CASE i > k
      <4>1. t[i] = s[i - 1] /\ t[j] = s[j - 1] /\ i - 1 \in 1 .. Len(s) /\ j - 1 \in 1 .. Len(s)
            /\ i - 1 < j - 1
        BY <1>3, <2>3, <3>1, <3>9
      <4> QED
        BY <3>2, <3>3, <4>1
    <3> QED
      BY <2>3, <3>1, <3>5, <3>6, <3>7, <3>8, <3>9
  <2> QED
    BY <1>4, <2>1, <2>2, <2>3 DEF Sorted
<1>13. Clear(r, t)
  <2>1. r.allocated = Elements(t)
    BY <1>2, <1>4 DEF ListOf, Clear
  <2>2. ASSUME NEW m \in Node \ Elements(t)
        PROVE  r.prio[m] = 0 /\ r.prev[m] = Null /\ r.next[m] = Null
    <3>1. m \in Node \ Elements(s) /\ m # n
      BY <1>2
    <3>2. l.prio[m] = 0 /\ l.prev[m] = Null /\ l.next[m] = Null
      BY <3>1 DEF ListOf, Clear
    <3>3. r.prio[m] = 0
      <4>1. l.prio \in [Node -> Int]
        BY DEF ListOf, Sorted
      <4> QED
        BY <1>4, <3>1, <3>2, <4>1
    <3>4. (k > 1 => m # s[k - 1]) /\ (k <= Len(s) => m # s[k])
      <4>1. (k > 1 => k - 1 \in 1 .. Len(s)) /\ (k <= Len(s) => k \in 1 .. Len(s))
        BY <1>1
      <4> QED
        BY <1>1, <3>1, <4>1
    <3> QED
      BY <1>5, <3>1, <3>2, <3>3, <3>4
  <2> QED
    BY <2>1, <2>2 DEF Clear
<1> QED
  BY <1>11, <1>12, <1>13 DEF ListOf, r, t

-----------------------------------------------------------------------------
(* The list without its i-th node, which is the first or the last.         *)
Cut(l, s, i) ==
  [enable_prio |-> l.enable_prio,
   head |-> IF i > 1 THEN l.head ELSE IF Len(s) > 1 THEN s[2] ELSE Null,
   tail |-> IF i < Len(s) THEN l.tail ELSE IF Len(s) > 1 THEN s[i - 1] ELSE Null,
   size |-> l.size - 1,
   allocated |-> l.allocated \ {s[i]},
   prio |-> [l.prio EXCEPT ![s[i]] = 0],
   prev |-> [m \in Node |-> IF m = s[i] \/ (i = 1 /\ Len(s) > 1 /\ m = s[2])
                            THEN Null ELSE l.prev[m]],
   next |-> [m \in Node |-> IF m = s[i] \/ (i = Len(s) /\ Len(s) > 1 /\ m = s[i - 1])
                            THEN Null ELSE l.next[m]]]

IsCut(r, l, s, i) ==
  /\ r = [f \in Shape |-> r[f]]
  /\ r.enable_prio = l.enable_prio /\ r.size = l.size - 1
  /\ r.allocated = l.allocated \ {s[i]} /\ r.prio = [l.prio EXCEPT ![s[i]] = 0]
  /\ r.head = Cut(l, s, i).head /\ r.tail = Cut(l, s, i).tail
  /\ r.prev = Cut(l, s, i).prev /\ r.next = Cut(l, s, i).next

LEMMA CutFields ==
  ASSUME NEW l, NEW s, NEW i, NEW r, IsCut(r, l, s, i)
  PROVE  r = Cut(l, s, i)
<1> DEFINE t == Cut(l, s, i)
<1>1. t = [f \in Shape |-> t[f]] /\ t.enable_prio = l.enable_prio /\ t.size = l.size - 1
      /\ t.allocated = l.allocated \ {s[i]} /\ t.prio = [l.prio EXCEPT ![s[i]] = 0]
  BY DEF Cut, Shape
<1> HIDE DEF t
<1>2. \A f \in Shape : r[f] = t[f]
  BY <1>1 DEF Shape, t, IsCut
<1>3. r = [f \in Shape |-> r[f]]
  BY DEF IsCut
<1> QED
  BY <1>1, <1>2, <1>3 DEF t

LEMMA FreedFields ==
  ASSUME NEW l, NEW n, l = [f \in Shape |-> l[f]]
  PROVE  LET r == Freed(l, n)
         IN  /\ r = [f \in Shape |-> r[f]]
             /\ r.enable_prio = l.enable_prio /\ r.head = l.head /\ r.tail = l.tail
             /\ r.size = l.size - 1 /\ r.allocated = l.allocated \ {n}
             /\ r.prio = [l.prio EXCEPT ![n] = 0]
             /\ r.prev = [l.prev EXCEPT ![n] = Null] /\ r.next = [l.next EXCEPT ![n] = Null]
BY DEF Freed, Shape

(* The ends of a list that is not empty, as its links say.                 *)
LEMMA EndsOfList ==
  ASSUME NEW l, NEW s, ListOf(l, s), Len(s) # 0
  PROVE  /\ Len(s) \in Nat /\ 1 \in 1 .. Len(s) /\ Len(s) \in 1 .. Len(s) /\ l.size = Len(s)
         /\ l = [f \in Shape |-> l[f]] /\ l.prev \in Links /\ l.next \in Links
         /\ l.head = s[1] /\ l.tail = s[Len(s)]
         /\ \A i \in 1 .. Len(s) : s[i] \in Node /\ s[i] # Null
         /\ \A i, j \in 1 .. Len(s) : s[i] = s[j] => i = j
         /\ l.prev[s[1]] = Null /\ l.next[s[Len(s)]] = Null
         /\ Len(s) > 1 => /\ 2 \in 1 .. Len(s) /\ Len(s) - 1 \in 1 .. Len(s)
                          /\ l.next[s[1]] = s[2] /\ l.prev[s[Len(s)]] = s[Len(s) - 1]
                          /\ s[1] # s[2] /\ s[Len(s)] # s[Len(s) - 1] /\ s[1] # s[Len(s)]
<1>1. Len(s) \in Nat /\ \A i \in 1 .. Len(s) : s[i] \in Node /\ s[i] # Null
  BY NodeAssumption DEF ListOf, Holds, Orders
<1>2. \A i, j \in 1 .. Len(s) : s[i] = s[j] => i = j
  BY DEF ListOf, Holds, Orders
<1>3. 1 \in 1 .. Len(s) /\ Len(s) \in 1 .. Len(s)
  BY <1>1
<1>4. Len(s) > 1 => 2 \in 1 .. Len(s) /\ Len(s) - 1 \in 1 .. Len(s)
  BY <1>1
<1>5. Len(s) > 1 => s[1] # s[2] /\ s[Len(s)] # s[Len(s) - 1] /\ s[1] # s[Len(s)]
  BY <1>1, <1>2, <1>3, <1>4
<1>6. \A i \in 1 .. Len(s) : /\ l.next[s[i]] = IF i < Len(s) THEN s[i + 1] ELSE Null
                             /\ l.prev[s[i]] = IF i > 1 THEN s[i - 1] ELSE Null
  BY DEF ListOf, Holds
<1>7. l.prev[s[1]] = Null /\ l.next[s[Len(s)]] = Null
  BY <1>1, <1>3, <1>6
<1>8. Len(s) > 1 => l.next[s[1]] = s[2] /\ l.prev[s[Len(s)]] = s[Len(s) - 1]
  BY <1>1, <1>3, <1>6
<1>9. /\ l.size = Len(s) /\ l = [f \in Shape |-> l[f]] /\ l.prev \in Links /\ l.next \in Links
      /\ l.head = s[1] /\ l.tail = s[Len(s)]
  BY DEF ListOf, Holds
<1> QED
  BY <1>1, <1>2, <1>3, <1>4, <1>5, <1>7, <1>8, <1>9

LEMMA EraseIsCut ==
  ASSUME NEW l, NEW s, ListOf(l, s), NEW i \in {1, Len(s)}, i \in 1 .. Len(s)
  PROVE  Erase(l, s[i]) = Cut(l, s, i)
<1> DEFINE n == s[i]
           h == HeadLeft(l, n)
           e == TailLeft(h, n)
           r == Freed(e, n)
<1>1. /\ Len(s) \in Nat /\ 1 \in 1 .. Len(s) /\ Len(s) \in 1 .. Len(s) /\ l.size = Len(s)
      /\ l = [f \in Shape |-> l[f]] /\ l.prev \in Links /\ l.next \in Links
      /\ l.head = s[1] /\ l.tail = s[Len(s)]
      /\ \A j \in 1 .. Len(s) : s[j] \in Node /\ s[j] # Null
      /\ l.prev[s[1]] = Null /\ l.next[s[Len(s)]] = Null
      /\ Len(s) > 1 => /\ 2 \in 1 .. Len(s) /\ Len(s) - 1 \in 1 .. Len(s)
                       /\ l.next[s[1]] = s[2] /\ l.prev[s[Len(s)]] = s[Len(s) - 1]
                       /\ s[1] # s[2] /\ s[Len(s)] # s[Len(s) - 1] /\ s[1] # s[Len(s)]
  <2>1. Len(s) # 0
    BY DEF ListOf, Holds, Orders
  <2> QED
    BY <2>1, EndsOfList
<1>2. Erase(l, s[i]) = r
  BY DEF Erase
<1>3. n \in Node /\ n # Null
  BY <1>1
<1> HIDE DEF r
<1>4. /\ h = [f \in Shape |-> h[f]]
      /\ h.enable_prio = l.enable_prio /\ h.tail = l.tail /\ h.size = l.size
      /\ h.allocated = l.allocated /\ h.prio = l.prio /\ h.next = l.next
      /\ h.head = (IF n = l.head THEN l.next[n] ELSE l.head)
      /\ h.prev = (IF n = l.head THEN SetLink(l.prev, l.next[n], Null) ELSE l.prev)
  BY <1>1 DEF HeadLeft, Shape
<1> HIDE DEF h
<1>5. /\ e = [f \in Shape |-> e[f]]
      /\ e.enable_prio = h.enable_prio /\ e.head = h.head /\ e.size = h.size
      /\ e.allocated = h.allocated /\ e.prio = h.prio /\ e.prev = h.prev
      /\ e.tail = (IF n = h.tail THEN h.prev[n] ELSE h.tail)
      /\ e.next = (IF n = h.tail THEN SetLink(h.next, h.prev[n], Null) ELSE h.next)
  BY <1>4 DEF TailLeft, Shape
<1> HIDE DEF e
<1>6. /\ r = [f \in Shape |-> r[f]]
      /\ r.enable_prio = e.enable_prio /\ r.head = e.head /\ r.tail = e.tail
      /\ r.size = e.size - 1 /\ r.allocated = e.allocated \ {n}
      /\ r.prio = [e.prio EXCEPT ![n] = 0]
      /\ r.prev = [e.prev EXCEPT ![n] = Null] /\ r.next = [e.next EXCEPT ![n] = Null]
  BY <1>5, FreedFields DEF r
<1>7. h.prev[n] = l.prev[n] /\ h.prev \in Links
  <2>1. CASE n = l.head /\ Len(s) > 1
    BY <1>1, <1>3, <1>4, <2>1 DEF SetLink, Links
  <2>2. CASE ~(n = l.head /\ Len(s) > 1)
    <3>1. n = l.head => l.next[n] = Null
      BY <1>1, <2>2
    <3> QED
      BY <1>1, <1>4, <3>1 DEF SetLink
  <2> QED
    BY <2>1, <2>2
<1>11. /\ r.enable_prio = l.enable_prio /\ r.size = l.size - 1
       /\ r.allocated = l.allocated \ {s[i]} /\ r.prio = [l.prio EXCEPT ![s[i]] = 0]
       /\ r = [f \in Shape |-> r[f]]
  BY <1>4, <1>5, <1>6
<1>12. /\ e.head = (IF n = l.head THEN l.next[n] ELSE l.head)
       /\ e.prev = (IF n = l.head THEN SetLink(l.prev, l.next[n], Null) ELSE l.prev)
       /\ e.tail = (IF n = l.tail THEN l.prev[n] ELSE l.tail)
       /\ e.next = (IF n = l.tail THEN SetLink(l.next, l.prev[n], Null) ELSE l.next)
  BY <1>4, <1>5, <1>7
<1>8. CASE Len(s) = 1
  <2>1. n = s[1] /\ n = l.head /\ n = l.tail /\ l.next[n] = Null /\ l.prev[n] = Null /\ i = 1
    BY <1>1, <1>4, <1>8
  <2>2. r.head = Null /\ r.tail = Null
    BY <1>6, <1>12, <2>1
  <2>3. r.prev = [l.prev EXCEPT ![n] = Null] /\ r.next = [l.next EXCEPT ![n] = Null]
    BY <1>6, <1>12, <2>1 DEF SetLink
  <2>4. r.prev = Cut(l, s, i).prev /\ r.next = Cut(l, s, i).next
    BY <1>1, <1>8, <2>3 DEF Cut, Links
  <2>5. r.head = Cut(l, s, i).head /\ r.tail = Cut(l, s, i).tail
    BY <1>8, <2>1, <2>2 DEF Cut
  <2>9. IsCut(r, l, s, i)
    BY <1>11, <2>4, <2>5 DEF IsCut
  <2> QED
    BY <1>2, <2>9, CutFields
<1>9. CASE Len(s) > 1 /\ i = 1
  <2>1. n = s[1] /\ n = l.head /\ n # l.tail /\ l.next[n] = s[2] /\ s[2] # Null /\ s[2] \in Node
    BY <1>1, <1>4, <1>9
  <2>2. r.head = s[2] /\ r.tail = l.tail
    BY <1>6, <1>12, <2>1
  <2>3. r.prev = [[l.prev EXCEPT ![s[2]] = Null] EXCEPT ![n] = Null]
        /\ r.next = [l.next EXCEPT ![n] = Null]
    BY <1>6, <1>12, <2>1 DEF SetLink
  <2>4. r.prev = Cut(l, s, i).prev
    BY <1>1, <1>9, <2>1, <2>3 DEF Cut, Links
  <2>5. r.next = Cut(l, s, i).next
    BY <1>1, <1>9, <2>1, <2>3 DEF Cut, Links
  <2>6. r.head = Cut(l, s, i).head /\ r.tail = Cut(l, s, i).tail
    BY <1>1, <1>9, <2>2 DEF Cut
  <2>9. IsCut(r, l, s, i)
    BY <1>11, <2>4, <2>5, <2>6 DEF IsCut
  <2> QED
    BY <1>2, <2>9, CutFields
<1>10. CASE Len(s) > 1 /\ i # 1
  <2>1. /\ i = Len(s) /\ n = s[Len(s)] /\ n # l.head /\ n = l.tail
        /\ l.prev[n] = s[Len(s) - 1] /\ s[Len(s) - 1] # Null /\ s[Len(s) - 1] \in Node
    BY <1>1, <1>4, <1>10
  <2>2. r.head = l.head /\ r.tail = s[Len(s) - 1]
    BY <1>6, <1>12, <2>1
  <2>3. r.next = [[l.next EXCEPT ![s[Len(s) - 1]] = Null] EXCEPT ![n] = Null]
        /\ r.prev = [l.prev EXCEPT ![n] = Null]
    BY <1>6, <1>12, <2>1 DEF SetLink
  <2>4. r.prev = Cut(l, s, i).prev
    BY <1>1, <1>10, <2>1, <2>3 DEF Cut, Links
  <2>5. r.next = Cut(l, s, i).next
    BY <1>1, <1>10, <2>1, <2>3 DEF Cut, Links
  <2>6. r.head = Cut(l, s, i).head /\ r.tail = Cut(l, s, i).tail
    BY <1>1, <1>10, <2>1, <2>2 DEF Cut
  <2>9. IsCut(r, l, s, i)
    BY <1>11, <2>4, <2>5, <2>6 DEF IsCut
  <2> QED
    BY <1>2, <2>9, CutFields
<1> QED
  <2>1. Len(s) \in Nat /\ Len(s) # 0
    BY <1>1
  <2>3. \A z \in Nat : z # 0 => z = 1 \/ z > 1
    OBVIOUS
  <2>2. Len(s) = 1 \/ Len(s) > 1
    BY <2>1, <2>3, Zenon
  <2> QED
    BY <1>8, <1>9, <1>10, <2>2

LEMMA PopsAreCuts ==
  ASSUME NEW l, NEW s, ListOf(l, s), Len(s) # 0
  PROVE  /\ Pop(l) = Cut(l, s, 1)
         /\ Len(s) > 1 => PopBack(l) = Cut(l, s, Len(s))
<1>1. /\ Len(s) \in Nat /\ 1 \in 1 .. Len(s) /\ Len(s) \in 1 .. Len(s) /\ l.size = Len(s)
      /\ l = [f \in Shape |-> l[f]] /\ l.prev \in Links /\ l.next \in Links
      /\ l.head = s[1] /\ l.tail = s[Len(s)]
      /\ \A j \in 1 .. Len(s) : s[j] \in Node /\ s[j] # Null
      /\ l.prev[s[1]] = Null /\ l.next[s[Len(s)]] = Null
      /\ Len(s) > 1 => /\ 2 \in 1 .. Len(s) /\ Len(s) - 1 \in 1 .. Len(s)
                       /\ l.next[s[1]] = s[2] /\ l.prev[s[Len(s)]] = s[Len(s) - 1]
                       /\ s[1] # s[2] /\ s[Len(s)] # s[Len(s) - 1] /\ s[1] # s[Len(s)]
  BY EndsOfList
<1> DEFINE f1 == Freed(l, s[1])
           f2 == Freed(l, s[Len(s)])
<1>2. /\ f1 = [f \in Shape |-> f1[f]]
      /\ f1.enable_prio = l.enable_prio /\ f1.head = l.head /\ f1.tail = l.tail
      /\ f1.size = l.size - 1 /\ f1.allocated = l.allocated \ {s[1]}
      /\ f1.prio = [l.prio EXCEPT ![s[1]] = 0]
      /\ f1.prev = [l.prev EXCEPT ![s[1]] = Null] /\ f1.next = [l.next EXCEPT ![s[1]] = Null]
  BY <1>1, FreedFields
<1>3. /\ f2 = [f \in Shape |-> f2[f]]
      /\ f2.enable_prio = l.enable_prio /\ f2.head = l.head /\ f2.tail = l.tail
      /\ f2.size = l.size - 1 /\ f2.allocated = l.allocated \ {s[Len(s)]}
      /\ f2.prio = [l.prio EXCEPT ![s[Len(s)]] = 0]
      /\ f2.prev = [l.prev EXCEPT ![s[Len(s)]] = Null]
      /\ f2.next = [l.next EXCEPT ![s[Len(s)]] = Null]
  BY <1>1, FreedFields
<1>4. CASE Len(s) = 1
  <2> DEFINE r == [f1 EXCEPT !.head = Null, !.tail = Null]
  <2>1. Pop(l) = r
    BY <1>1, <1>4 DEF Pop
  <2> HIDE DEF f1
  <2>2. /\ r = [f \in Shape |-> r[f]]
        /\ r.enable_prio = f1.enable_prio /\ r.head = Null /\ r.tail = Null
        /\ r.size = f1.size /\ r.allocated = f1.allocated
        /\ r.prio = f1.prio /\ r.prev = f1.prev /\ r.next = f1.next
    BY <1>2 DEF Shape
  <2> HIDE DEF r
  <2>3. r.prev = Cut(l, s, 1).prev /\ r.next = Cut(l, s, 1).next
    BY <1>1, <1>2, <1>4, <2>2 DEF Cut, Links
  <2>4. r.head = Cut(l, s, 1).head /\ r.tail = Cut(l, s, 1).tail
    BY <1>4, <2>2 DEF Cut
  <2>5. IsCut(r, l, s, 1)
    BY <1>2, <2>2, <2>3, <2>4 DEF IsCut
  <2> QED
    BY <1>4, <2>1, <2>5, CutFields
<1>5. CASE Len(s) > 1
  <2>1. Pop(l) = Cut(l, s, 1)
    <3> DEFINE r == [f1 EXCEPT !.head = s[2], !.prev[s[2]] = Null]
    <3>1. Pop(l) = r
      BY <1>1, <1>5 DEF Pop
    <3> HIDE DEF f1
    <3>2. /\ r = [f \in Shape |-> r[f]]
          /\ r.enable_prio = f1.enable_prio /\ r.head = s[2] /\ r.tail = f1.tail
          /\ r.size = f1.size /\ r.allocated = f1.allocated
          /\ r.prio = f1.prio /\ r.next = f1.next
          /\ r.prev = [f1.prev EXCEPT ![s[2]] = Null]
      BY <1>2 DEF Shape
    <3> HIDE DEF r
    <3>3. r.prev = Cut(l, s, 1).prev
      BY <1>1, <1>2, <1>5, <3>2 DEF Cut, Links
    <3>4. r.next = Cut(l, s, 1).next
      BY <1>1, <1>2, <1>5, <3>2 DEF Cut, Links
    <3>5. r.head = Cut(l, s, 1).head /\ r.tail = Cut(l, s, 1).tail
      BY <1>1, <1>2, <1>5, <3>2 DEF Cut
    <3>6. IsCut(r, l, s, 1)
      BY <1>2, <3>2, <3>3, <3>4, <3>5 DEF IsCut
    <3> QED
      BY <3>1, <3>6, CutFields
  <2>2. PopBack(l) = Cut(l, s, Len(s))
    <3> DEFINE e == s[Len(s) - 1]
               r == [f2 EXCEPT !.tail = e, !.next[e] = Null]
    <3>1. PopBack(l) = r
      BY <1>1, <1>5 DEF PopBack
    <3>2. e \in Node /\ e # s[Len(s)]
      BY <1>1, <1>5
    <3> HIDE DEF f2, e
    <3>3. /\ r = [f \in Shape |-> r[f]]
          /\ r.enable_prio = f2.enable_prio /\ r.head = f2.head /\ r.tail = e
          /\ r.size = f2.size /\ r.allocated = f2.allocated
          /\ r.prio = f2.prio /\ r.prev = f2.prev
          /\ r.next = [f2.next EXCEPT ![e] = Null]
      BY <1>3 DEF Shape
    <3> HIDE DEF r
    <3>4. r.prev = Cut(l, s, Len(s)).prev
      BY <1>1, <1>3, <1>5, <3>3 DEF Cut, Links
    <3>5. r.next = Cut(l, s, Len(s)).next
      <4>1. Cut(l, s, Len(s)).next =
              [m \in Node |-> IF m = s[Len(s)] \/ m = e THEN Null ELSE l.next[m]]
        BY <1>5 DEF Cut, e
      <4>2. r.next = [[l.next EXCEPT ![s[Len(s)]] = Null] EXCEPT ![e] = Null]
        BY <1>3, <3>3
      <4> QED
        BY <1>1, <3>2, <4>1, <4>2 DEF Links
    <3>6. r.head = Cut(l, s, Len(s)).head /\ r.tail = Cut(l, s, Len(s)).tail
      BY <1>1, <1>3, <1>5, <3>3 DEF Cut, e
    <3>7. IsCut(r, l, s, Len(s))
      BY <1>3, <3>3, <3>4, <3>5, <3>6 DEF IsCut
    <3> QED
      BY <3>1, <3>7, CutFields
  <2> QED
    BY <2>1, <2>2
<1>6. Len(s) = 1 \/ Len(s) > 1
  <2>1. \A z \in Nat : z # 0 => z = 1 \/ z > 1
    OBVIOUS
  <2> QED
    BY <1>1, <2>1, Zenon
<1> QED
  BY <1>4, <1>5, <1>6

(* s without its i-th.                                                     *)
Without(s, i) == [j \in 1 .. Len(s) - 1 |-> IF j < i THEN s[j] ELSE s[j + 1]]

LEMMA WithoutOrder ==
  ASSUME NEW s \in Orders, NEW i \in 1 .. Len(s)
  PROVE  /\ Without(s, i) \in Orders /\ Len(Without(s, i)) = Len(s) - 1
         /\ Elements(Without(s, i)) = Elements(s) \ {s[i]}
<1> DEFINE t == Without(s, i)
<1>1. /\ Len(s) \in Nat /\ \A j \in 1 .. Len(s) : s[j] \in Node
      /\ \A j, k \in 1 .. Len(s) : s[j] = s[k] => j = k
  BY DEF Orders
<1>2. /\ t = [j \in 1 .. Len(s) - 1 |-> t[j]]
      /\ \A j \in 1 .. Len(s) - 1 : /\ j < i => t[j] = s[j]
                                    /\ ~(j < i) => t[j] = s[j + 1]
  BY <1>1 DEF Without
<1> HIDE DEF t
<1>3. \A j \in 1 .. Len(s) - 1 : j \in 1 .. Len(s) /\ j + 1 \in 1 .. Len(s) /\ j \in Nat
  BY <1>1
<1>4. t \in [1 .. Len(s) - 1 -> Node]
  BY <1>1, <1>2, <1>3
<1>5. t \in Seq(Node) /\ Len(t) = Len(s) - 1
  <2>1. Len(s) - 1 \in Nat
    BY <1>1
  <2> QED
    BY <1>4, <2>1
<1>6. ASSUME NEW j \in 1 .. Len(t), NEW k \in 1 .. Len(t), t[j] = t[k] PROVE j = k
  <2>1. j \in 1 .. Len(s) - 1 /\ k \in 1 .. Len(s) - 1
    BY <1>5
  <2>2. CASE j < i /\ k < i
    BY <1>1, <1>2, <1>3, <1>6, <2>1, <2>2
  <2>3. CASE j < i /\ ~(k < i)
    <3>1. s[j] = s[k + 1]
      BY <1>2, <1>6, <2>1, <2>3
    <3>2. j = k + 1
      BY <1>1, <1>3, <2>1, <3>1
    <3> QED
      BY <1>1, <1>3, <2>1, <2>3, <3>2
  <2>4. CASE ~(j < i) /\ k < i
    <3>1. s[j + 1] = s[k]
      BY <1>2, <1>6, <2>1, <2>4
    <3>2. j + 1 = k
      BY <1>1, <1>3, <2>1, <3>1
    <3> QED
      BY <1>1, <1>3, <2>1, <2>4, <3>2
  <2>5. CASE ~(j < i) /\ ~(k < i)
    <3>1. s[j + 1] = s[k + 1]
      BY <1>2, <1>6, <2>1, <2>5
    <3>2. j + 1 = k + 1
      BY <1>1, <1>3, <2>1, <3>1
    <3> QED
      BY <1>3, <2>1, <3>2
  <2> QED
    BY <2>2, <2>3, <2>4, <2>5
<1>7. Elements(t) = Elements(s) \ {s[i]}
  <2>1. ASSUME NEW j \in 1 .. Len(s) - 1 PROVE t[j] \in Elements(s) \ {s[i]}
    <3>1. CASE j < i
      <4>1. s[j] # s[i]
        BY <1>1, <1>3, <3>1
      <4> QED
        BY <1>2, <1>3, <3>1, <4>1 DEF Elements
    <3>2. CASE ~(j < i)
      <4>1. s[j + 1] # s[i]
        BY <1>1, <1>3, <3>2
      <4> QED
        BY <1>2, <1>3, <3>2, <4>1 DEF Elements
    <3> QED
      BY <3>1, <3>2
  <2>2. ASSUME NEW j \in 1 .. Len(s), j # i PROVE s[j] \in Elements(t)
    <3>1. CASE j < i
      <4>1. j \in 1 .. Len(s) - 1
        BY <1>1, <3>1
      <4> QED
        BY <1>2, <1>5, <3>1, <4>1 DEF Elements
    <3>2. CASE ~(j < i)
      <4>1. j - 1 \in 1 .. Len(s) - 1 /\ ~(j - 1 < i) /\ (j - 1) + 1 = j
        BY <1>1, <2>2, <3>2
      <4>2. t[j - 1] = s[j]
        BY <1>2, <4>1
      <4> QED
        BY <1>5, <4>1, <4>2 DEF Elements
    <3> QED
      BY <3>1, <3>2
  <2>3. Elements(t) \subseteq Elements(s) \ {s[i]}
    BY <1>5, <2>1 DEF Elements
  <2>4. Elements(s) \ {s[i]} \subseteq Elements(t)
    BY <2>2 DEF Elements
  <2> QED
    BY <2>3, <2>4
<1> QED
  BY <1>5, <1>6, <1>7 DEF t, Orders

LEMMA CutIsList ==
  ASSUME NEW l, NEW s, ListOf(l, s), NEW i \in {1, Len(s)}, i \in 1 .. Len(s)
  PROVE  ListOf(Cut(l, s, i), Without(s, i))
<1> DEFINE r == Cut(l, s, i)
           t == Without(s, i)
<1>1. /\ Len(s) \in Nat /\ s \in Orders /\ Len(s) # 0
      /\ \A j \in 1 .. Len(s) : s[j] \in Node
      /\ \A j, k \in 1 .. Len(s) : s[j] = s[k] => j = k
  BY DEF ListOf, Holds, Orders
<1>2. t \in Orders /\ Len(t) = Len(s) - 1 /\ Elements(t) = Elements(s) \ {s[i]}
  BY <1>1, WithoutOrder
<1>3. /\ \A j \in 1 .. Len(s) - 1 : /\ j < i => t[j] = s[j]
                                    /\ ~(j < i) => t[j] = s[j + 1]
  BY <1>1 DEF Without
<1>4. /\ l.size = Len(s) /\ l.head = s[1] /\ l.tail = s[Len(s)]
      /\ l.prev \in Links /\ l.next \in Links
  BY <1>1 DEF ListOf, Holds
<1>5. /\ \A j \in 1 .. Len(s) : l.next[s[j]] = IF j < Len(s) THEN s[j + 1] ELSE Null
      /\ \A j \in 1 .. Len(s) : l.prev[s[j]] = IF j > 1 THEN s[j - 1] ELSE Null
  BY DEF ListOf, Holds
<1> HIDE DEF t
<1>6. /\ r = [f \in Shape |-> r[f]]
      /\ r.enable_prio = l.enable_prio /\ r.size = l.size - 1
      /\ r.allocated = l.allocated \ {s[i]} /\ r.prio = [l.prio EXCEPT ![s[i]] = 0]
      /\ r.head = (IF i > 1 THEN l.head ELSE IF Len(s) > 1 THEN s[2] ELSE Null)
      /\ r.tail = (IF i < Len(s) THEN l.tail ELSE IF Len(s) > 1 THEN s[i - 1] ELSE Null)
  BY DEF Cut, Shape
<1>7. /\ r.prev = [m \in Node |-> IF m = s[i] \/ (i = 1 /\ Len(s) > 1 /\ m = s[2])
                                  THEN Null ELSE l.prev[m]]
      /\ r.next = [m \in Node |-> IF m = s[i] \/ (i = Len(s) /\ Len(s) > 1 /\ m = s[i - 1])
                                  THEN Null ELSE l.next[m]]
  BY DEF Cut
<1> HIDE DEF r
<1>8. r.prev \in Links /\ r.next \in Links
  BY <1>4, <1>7 DEF Links
<1>9. i = Len(s) \/ (i = 1 /\ Len(s) > 1)
  <2>1. \A z \in Nat : z # 0 => z = 1 \/ z > 1
    OBVIOUS
  <2>2. Len(s) = 1 \/ Len(s) > 1
    BY <1>1, <2>1, Zenon
  <2> QED
    BY <2>2
<1>10. ASSUME i = Len(s) PROVE Holds(r, t)
  <2>1. \A j \in 1 .. Len(s) - 1 : /\ j < i /\ t[j] = s[j] /\ j \in 1 .. Len(s) /\ j \in Nat
                                   /\ j # i /\ s[j] # s[i] /\ s[j] \in Node
    <3> SUFFICES ASSUME NEW j \in 1 .. Len(s) - 1
                 PROVE  /\ j < i /\ t[j] = s[j] /\ j \in 1 .. Len(s) /\ j \in Nat
                        /\ j # i /\ s[j] # s[i] /\ s[j] \in Node
      OBVIOUS
    <3>1. j < i /\ j \in 1 .. Len(s) /\ j \in Nat /\ j # i
      BY <1>1, <1>10
    <3> QED
      BY <1>1, <1>3, <3>1
  <2>2. ASSUME NEW j \in 1 .. Len(t)
        PROVE  r.next[t[j]] = IF j < Len(t) THEN t[j + 1] ELSE Null
    <3>1. j \in 1 .. Len(s) - 1 /\ l.next[s[j]] = s[j + 1]
      BY <1>1, <1>2, <1>5
    <3>2. r.next[s[j]] = IF Len(s) > 1 /\ s[j] = s[Len(s) - 1] THEN Null ELSE l.next[s[j]]
      BY <1>7, <1>10, <2>1, <3>1
    <3>3. Len(s) > 1 /\ Len(s) - 1 \in 1 .. Len(s)
      BY <1>1, <3>1
    <3>4. s[j] = s[Len(s) - 1] <=> j = Len(s) - 1
      BY <1>1, <2>1, <3>1, <3>3
    <3>5. j # Len(s) - 1 => j + 1 \in 1 .. Len(s) - 1 /\ j < Len(t)
      BY <1>1, <1>2, <3>1
    <3>6. j = Len(s) - 1 => ~(j < Len(t))
      BY <1>1, <1>2, <3>1
    <3>7. j # Len(s) - 1 => t[j + 1] = s[j + 1]
      BY <2>1, <3>5
    <3> QED
      BY <2>1, <3>1, <3>2, <3>3, <3>4, <3>5, <3>6, <3>7
  <2>3. ASSUME NEW j \in 1 .. Len(t)
        PROVE  r.prev[t[j]] = IF j > 1 THEN t[j - 1] ELSE Null
    <3>1. j \in 1 .. Len(s) - 1 /\ Len(s) > 1
      BY <1>1, <1>2
    <3>2. r.prev[s[j]] = l.prev[s[j]]
      <4>1. i # 1 /\ s[j] # s[i] /\ s[j] \in Node
        BY <1>1, <1>10, <2>1, <3>1
      <4> QED
        BY <1>7, <4>1
    <3>3. l.prev[s[j]] = IF j > 1 THEN s[j - 1] ELSE Null
      BY <1>5, <2>1, <3>1
    <3>4. j > 1 => j - 1 \in 1 .. Len(s) - 1
      BY <1>1, <3>1
    <3>5. j > 1 => t[j - 1] = s[j - 1]
      BY <2>1, <3>4
    <3> QED
      BY <2>1, <3>1, <3>2, <3>3, <3>5
  <2>4. r.head = IF Len(t) = 0 THEN Null ELSE t[1]
    <3>1. CASE Len(t) = 0
      BY <1>1, <1>2, <1>6, <1>10, <3>1
    <3>2. CASE Len(t) # 0
      <4>1. 1 \in 1 .. Len(s) - 1 /\ i > 1
        BY <1>1, <1>2, <1>10, <3>2
      <4> QED
        BY <1>4, <1>6, <2>1, <3>2, <4>1
    <3> QED
      BY <3>1, <3>2
  <2>5. r.tail = IF Len(t) = 0 THEN Null ELSE t[Len(t)]
    <3>1. CASE Len(t) = 0
      BY <1>1, <1>2, <1>6, <1>10, <3>1
    <3>2. CASE Len(t) # 0
      <4>1. Len(s) - 1 \in 1 .. Len(s) - 1 /\ Len(s) > 1 /\ ~(i < Len(s))
        BY <1>1, <1>2, <1>10, <3>2
      <4> QED
        BY <1>2, <1>6, <1>10, <2>1, <3>2, <4>1
    <3> QED
      BY <3>1, <3>2
  <2> QED
    <3>1. r.size = Len(t)
      BY <1>2, <1>4, <1>6
    <3>2. r = [f \in Shape |-> r[f]]
      BY <1>6
    <3>3. /\ r.head = IF Len(t) = 0 THEN Null ELSE t[1]
          /\ r.tail = IF Len(t) = 0 THEN Null ELSE t[Len(t)]
      BY <2>4, <2>5
    <3>4. \A j \in 1 .. Len(t) : /\ r.next[t[j]] = IF j < Len(t) THEN t[j + 1] ELSE Null
                                 /\ r.prev[t[j]] = IF j > 1 THEN t[j - 1] ELSE Null
      BY <2>2, <2>3
    <3> QED
      BY <1>2, <1>8, <3>1, <3>2, <3>3, <3>4 DEF Holds
<1>11. ASSUME i = 1, Len(s) > 1 PROVE Holds(r, t)
  <2>1. \A j \in 1 .. Len(s) - 1 : /\ t[j] = s[j + 1] /\ j \in Nat /\ j + 1 \in 1 .. Len(s)
                                   /\ s[j + 1] # s[1] /\ s[j + 1] \in Node
    <3> SUFFICES ASSUME NEW j \in 1 .. Len(s) - 1
                 PROVE  /\ t[j] = s[j + 1] /\ j \in Nat /\ j + 1 \in 1 .. Len(s)
                        /\ s[j + 1] # s[1] /\ s[j + 1] \in Node
      OBVIOUS
    <3>1. ~(j < i) /\ j + 1 \in 1 .. Len(s) /\ 1 \in 1 .. Len(s) /\ j \in Nat /\ j + 1 # 1
      BY <1>1, <1>11
    <3> QED
      BY <1>1, <1>3, <3>1
  <2>2. ASSUME NEW j \in 1 .. Len(t)
        PROVE  r.next[t[j]] = IF j < Len(t) THEN t[j + 1] ELSE Null
    <3>1. j \in 1 .. Len(s) - 1
      BY <1>2
    <3>2. r.next[s[j + 1]] = l.next[s[j + 1]]
      BY <1>7, <1>11, <2>1, <3>1
    <3>3. l.next[s[j + 1]] = IF j + 1 < Len(s) THEN s[(j + 1) + 1] ELSE Null
      BY <1>5, <2>1, <3>1
    <3>4. j < Len(t) => j + 1 \in 1 .. Len(s) - 1
      BY <1>1, <1>2, <3>1
    <3>5. j < Len(t) => t[j + 1] = s[(j + 1) + 1]
      BY <2>1, <3>4
    <3>6. j < Len(t) <=> j + 1 < Len(s)
      BY <1>1, <1>2, <3>1
    <3> QED
      BY <2>1, <3>1, <3>2, <3>3, <3>5, <3>6
  <2>3. ASSUME NEW j \in 1 .. Len(t)
        PROVE  r.prev[t[j]] = IF j > 1 THEN t[j - 1] ELSE Null
    <3>1. j \in 1 .. Len(s) - 1 /\ 2 \in 1 .. Len(s)
      BY <1>1, <1>2, <1>11
    <3>2. r.prev[s[j + 1]] = IF s[j + 1] = s[2] THEN Null ELSE l.prev[s[j + 1]]
      BY <1>7, <1>11, <2>1, <3>1
    <3>3. s[j + 1] = s[2] <=> j = 1
      <4>1. s[j + 1] = s[2] => j + 1 = 2
        BY <1>1, <2>1, <3>1
      <4> QED
        BY <2>1, <3>1, <4>1
    <3>4. l.prev[s[j + 1]] = IF j + 1 > 1 THEN s[(j + 1) - 1] ELSE Null
      BY <1>5, <2>1, <3>1
    <3>5. j > 1 => j - 1 \in 1 .. Len(s) - 1 /\ (j - 1) + 1 = j /\ (j + 1) - 1 = j /\ j + 1 > 1
      BY <1>1, <3>1
    <3>6. j > 1 => t[j - 1] = s[j]
      BY <2>1, <3>5
    <3> QED
      BY <2>1, <3>1, <3>2, <3>3, <3>4, <3>5, <3>6
  <2>4. Len(t) # 0 /\ r.head = t[1]
    <3>1. 1 \in 1 .. Len(s) - 1 /\ Len(t) # 0 /\ ~(i > 1)
      BY <1>1, <1>2, <1>11
    <3>2. t[1] = s[2]
      BY <2>1, <3>1
    <3> QED
      BY <1>6, <1>11, <3>1, <3>2
  <2>5. r.tail = t[Len(t)]
    <3>1. Len(s) - 1 \in 1 .. Len(s) - 1 /\ i < Len(s) /\ (Len(s) - 1) + 1 = Len(s)
      BY <1>1, <1>11
    <3> QED
      BY <1>2, <1>4, <1>6, <2>1, <3>1
  <2> QED
    <3>1. r.size = Len(t)
      BY <1>2, <1>4, <1>6
    <3>2. r = [f \in Shape |-> r[f]]
      BY <1>6
    <3>3. /\ r.head = IF Len(t) = 0 THEN Null ELSE t[1]
          /\ r.tail = IF Len(t) = 0 THEN Null ELSE t[Len(t)]
      BY <2>4, <2>5
    <3>4. \A j \in 1 .. Len(t) : /\ r.next[t[j]] = IF j < Len(t) THEN t[j + 1] ELSE Null
                                 /\ r.prev[t[j]] = IF j > 1 THEN t[j - 1] ELSE Null
      BY <2>2, <2>3
    <3> QED
      BY <1>2, <1>8, <3>1, <3>2, <3>3, <3>4 DEF Holds
<1>12. Sorted(r, t)
  <2>1. l.prio \in [Node -> Int] /\ l.enable_prio \in BOOLEAN
    BY DEF ListOf, Sorted
  <2>2. r.prio \in [Node -> Int]
    BY <1>6, <2>1
  <2>3. ASSUME l.enable_prio, NEW j \in 1 .. Len(t), NEW k \in 1 .. Len(t), j < k
        PROVE  r.prio[t[j]] >= r.prio[t[k]]
    <3>1. \A a \in 1 .. Len(s) : a # i => r.prio[s[a]] = l.prio[s[a]]
      BY <1>1, <1>6, <2>1
    <3>2. \A a, b \in 1 .. Len(s) : a < b => l.prio[s[a]] >= l.prio[s[b]]
      BY <2>3 DEF ListOf, Sorted
    <3>3. \E a, b \in 1 .. Len(s) : a < b /\ a # i /\ b # i /\ t[j] = s[a] /\ t[k] = s[b]
      <4>1. j \in 1 .. Len(s) - 1 /\ k \in 1 .. Len(s) - 1
        BY <1>2
      <4>2. CASE i = Len(s)
        <5>1. j < i /\ k < i /\ j \in 1 .. Len(s) /\ k \in 1 .. Len(s) /\ j # i /\ k # i
          BY <1>1, <4>1, <4>2
        <5> QED
          BY <1>3, <2>3, <4>1, <5>1
      <4>3. CASE i = 1
        <5>1. /\ ~(j < i) /\ ~(k < i) /\ j + 1 \in 1 .. Len(s) /\ k + 1 \in 1 .. Len(s)
              /\ j + 1 # i /\ k + 1 # i /\ j + 1 < k + 1
          BY <1>1, <2>3, <4>1, <4>3
        <5> QED
          BY <1>3, <4>1, <5>1
      <4> QED
        BY <4>2, <4>3
    <3> QED
      BY <3>1, <3>2, <3>3
  <2> QED
    BY <1>6, <2>1, <2>2, <2>3 DEF Sorted
<1>13. Clear(r, t)
  <2>1. r.allocated = Elements(t)
    BY <1>2, <1>6 DEF ListOf, Clear
  <2>2. ASSUME NEW m \in Node \ Elements(t)
        PROVE  r.prio[m] = 0 /\ r.prev[m] = Null /\ r.next[m] = Null
    <3>1. l.prio \in [Node -> Int]
      BY DEF ListOf, Sorted
    <3>2. CASE m = s[i]
      BY <1>6, <1>7, <3>1, <3>2
    <3>3. CASE m # s[i]
      <4>1. m \in Node \ Elements(s)
        BY <1>2, <3>3
      <4>2. l.prio[m] = 0 /\ l.prev[m] = Null /\ l.next[m] = Null
        BY <4>1 DEF ListOf, Clear
      <4> QED
        BY <1>6, <1>7, <3>1, <3>3, <4>2
    <3> QED
      BY <3>2, <3>3
  <2> QED
    BY <2>1, <2>2 DEF Clear
<1> QED
  BY <1>9, <1>10, <1>11, <1>12, <1>13 DEF ListOf, r, t

LEMMA EmptyIsList ==
  ASSUME NEW enable_prio \in BOOLEAN
  PROVE  ListOf(EmptyList(enable_prio), <<>>)
<1> DEFINE l == EmptyList(enable_prio)
<1>1. <<>> \in Orders /\ Len(<<>>) = 0 /\ Elements(<<>>) = {}
  BY DEF Orders, Elements
<1>2. /\ l = [f \in Shape |-> l[f]] /\ l.enable_prio = enable_prio
      /\ l.head = Null /\ l.tail = Null /\ l.size = 0 /\ l.allocated = {}
      /\ l.prio = [n \in Node |-> 0] /\ l.prev = [n \in Node |-> Null]
      /\ l.next = [n \in Node |-> Null]
  BY DEF EmptyList, Shape
<1> HIDE DEF l
<1>3. Holds(l, <<>>)
  BY <1>1, <1>2 DEF Holds, Links
<1>4. Sorted(l, <<>>)
  BY <1>1, <1>2 DEF Sorted
<1>5. Clear(l, <<>>)
  BY <1>1, <1>2 DEF Clear
<1> QED
  BY <1>3, <1>4, <1>5 DEF ListOf, l

LEMMA ListIsValid ==
  ASSUME NEW l, NEW s, ListOf(l, s)
  PROVE  NoDangling(l)
<1>1. /\ Len(s) \in Nat /\ l.allocated = {s[i] : i \in 1 .. Len(s)}
      /\ Len(s) # 0 => 1 \in 1 .. Len(s) /\ Len(s) \in 1 .. Len(s)
  <2>1. Len(s) \in Nat
    BY DEF ListOf, Holds, Orders
  <2>2. l.allocated = {s[i] : i \in 1 .. Len(s)}
    BY DEF ListOf, Clear, Elements
  <2> QED
    BY <2>1, <2>2
<1>2. \A i \in 1 .. Len(s) : s[i] \in l.allocated
  BY <1>1
<1>3. (l.head = Null \/ l.head \in l.allocated) /\ (l.tail = Null \/ l.tail \in l.allocated)
  BY <1>1, <1>2 DEF ListOf, Holds
<1>4. ASSUME NEW i \in 1 .. Len(s)
      PROVE  /\ l.next[s[i]] = Null \/ l.next[s[i]] \in l.allocated
             /\ l.prev[s[i]] = Null \/ l.prev[s[i]] \in l.allocated
  <2>1. i < Len(s) => i + 1 \in 1 .. Len(s)
    BY <1>1
  <2>2. i > 1 => i - 1 \in 1 .. Len(s)
    BY <1>1
  <2> QED
    BY <1>2, <2>1, <2>2 DEF ListOf, Holds
<1> QED
  BY <1>1, <1>3, <1>4 DEF NoDangling
=============================================================================
