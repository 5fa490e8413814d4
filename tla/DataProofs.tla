------------------------------ MODULE DataProofs ------------------------------
(***************************************************************************)
(* The containers and the texts the server is built on.                    *)
(*  - The list in use: for any set of nodes, any priorities and any        *)
(*    sequence of calls, its links hold a sequence of nodes, the one its   *)
(*    users think of.  The inductive invariant is that there is such a     *)
(*    sequence (ListProofs); each operation keeps it and does to it what   *)
(*    PriorityList says.                                                   *)
(*  - The options: whatever the configuration answers, each value stored   *)
(*    is one the server can run with.                                      *)
(*  - Strings and buffers: what they hold ends inside the allocation.  The *)
(*    inductive invariant of a string is that its bytes are a text without *)
(*    NUL and NULs from there to the end (Good), which is also what the    *)
(*    search that skips characters needs to find the first occurrence.     *)
(***************************************************************************)
EXTENDS EList, Bytes, Options, ListProofs, SequenceTheorems, FiniteSetTheorems
LOCAL INSTANCE SequencesExt

(* The links of list hold some sequence of nodes.                          *)
Whole == \E s \in Orders : ListOf(list, s)

LEMMA WholeInit == Init => Whole
<1>1. <<>> \in Orders
  BY DEF Orders
<1> QED
  BY <1>1, EmptyIsList DEF Init, Whole

(* What each operation makes of the sequence s.                            *)
LEMMA PushDone ==
  ASSUME NEW s \in Orders, ListOf(list, s), NEW n \in Node, NEW p \in Prio, DoPush(n, p)
  PROVE  \E k \in 1 .. Len(s) + 1 :
           /\ list' = Spliced(list, s, k, n, Rank(list, p))
           /\ ListOf(list', Inserted(s, k, n))
           /\ IF list.enable_prio THEN Splits(list.prio, s, k, p) ELSE k \in {1, Len(s) + 1}
<1>1. p \in Int /\ n \notin list.allocated /\ list' \in {Push(list, n, p), PushBack(list, n, p)}
  BY PrioAssumption DEF DoPush
<1>2. Sorted(list, s) /\ Len(s) \in Nat
  BY DEF ListOf, Orders
<1>3. CASE list.enable_prio
  <2>1. PICK k \in 1 .. Len(s) + 1 : Splits(list.prio, s, k, p)
    BY <1>1, <1>2, <1>3, PlaceExists
  <2>2. Rank(list, p) = p /\ Fore(list, s, k, p) /\ Rear(list, s, k, p)
    BY <1>3, <2>1 DEF Rank, Fore, Rear
  <2>3. list' = Spliced(list, s, k, n, Rank(list, p))
    BY <1>1, <2>2, PushSplices
  <2>4. ListOf(list', Inserted(s, k, n))
    BY <1>1, <2>1, <2>2, <2>3, SplicedIsList
  <2> QED
    BY <1>3, <2>1, <2>3, <2>4
<1>4. CASE ~list.enable_prio
  <2>1. Rank(list, p) = 0 /\ 1 \in 1 .. Len(s) + 1 /\ Len(s) + 1 \in 1 .. Len(s) + 1
    BY <1>2, <1>4 DEF Rank
  <2>2. Fore(list, s, 1, p) /\ Rear(list, s, Len(s) + 1, p)
    BY <1>4 DEF Fore, Rear
  <2>3. PICK k \in {1, Len(s) + 1} : list' = Spliced(list, s, k, n, Rank(list, p))
    <3>1. Push(list, n, p) = Spliced(list, s, 1, n, Rank(list, p))
      BY <1>1, <2>1, <2>2, PushSplices
    <3>2. PushBack(list, n, p) = Spliced(list, s, Len(s) + 1, n, Rank(list, p))
      BY <1>1, <2>1, <2>2, PushSplices
    <3> QED
      BY <1>1, <3>1, <3>2
  <2>4. k \in 1 .. Len(s) + 1
    BY <2>1
  <2>5. ListOf(list', Inserted(s, k, n))
    BY <1>1, <1>4, <2>1, <2>3, <2>4, SplicedIsList
  <2> QED
    BY <1>4, <2>3, <2>4, <2>5
<1> QED
  BY <1>3, <1>4

LEMMA EndsTaken ==
  ASSUME NEW s \in Orders, ListOf(list, s)
  PROVE  /\ DoPop => /\ 1 \in 1 .. Len(s) /\ list' = Cut(list, s, 1)
                     /\ ListOf(list', Without(s, 1))
         /\ "pop_back_last" \notin Ops /\ DoPopBack =>
                     /\ Len(s) \in 1 .. Len(s) /\ list' = Cut(list, s, Len(s))
                     /\ ListOf(list', Without(s, Len(s)))
<1>1. Len(s) \in Nat /\ list.size = Len(s)
  BY DEF ListOf, Holds, Orders
<1>2. (list.head # Null \/ list.tail # Null) => Len(s) # 0
  BY DEF ListOf, Holds
<1>3. Len(s) # 0 => 1 \in 1 .. Len(s) /\ Len(s) \in 1 .. Len(s)
  BY <1>1
<1>4. ASSUME DoPop
      PROVE  1 \in 1 .. Len(s) /\ list' = Cut(list, s, 1) /\ ListOf(list', Without(s, 1))
  <2>1. Len(s) # 0 /\ list' = Pop(list)
    BY <1>2, <1>4 DEF DoPop
  <2>2. list' = Cut(list, s, 1)
    BY <2>1, PopsAreCuts
  <2> QED
    BY <1>3, <2>1, <2>2, CutIsList
<1>5. ASSUME DoPopBack, "pop_back_last" \notin Ops
      PROVE  /\ Len(s) \in 1 .. Len(s) /\ list' = Cut(list, s, Len(s))
             /\ ListOf(list', Without(s, Len(s)))
  <2>1. Len(s) # 0 /\ list' = PopBack(list) /\ Len(s) # 1
    BY <1>1, <1>2, <1>5 DEF DoPopBack
  <2>2. Len(s) > 1
    <3>1. \A z \in Nat : z # 0 /\ z # 1 => z > 1
      OBVIOUS
    <3> QED
      BY <1>1, <2>1, <3>1, Zenon
  <2>3. list' = Cut(list, s, Len(s))
    BY <2>1, <2>2, PopsAreCuts
  <2> QED
    BY <1>3, <2>1, <2>3, CutIsList
<1> QED
  BY <1>4, <1>5

LEMMA EraseDone ==
  ASSUME NEW s \in Orders, ListOf(list, s), NEW n \in Node, DoErase(n),
         "erase_middle" \notin Ops
  PROVE  \E i \in 1 .. Len(s) : /\ s[i] = n /\ list' = Cut(list, s, i)
                                /\ ListOf(list', Without(s, i))
<1>1. n \in {list.head, list.tail} /\ list' = Erase(list, n)
  BY DEF DoErase
<1>2. n # Null
  BY NodeAssumption
<1>3. Len(s) # 0 /\ Len(s) \in Nat
  BY <1>1, <1>2 DEF ListOf, Holds, Orders
<1>4. PICK i \in {1, Len(s)} : s[i] = n
  BY <1>1, <1>3 DEF ListOf, Holds
<1>5. i \in 1 .. Len(s)
  BY <1>3
<1>6. list' = Cut(list, s, i)
  BY <1>1, <1>4, <1>5, EraseIsCut
<1> QED
  BY <1>4, <1>5, <1>6, CutIsList

LEMMA WholeStep == Ops \subseteq WholeOps /\ Whole /\ [Next]_list => Whole'
<1> SUFFICES ASSUME Ops \subseteq WholeOps, Whole, [Next]_list PROVE Whole'
  OBVIOUS
<1>1. PICK s \in Orders : ListOf(list, s)
  BY DEF Whole
<1>2. "pop_back_last" \notin Ops /\ "erase_middle" \notin Ops
  BY DEF WholeOps
<1>3. \A t : ListOf(list', t) => Whole'
  BY DEF Whole, ListOf, Holds
<1>4. ASSUME NEW n \in Node, NEW p \in Prio, DoPush(n, p) PROVE Whole'
  BY <1>1, <1>3, <1>4, PushDone
<1>5. CASE DoPop
  BY <1>1, <1>3, <1>5, EndsTaken
<1>6. CASE DoPopBack
  BY <1>1, <1>2, <1>3, <1>6, EndsTaken
<1>7. ASSUME NEW n \in Node, DoErase(n) PROVE Whole'
  BY <1>1, <1>2, <1>3, <1>7, EraseDone
<1>8. CASE DoCleanup
  <2>1. list.enable_prio \in BOOLEAN
    BY <1>1 DEF ListOf, Sorted
  <2> QED
    BY <1>3, <1>8, <2>1, EmptyIsList DEF DoCleanup, Cleaned
<1>9. CASE UNCHANGED list
  BY <1>9 DEF Whole
<1> QED
  BY <1>4, <1>5, <1>6, <1>7, <1>8, <1>9 DEF Next

LEMMA WholeAgrees == Whole => ChainsAgree
<1> SUFFICES ASSUME Whole PROVE ChainsAgree
  OBVIOUS
<1>1. PICK s \in Orders : ListOf(list, s)
  BY DEF Whole
<1>2. Holds(list, s)
  BY <1>1 DEF ListOf
<1>3. Forward(list) = s /\ Backward(list) = Backwards(s)
  BY <1>2, WalksOfList
<1>4. /\ Len(s) \in Nat /\ list.size = Len(s) /\ DOMAIN s = 1 .. Len(s)
      /\ list.allocated = {s[i] : i \in 1 .. Len(s)}
  <2>1. Len(s) \in Nat /\ DOMAIN s = 1 .. Len(s)
    BY DEF Orders
  <2>2. list.allocated = {s[i] : i \in 1 .. Len(s)}
    BY <1>1 DEF ListOf, Clear, Elements
  <2> QED
    BY <1>2, <2>1, <2>2 DEF Holds
<1>5. /\ Len(Backwards(s)) = Len(s)
      /\ \A i \in 1 .. Len(s) : /\ Backwards(s)[i] = s[Len(s) + 1 - i]
                                /\ Len(s) + 1 - i \in 1 .. Len(s)
                                /\ Len(s) + 1 - (Len(s) + 1 - i) = i
  BY <1>4, BackwardsOrder
<1>6. \A i \in 1 .. Len(s) : Backwards(s)[Len(s) + 1 - i] = s[i]
  BY <1>5
<1>7. PushesAgree
  <2> SUFFICES ASSUME list.enable_prio, NEW n \in Node \ list.allocated, NEW p \in Prio
               PROVE  Push(list, n, p) = PushBack(list, n, p)
    BY DEF PushesAgree
  <2>1. p \in Int /\ Sorted(list, s)
    BY <1>1, PrioAssumption DEF ListOf
  <2>2. PICK k \in 1 .. Len(s) + 1 : Splits(list.prio, s, k, p)
    BY <2>1, PlaceExists
  <2>3. Fore(list, s, k, p) /\ Rear(list, s, k, p)
    BY <2>2 DEF Fore, Rear
  <2> QED
    BY <1>1, <2>1, <2>3, PushSplices
<1>8. NoDangling(list)
  BY <1>1, ListIsValid
<1> QED
  BY <1>3, <1>4, <1>5, <1>6, <1>7, <1>8 DEF ChainsAgree

(* The list never follows a link to freed memory, its two chains hold the  *)
(* same nodes, and both pushes would put an element at the same place: for *)
(* any nodes, priorities and calls that leave the list whole.              *)
THEOREM ListStaysWhole ==
  ASSUME Ops \subseteq WholeOps
  PROVE  Spec => []ChainsAgree
<1>1. Init => Whole
  BY WholeInit
<1>2. Whole /\ [Next]_list => Whole'
  BY WholeStep
<1> QED
  BY <1>1, <1>2, WholeAgrees, PTL DEF Spec

-----------------------------------------------------------------------------
(* The same sequences, as PriorityList writes them.                        *)
LEMMA Piece ==
  ASSUME NEW s \in Seq(Node), NEW m \in 1 .. Len(s) + 1, NEW n \in (m - 1) .. Len(s)
  PROVE  /\ SubSeq(s, m, n) \in Seq(Node) /\ Len(SubSeq(s, m, n)) = n - m + 1
         /\ \A i \in 1 .. n - m + 1 : SubSeq(s, m, n)[i] = s[m + i - 1]
<1>1. Len(s) \in Nat /\ m \in Int /\ n \in Int /\ \A i \in m .. n : i \in 1 .. Len(s)
  OBVIOUS
<1>2. \A i \in m .. n : s[i] \in Node
  BY <1>1, ElementOfSeq
<1>3. /\ SubSeq(s, m, n) \in Seq(Node)
      /\ Len(SubSeq(s, m, n)) = IF m <= n THEN n - m + 1 ELSE 0
      /\ \A i \in 1 .. n - m + 1 : SubSeq(s, m, n)[i] = s[m + i - 1]
  BY <1>1, <1>2, SubSeqProperties
<1>4. ~(m <= n) => n - m + 1 = 0
  BY <1>1
<1> QED
  BY <1>3, <1>4

LEMMA InsertedAt ==
  ASSUME NEW s \in Orders, NEW n \in Node, NEW k \in 1 .. Len(s) + 1
  PROVE  Sequence!InsertAt(s, k, n) = Inserted(s, k, n)
<1> DEFINE a == SubSeq(s, 1, k - 1)
           b == SubSeq(s, k, Len(s))
           m == <<n>>
           c == a \o m
           t == c \o b
<1>1. /\ s \in Seq(Node) /\ Len(s) \in Nat /\ k \in Nat
      /\ Sequence!InsertAt(s, k, n) = t
  BY DEF Orders, Sequence!InsertAt
<1>2. a \in Seq(Node) /\ Len(a) = k - 1 /\ \A i \in 1 .. k - 1 : a[i] = s[i]
  <2>1. 1 \in 1 .. Len(s) + 1 /\ k - 1 \in (1 - 1) .. Len(s) /\ (k - 1) - 1 + 1 = k - 1
    BY <1>1
  <2>2. /\ a \in Seq(Node) /\ Len(a) = (k - 1) - 1 + 1
        /\ \A i \in 1 .. (k - 1) - 1 + 1 : a[i] = s[1 + i - 1]
    BY <1>1, <2>1, Piece
  <2>3. \A i \in 1 .. k - 1 : 1 + i - 1 = i
    OBVIOUS
  <2> QED
    BY <2>1, <2>2, <2>3
<1>3. /\ b \in Seq(Node) /\ Len(b) = Len(s) - k + 1
      /\ \A i \in 1 .. Len(s) - k + 1 : b[i] = s[k + i - 1]
  <2>1. Len(s) \in (k - 1) .. Len(s)
    BY <1>1
  <2> QED
    BY <1>1, <2>1, Piece
<1>4. m \in Seq(Node) /\ Len(m) = 1 /\ m[1] = n
  OBVIOUS
<1> HIDE DEF a, b, m
<1>5. /\ c \in Seq(Node) /\ Len(c) = Len(a) + Len(m)
      /\ \A i \in 1 .. Len(a) + Len(m) : c[i] = IF i <= Len(a) THEN a[i] ELSE m[i - Len(a)]
  BY <1>2, <1>4, ConcatProperties
<1> HIDE DEF c
<1>6. /\ t \in Seq(Node) /\ Len(t) = Len(c) + Len(b)
      /\ \A i \in 1 .. Len(c) + Len(b) : t[i] = IF i <= Len(c) THEN c[i] ELSE b[i - Len(c)]
  <2>1. c \in Seq(Node) /\ b \in Seq(Node)
    BY <1>3, <1>5
  <2> QED
    BY <2>1, ConcatProperties
<1>7. Len(c) = k /\ Len(c) + Len(b) = Len(s) + 1 /\ Len(t) = Len(s) + 1
  BY SMTT(30), <1>1, <1>2, <1>3, <1>4, <1>5, <1>6
<1> HIDE DEF t
<1>8. ASSUME NEW i \in 1 .. Len(s) + 1 PROVE t[i] = Inserted(s, k, n)[i]
  <2>1. Inserted(s, k, n)[i] = IF i < k THEN s[i] ELSE IF i = k THEN n ELSE s[i - 1]
    BY DEF Inserted
  <2>2. t[i] = IF i <= k THEN c[i] ELSE b[i - k]
    BY <1>6, <1>7
  <2>3. CASE i < k
    <3>1. i \in 1 .. k - 1 /\ i <= k /\ i \in 1 .. Len(a) + Len(m) /\ i <= Len(a)
      BY <1>1, <1>2, <1>4, <2>3
    <3> QED
      BY <1>2, <1>5, <2>1, <2>2, <2>3, <3>1
  <2>4. CASE i = k
    <3>1. k \in 1 .. Len(a) + Len(m) /\ ~(k <= Len(a)) /\ k - Len(a) = 1
      BY <1>1, <1>2, <1>4
    <3>2. c[k] = n
      BY <1>4, <1>5, <3>1
    <3> QED
      BY <1>1, <2>1, <2>2, <2>4, <3>2
  <2>5. CASE i > k
    <3>1. /\ i - k \in 1 .. Len(s) - k + 1 /\ k + (i - k) - 1 = i - 1
          /\ ~(i <= k) /\ ~(i < k) /\ i # k
      BY <1>1, <2>5
    <3>2. b[i - k] = s[i - 1]
      BY <1>3, <3>1
    <3> QED
      BY <2>1, <2>2, <3>1, <3>2
  <2>6. i < k \/ i = k \/ i > k
    BY <1>1
  <2> QED
    BY <2>3, <2>4, <2>5, <2>6
<1>9. Inserted(s, k, n) = [i \in 1 .. Len(s) + 1 |-> Inserted(s, k, n)[i]]
  BY DEF Inserted
<1>10. t = [i \in 1 .. Len(s) + 1 |-> t[i]]
  BY <1>6, <1>7
<1> QED
  BY <1>1, <1>8, <1>9, <1>10

LEMMA WithoutAt ==
  ASSUME NEW s \in Orders, NEW i \in 1 .. Len(s)
  PROVE  /\ Sequence!RemoveAt(s, i) = Without(s, i)
         /\ Tail(s) = Without(s, 1)
         /\ SubSeq(s, 1, Len(s) - 1) = Without(s, Len(s))
<1> DEFINE a == SubSeq(s, 1, i - 1)
           b == SubSeq(s, i + 1, Len(s))
           t == a \o b
<1>1. s \in Seq(Node) /\ Len(s) \in Nat /\ i \in Nat /\ Sequence!RemoveAt(s, i) = t
  BY DEF Orders, Sequence!RemoveAt
<1>2. a \in Seq(Node) /\ Len(a) = i - 1 /\ \A j \in 1 .. i - 1 : a[j] = s[j]
  <2>1. 1 \in 1 .. Len(s) + 1 /\ i - 1 \in (1 - 1) .. Len(s) /\ (i - 1) - 1 + 1 = i - 1
    BY <1>1
  <2>2. /\ a \in Seq(Node) /\ Len(a) = (i - 1) - 1 + 1
        /\ \A j \in 1 .. (i - 1) - 1 + 1 : a[j] = s[1 + j - 1]
    BY <1>1, <2>1, Piece
  <2>3. \A j \in 1 .. i - 1 : 1 + j - 1 = j
    OBVIOUS
  <2> QED
    BY <2>1, <2>2, <2>3
<1>3. b \in Seq(Node) /\ Len(b) = Len(s) - i /\ \A j \in 1 .. Len(s) - i : b[j] = s[i + j]
  <2>1. /\ i + 1 \in 1 .. Len(s) + 1 /\ Len(s) \in ((i + 1) - 1) .. Len(s)
        /\ Len(s) - (i + 1) + 1 = Len(s) - i
    BY <1>1
  <2>2. /\ b \in Seq(Node) /\ Len(b) = Len(s) - (i + 1) + 1
        /\ \A j \in 1 .. Len(s) - (i + 1) + 1 : b[j] = s[(i + 1) + j - 1]
    BY <1>1, <2>1, Piece
  <2>3. \A j \in 1 .. Len(s) - i : (i + 1) + j - 1 = i + j
    BY <1>1
  <2> QED
    BY <2>1, <2>2, <2>3
<1> HIDE DEF a, b
<1>4. /\ t \in Seq(Node) /\ Len(t) = Len(a) + Len(b)
      /\ \A j \in 1 .. Len(a) + Len(b) : t[j] = IF j <= Len(a) THEN a[j] ELSE b[j - Len(a)]
  BY <1>2, <1>3, ConcatProperties
<1>5. Len(a) + Len(b) = Len(s) - 1 /\ Len(t) = Len(s) - 1
  BY <1>1, <1>2, <1>3, <1>4
<1> HIDE DEF t
<1>6. ASSUME NEW j \in 1 .. Len(s) - 1 PROVE t[j] = Without(s, i)[j]
  <2>1. Without(s, i)[j] = IF j < i THEN s[j] ELSE s[j + 1]
    BY DEF Without
  <2>2. t[j] = IF j <= i - 1 THEN a[j] ELSE b[j - (i - 1)]
    BY <1>2, <1>4, <1>5
  <2>3. CASE j < i
    <3>1. j \in 1 .. i - 1 /\ j <= i - 1
      BY <1>1, <2>3
    <3> QED
      BY <1>2, <2>1, <2>2, <2>3, <3>1
  <2>4. CASE ~(j < i)
    <3>1. ~(j <= i - 1) /\ j - (i - 1) \in 1 .. Len(s) - i /\ i + (j - (i - 1)) = j + 1
      BY <1>1, <2>4
    <3>2. b[j - (i - 1)] = s[j + 1]
      BY <1>3, <3>1
    <3> QED
      BY <2>1, <2>2, <2>4, <3>1, <3>2
  <2> QED
    BY <2>3, <2>4
<1>7. t = [j \in 1 .. Len(s) - 1 |-> t[j]]
  BY <1>4, <1>5
<1>8. Without(s, i) = [j \in 1 .. Len(s) - 1 |-> Without(s, i)[j]]
  BY DEF Without
<1>9. t = Without(s, i)
  BY <1>6, <1>7, <1>8
<1>10. Tail(s) = Without(s, 1)
  <2>1. s # <<>> /\ \A j \in 1 .. Len(s) - 1 : ~(j < 1)
    BY <1>1
  <2>2. /\ Tail(s) \in Seq(Node) /\ Len(Tail(s)) = Len(s) - 1
        /\ \A j \in 1 .. Len(Tail(s)) : Tail(s)[j] = s[j + 1]
    BY <1>1, <2>1, HeadTailProperties
  <2>3. Tail(s) = [j \in 1 .. Len(s) - 1 |-> Tail(s)[j]]
    BY <2>2, LenProperties
  <2>4. Without(s, 1) = [j \in 1 .. Len(s) - 1 |-> s[j + 1]]
    BY <2>1 DEF Without
  <2> QED
    BY <2>2, <2>3, <2>4
<1>11. SubSeq(s, 1, Len(s) - 1) = Without(s, Len(s))
  <2>1. \A j \in 1 .. Len(s) - 1 : j < Len(s)
    BY <1>1
  <2>2. SubSeq(s, 1, Len(s) - 1) = [j \in 1 .. Len(s) - 1 |-> s[j]]
    BY <1>1
  <2>3. Without(s, Len(s)) = [j \in 1 .. Len(s) - 1 |-> s[j]]
    BY <2>1 DEF Without
  <2> QED
    BY <2>2, <2>3
<1> QED
  BY <1>1, <1>9, <1>10, <1>11

LEMMA InsertedEnds ==
  ASSUME NEW s \in Orders, NEW n \in Node
  PROVE  <<n>> \o s = Inserted(s, 1, n) /\ s \o <<n>> = Inserted(s, Len(s) + 1, n)
<1> DEFINE m == <<n>>
           t == m \o s
           u == s \o m
<1>1. s \in Seq(Node) /\ Len(s) \in Nat /\ m \in Seq(Node) /\ Len(m) = 1 /\ m[1] = n
  BY DEF Orders
<1> HIDE DEF m
<1>2. /\ t \in Seq(Node) /\ Len(t) = Len(m) + Len(s)
      /\ \A i \in 1 .. Len(m) + Len(s) : t[i] = IF i <= Len(m) THEN m[i] ELSE s[i - Len(m)]
  <2>1. m \in Seq(Node) /\ s \in Seq(Node)
    BY <1>1
  <2> QED
    BY <2>1, ConcatProperties
<1>3. /\ u \in Seq(Node) /\ Len(u) = Len(s) + Len(m)
      /\ \A i \in 1 .. Len(s) + Len(m) : u[i] = IF i <= Len(s) THEN s[i] ELSE m[i - Len(s)]
  <2>1. m \in Seq(Node) /\ s \in Seq(Node)
    BY <1>1
  <2> QED
    BY <2>1, ConcatProperties
<1> HIDE DEF t, u
<1>4. ASSUME NEW i \in 1 .. Len(s) + 1
      PROVE  t[i] = Inserted(s, 1, n)[i] /\ u[i] = Inserted(s, Len(s) + 1, n)[i]
  <2>1. i \in 1 .. Len(m) + Len(s) /\ i \in 1 .. Len(s) + Len(m) /\ i \in Nat
    BY <1>1
  <2>2. t[i] = IF i <= 1 THEN m[i] ELSE s[i - 1]
    BY <1>1, <1>2, <2>1
  <2>3. u[i] = IF i <= Len(s) THEN s[i] ELSE m[i - Len(s)]
    BY <1>3, <2>1
  <2>4. Inserted(s, 1, n)[i] = IF i < 1 THEN s[i] ELSE IF i = 1 THEN n ELSE s[i - 1]
    BY DEF Inserted
  <2>5. Inserted(s, Len(s) + 1, n)[i] =
          IF i < Len(s) + 1 THEN s[i] ELSE IF i = Len(s) + 1 THEN n ELSE s[i - 1]
    BY DEF Inserted
  <2>6. t[i] = Inserted(s, 1, n)[i]
    <3>1. ~(i < 1) /\ (i <= 1 <=> i = 1)
      BY <2>1
    <3> QED
      BY <1>1, <2>2, <2>4, <3>1
  <2>7. u[i] = Inserted(s, Len(s) + 1, n)[i]
    <3>1. (i < Len(s) + 1 <=> i <= Len(s)) /\ (~(i <= Len(s)) => i = Len(s) + 1 /\ i - Len(s) = 1)
      BY <1>1, <2>1
    <3> QED
      BY <1>1, <2>3, <2>5, <3>1
  <2> QED
    BY <2>6, <2>7
<1>5. Len(t) = Len(s) + 1 /\ Len(u) = Len(s) + 1
  BY <1>1, <1>2, <1>3
<1>6. t = [i \in 1 .. Len(s) + 1 |-> t[i]] /\ u = [i \in 1 .. Len(s) + 1 |-> u[i]]
  BY <1>2, <1>3, <1>5
<1>7. /\ Inserted(s, 1, n) = [i \in 1 .. Len(s) + 1 |-> Inserted(s, 1, n)[i]]
      /\ Inserted(s, Len(s) + 1, n) = [i \in 1 .. Len(s) + 1 |-> Inserted(s, Len(s) + 1, n)[i]]
  BY DEF Inserted
<1>8. t = Inserted(s, 1, n) /\ u = Inserted(s, Len(s) + 1, n)
  BY <1>4, <1>6, <1>7
<1> QED
  BY <1>8 DEF t, u, m

-----------------------------------------------------------------------------
(* The list implements that sequence, step by step.                        *)
LEMMA SeqInit == Init => Sequence!Init
<1> SUFFICES ASSUME Init PROVE Sequence!Init
  OBVIOUS
<1>1. PICK enable_prio \in BOOLEAN : list = EmptyList(enable_prio)
  BY DEF Init
<1>2. Forward(list) = <<>>
  BY <1>1, EmptyIsList, WalksOfList DEF ListOf
<1>3. list.prio = [n \in Node |-> 0] /\ list.enable_prio \in BOOLEAN
  BY <1>1 DEF EmptyList
<1> QED
  BY <1>2, <1>3 DEF Sequence!Init

LEMMA SeqPush ==
  ASSUME NEW s \in Orders, ListOf(list, s), NEW n \in Node, NEW p \in Prio, DoPush(n, p)
  PROVE  Sequence!AddSorted(n, p) \/ Sequence!AddAtEnd(n)
<1>1. PICK k \in 1 .. Len(s) + 1 :
        /\ list' = Spliced(list, s, k, n, Rank(list, p))
        /\ ListOf(list', Inserted(s, k, n))
        /\ IF list.enable_prio THEN Splits(list.prio, s, k, p) ELSE k \in {1, Len(s) + 1}
  BY PushDone
<1>2. Forward(list) = s /\ Forward(list') = Inserted(s, k, n)
  BY <1>1, WalksOfList DEF ListOf
<1>3. /\ list'.prio = [list.prio EXCEPT ![n] = Rank(list, p)]
      /\ list'.enable_prio = list.enable_prio
  BY <1>1 DEF Spliced
<1>4. Len(s) \in Nat /\ DOMAIN s = 1 .. Len(s)
  BY DEF Orders
<1>5. n \notin Sequence!ToSet(s)
  <2>1. n \notin {s[i] : i \in 1 .. Len(s)}
    BY DEF DoPush, ListOf, Clear, Elements
  <2> QED
    BY <1>4, <2>1 DEF Sequence!ToSet
<1>6. CASE list.enable_prio
  <2>1. k - 1 \in 0 .. Len(s) /\ (k - 1) + 1 = k
    BY <1>4
  <2>2. /\ \A j \in 1 .. k - 1 : list.prio[s[j]] >= p
        /\ \A j \in k .. Len(s) : list.prio[s[j]] < p
    <3>1. \A j \in 1 .. Len(s) : IF j < k THEN list.prio[s[j]] >= p ELSE list.prio[s[j]] < p
      BY <1>1, <1>6 DEF Splits
    <3>2. \A j \in 1 .. k - 1 : j \in 1 .. Len(s) /\ j < k
      BY <1>4
    <3>3. \A j \in k .. Len(s) : j \in 1 .. Len(s) /\ ~(j < k)
      BY <1>4
    <3> QED
      BY <3>1, <3>2, <3>3
  <2>3. Forward(list') = Sequence!InsertAt(s, k, n)
    BY <1>2, InsertedAt
  <2>4. list'.prio = [list.prio EXCEPT ![n] = p]
    BY <1>3, <1>6 DEF Rank
  <2>5. \E i \in 0 .. Len(s) :
          /\ \A j \in 1 .. i : list.prio[s[j]] >= p
          /\ \A j \in i + 1 .. Len(s) : list.prio[s[j]] < p
          /\ Forward(list') = Sequence!InsertAt(s, i + 1, n)
    BY <2>1, <2>2, <2>3
  <2> QED
    BY <1>2, <1>3, <1>5, <1>6, <2>4, <2>5 DEF Sequence!AddSorted, Sequence!Fresh
<1>7. CASE ~list.enable_prio
  <2>1. Forward(list') \in {<<n>> \o s, s \o <<n>>}
    BY <1>1, <1>2, <1>7, InsertedEnds
  <2>2. list'.prio = [list.prio EXCEPT ![n] = 0]
    BY <1>3, <1>7 DEF Rank
  <2> QED
    BY <1>2, <1>3, <1>5, <1>7, <2>1, <2>2 DEF Sequence!AddAtEnd, Sequence!Fresh
<1> QED
  BY <1>6, <1>7

LEMMA SeqTake ==
  ASSUME NEW s \in Orders, ListOf(list, s), NEW i \in 1 .. Len(s),
         list' = Cut(list, s, i), ListOf(list', Without(s, i))
  PROVE  /\ Sequence!Take(s[i]) /\ s[i] \in Node
         /\ Forward(list) = s /\ Forward(list') = Without(s, i)
<1>1. Forward(list) = s /\ Forward(list') = Without(s, i)
  BY WalksOfList DEF ListOf
<1>2. list'.prio = [list.prio EXCEPT ![s[i]] = 0] /\ list'.enable_prio = list.enable_prio
  BY DEF Cut
<1>3. Forward(list') = Sequence!RemoveAt(s, i)
  BY <1>1, WithoutAt
<1>4. s[i] \in Node
  BY DEF Orders
<1> QED
  BY <1>1, <1>2, <1>3, <1>4 DEF Sequence!Take

LEMMA SeqStep ==
  Ops \subseteq WholeOps /\ Whole /\ [Next]_list =>
    /\ [Sequence!Next]_(Sequence!plVars)
    /\ DoPop => Forward(list') = Tail(Forward(list))
    /\ DoPopBack => Forward(list') = SubSeq(Forward(list), 1, Len(Forward(list)) - 1)
    /\ \A n \in Node : DoErase(n) => Sequence!Take(n)
<1> SUFFICES ASSUME Ops \subseteq WholeOps, Whole, [Next]_list
             PROVE  /\ [Sequence!Next]_(Sequence!plVars)
                    /\ DoPop => Forward(list') = Tail(Forward(list))
                    /\ DoPopBack => Forward(list') = SubSeq(Forward(list), 1, Len(Forward(list)) - 1)
                    /\ \A n \in Node : DoErase(n) => Sequence!Take(n)
  OBVIOUS
<1>1. PICK s \in Orders : ListOf(list, s)
  BY DEF Whole
<1>2. "pop_back_last" \notin Ops /\ "erase_middle" \notin Ops
  BY DEF WholeOps
<1>3. ASSUME NEW n \in Node, NEW p \in Prio, DoPush(n, p) PROVE Sequence!Next
  BY <1>1, <1>3, SeqPush DEF Sequence!Next
<1>4. ASSUME DoPop PROVE Sequence!Next /\ Forward(list') = Tail(Forward(list))
  <2>1. 1 \in 1 .. Len(s) /\ list' = Cut(list, s, 1) /\ ListOf(list', Without(s, 1))
    BY <1>1, <1>4, EndsTaken
  <2>2. /\ Sequence!Take(s[1]) /\ s[1] \in Node
        /\ Forward(list) = s /\ Forward(list') = Without(s, 1)
    BY <1>1, <2>1, SeqTake
  <2>3. Tail(s) = Without(s, 1)
    BY <2>1, WithoutAt
  <2> QED
    BY <2>2, <2>3 DEF Sequence!Next
<1>5. ASSUME DoPopBack
      PROVE  /\ Sequence!Next
             /\ Forward(list') = SubSeq(Forward(list), 1, Len(Forward(list)) - 1)
  <2>1. Len(s) \in 1 .. Len(s) /\ list' = Cut(list, s, Len(s)) /\ ListOf(list', Without(s, Len(s)))
    BY <1>1, <1>2, <1>5, EndsTaken
  <2>2. /\ Sequence!Take(s[Len(s)]) /\ s[Len(s)] \in Node
        /\ Forward(list) = s /\ Forward(list') = Without(s, Len(s))
    BY <1>1, <2>1, SeqTake
  <2>3. SubSeq(s, 1, Len(s) - 1) = Without(s, Len(s))
    BY <2>1, WithoutAt
  <2> QED
    BY <2>2, <2>3 DEF Sequence!Next
<1>6. ASSUME NEW n \in Node, DoErase(n) PROVE Sequence!Take(n) /\ Sequence!Next
  <2>1. PICK i \in 1 .. Len(s) : /\ s[i] = n /\ list' = Cut(list, s, i)
                                 /\ ListOf(list', Without(s, i))
    BY <1>1, <1>2, <1>6, EraseDone
  <2>2. Sequence!Take(n)
    BY <1>1, <2>1, SeqTake
  <2> QED
    BY <2>2 DEF Sequence!Next
<1>7. ASSUME DoCleanup PROVE Sequence!Next
  <2>1. list.enable_prio \in BOOLEAN
    BY <1>1 DEF ListOf, Sorted
  <2>2. list' = EmptyList(list.enable_prio)
    BY <1>7 DEF DoCleanup, Cleaned
  <2>3. Forward(list') = <<>>
    BY <2>1, <2>2, EmptyIsList, WalksOfList DEF ListOf
  <2>4. list'.prio = [n \in Node |-> 0] /\ list'.enable_prio = list.enable_prio
    BY <2>2 DEF EmptyList
  <2>5. Sequence!Clear
    BY <2>3, <2>4 DEF Sequence!Clear
  <2> QED
    BY <2>5 DEF Sequence!Next
<1>8. ASSUME UNCHANGED list PROVE UNCHANGED Sequence!plVars
  BY <1>8 DEF Sequence!plVars
<1>9. [Sequence!Next]_(Sequence!plVars)
  BY <1>3, <1>4, <1>5, <1>6, <1>7, <1>8 DEF Next
<1> QED
  BY <1>4, <1>5, <1>6, <1>9

(* For any nodes, priorities and calls that leave the list whole, the list *)
(* implements the sequence of PriorityList: what is pushed comes behind    *)
(* everything of the same or a higher priority, the pops take the element  *)
(* at their end and an erase the one named, and the others keep their      *)
(* order.                                                                  *)
THEOREM ListImplementsSequence ==
  ASSUME Ops \subseteq WholeOps
  PROVE  Spec => ImplementsSequence
<1>1. Init => Whole /\ Sequence!Init
  BY WholeInit, SeqInit
<1>2. Whole /\ [Next]_list => Whole'
  BY WholeStep
<1>3. Whole /\ [Next]_list =>
        /\ [Sequence!Next]_(Sequence!plVars)
        /\ [/\ DoPop => Forward(list') = Tail(Forward(list))
            /\ DoPopBack => Forward(list') = SubSeq(Forward(list), 1, Len(Forward(list)) - 1)
            /\ \A n \in Node : DoErase(n) => Sequence!Take(n)]_list
  BY SeqStep
<1> QED
  BY <1>1, <1>2, <1>3, PTL DEF Spec, ImplementsSequence, TakesTheRightOne, Sequence!Spec

-----------------------------------------------------------------------------
(* Buffers.  What NulFits needs of a call: that no buffer without an       *)
(* allocation has data, and of which kind the sizes are.                   *)
Buffers == [alloc : Nat, data : Seq(STRING), written : Nat]
Fits(b) ==
  /\ b \in Buffers /\ b.written <= b.alloc
  /\ IF b.alloc > 0 THEN Size(b) < b.alloc ELSE b.data = <<>>
BufferInv == buf \in [Names -> Buffers] /\ \A n \in Names : Fits(buf[n])

(* What the calls leave: data with its NUL in an allocation that has room. *)
LEMMA HoldingFits ==
  ASSUME NEW a \in Nat, NEW d \in Seq(STRING), Len(d) < a
  PROVE  Fits(Holding(a, d))
<1>1. Len(d) \in Nat
  OBVIOUS
<1>2. Holding(a, d) = [alloc |-> a, data |-> d, written |-> Len(d) + 1]
  BY DEF Holding
<1> QED
  BY <1>1, <1>2 DEF Fits, Buffers, Size

LEMMA EmptiedFits ==
  ASSUME NEW b, Fits(b)
  PROVE  Fits([b EXCEPT !.data = <<>>])
<1>1. <<>> \in Seq(STRING) /\ Len(<<>>) = 0
  OBVIOUS
<1> QED
  BY <1>1 DEF Fits, Buffers, Size

LEMMA AbsentFits == Fits(Absent) /\ \A cap \in Nat : Fits(NewBuffer(cap))
<1>1. <<>> \in Seq(STRING) /\ Len(<<>>) = 0
  OBVIOUS
<1>2. \A cap \in Nat : NewBuffer(cap) = [alloc |-> cap, data |-> <<>>, written |-> 0]
  BY DEF NewBuffer, Absent
<1>3. ASSUME NEW cap \in Nat PROVE Fits(NewBuffer(cap))
  <2> DEFINE b == [alloc |-> cap, data |-> <<>>, written |-> 0]
  <2>1. b \in Buffers
    BY <1>1 DEF Buffers
  <2>2. Fits(b)
    BY <1>1, <2>1 DEF Fits, Size
  <2> QED
    BY <1>2, <2>2
<1>4. Fits(Absent)
  BY <1>1 DEF Fits, Buffers, Absent
<1> QED
  BY <1>3, <1>4 DEF Fits

(* Each call computes the room in its own way, and leaves enough.          *)
LEMMA CallsFit ==
  ASSUME NEW b, Fits(b), NEW from, Fits(from)
  PROVE  /\ \A s \in Seq(STRING) : Fits(AppendBytes(b, s))
         /\ \A s \in Seq(STRING) : s # <<>> => Fits(AppendByte(b, Head(s)))
         /\ Fits(AppendBuffer(b, from))
         /\ Fits(CopyBuffer(b, from))
         /\ \A at \in Nat : Fits(CopyBufferAt(b, from, at))
         /\ Fits(CleanupBuffer(b))
<1>1. /\ b.alloc \in Nat /\ b.data \in Seq(STRING) /\ Len(b.data) \in Nat
      /\ b.alloc = 0 => b.data = <<>> /\ Len(b.data) = 0
      /\ b.alloc > 0 => Len(b.data) < b.alloc
  BY DEF Fits, Buffers, Size
<1>2. /\ from.alloc \in Nat /\ from.data \in Seq(STRING) /\ Len(from.data) \in Nat
      /\ from.alloc = 0 => Len(from.data) = 0
      /\ from.alloc > 0 => Len(from.data) < from.alloc
  BY DEF Fits, Buffers, Size
<1>3. \A s \in Seq(STRING) : b.data \o s \in Seq(STRING) /\ Len(b.data \o s) = Len(b.data) + Len(s)
                             /\ Len(s) \in Nat
  BY <1>1
<1>4. ASSUME NEW s \in Seq(STRING) PROVE Fits(AppendBytes(b, s))
  <2> DEFINE a == IF Len(s) >= Room(b) THEN b.alloc + Len(s) + 4 ELSE b.alloc
  <2>1. CASE s = <<>>
    BY <2>1 DEF AppendBytes
  <2>2. CASE s # <<>>
    <3>1. Len(s) > 0
      BY <2>2
    <3>2. a \in Nat /\ Len(b.data) + Len(s) < a
      BY <1>1, <1>3, <3>1 DEF Room, Size
    <3>3. Fits(Holding(a, b.data \o s))
      BY <1>3, <3>2, HoldingFits
    <3> QED
      BY <2>2, <3>3 DEF AppendBytes
  <2> QED
    BY <2>1, <2>2
<1>5. ASSUME NEW s \in Seq(STRING), s # <<>> PROVE Fits(AppendByte(b, Head(s)))
  <2> DEFINE a == IF Room(b) <= 1 THEN b.alloc + 4 ELSE b.alloc
             d == Append(b.data, Head(s))
  <2>1. Head(s) \in STRING
    BY <1>5
  <2>2. d \in Seq(STRING) /\ Len(d) = Len(b.data) + 1
    BY <1>1, <2>1
  <2>3. a \in Nat /\ Len(d) < a
    BY <1>1, <2>2 DEF Room, Size
  <2>4. Fits(Holding(a, d))
    BY <2>2, <2>3, HoldingFits
  <2> QED
    BY <2>4 DEF AppendByte
<1>6. Fits(AppendBuffer(b, from))
  <2> DEFINE a == IF Size(from) >= Room(b) THEN b.alloc + Size(from) + 4 ELSE b.alloc
  <2>1. CASE Size(from) = 0
    BY <2>1 DEF AppendBuffer
  <2>2. CASE Size(from) # 0
    <3>1. a \in Nat /\ Len(b.data) + Len(from.data) < a
      <4>1. \A x, y \in Nat, n \in Nat \ {0} :
              ((x = 0 => y = 0) /\ (x > 0 => y < x)) =>
                LET r == IF n >= x - y THEN x + n + 4 ELSE x IN r \in Nat /\ y + n < r
        OBVIOUS
      <4>2. Len(from.data) \in Nat \ {0}
        BY <1>2, <2>2 DEF Size
      <4> QED
        BY ONLY <1>1, <4>1, <4>2 DEF Room, Size
    <3>2. Fits(Holding(a, b.data \o from.data))
      BY <1>2, <1>3, <3>1, HoldingFits
    <3> QED
      BY <2>2, <3>2 DEF AppendBuffer
  <2> QED
    BY <2>1, <2>2
<1>7. Fits(CopyBuffer(b, from))
  <2> DEFINE a == IF b.alloc > Size(from) THEN b.alloc ELSE from.alloc
  <2>1. CASE Size(from) = 0
    BY <2>1, EmptiedFits DEF CopyBuffer
  <2>2. CASE Size(from) # 0
    <3>1. a \in Nat /\ Len(from.data) < a
      BY <1>1, <1>2, <2>2 DEF Size
    <3>2. Fits(Holding(a, from.data))
      BY <1>2, <3>1, HoldingFits
    <3> QED
      BY <2>2, <3>2 DEF CopyBuffer
  <2> QED
    BY <2>1, <2>2
<1>8. ASSUME NEW at \in Nat PROVE Fits(CopyBufferAt(b, from, at))
  <2> DEFINE n == Size(from) - at
             a == IF n < b.alloc THEN b.alloc ELSE n + 1
             d == SubSeq(from.data, at + 1, Size(from))
  <2>1. CASE n <= 0
    BY <2>1, EmptiedFits DEF CopyBufferAt
  <2>2. CASE ~(n <= 0)
    <3>1. d \in Seq(STRING) /\ Len(d) = n
      BY <1>2, <2>2 DEF Size
    <3>2. a \in Nat /\ Len(d) < a
      BY <1>1, <1>2, <2>2, <3>1 DEF Size
    <3>3. Fits(Holding(a, d))
      BY <3>1, <3>2, HoldingFits
    <3> QED
      BY <2>2, <3>3 DEF CopyBufferAt
  <2> QED
    BY <2>1, <2>2
<1>9. Fits(CleanupBuffer(b))
  <2>1. <<>> \in Seq(STRING) /\ Len(<<>>) = 0
    OBVIOUS
  <2>2. b.alloc > 0 => Fits(Holding(b.alloc, <<>>))
    BY <1>1, <2>1, HoldingFits
  <2> QED
    BY <2>2, AbsentFits DEF CleanupBuffer
<1> QED
  BY <1>4, <1>5, <1>6, <1>7, <1>8, <1>9

LEMMA BufferStarts == BufferInit => BufferInv
  BY AbsentFits DEF BufferInit, BufferInv, Fits

LEMMA LeavesFits ==
  ASSUME BufferInv, NEW n \in Names, NEW b, Fits(b), Leaves(n, b)
  PROVE  BufferInv'
  BY DEF BufferInv, Leaves, Fits

LEMMA BufferSteps == BufferInv /\ BufferNext => BufferInv'
<1> SUFFICES ASSUME BufferInv, BufferNext PROVE BufferInv'
  OBVIOUS
<1>1. \A n \in Names : Fits(buf[n])
  BY DEF BufferInv
<1>2. CASE Allocate
  <2>1. PICK n \in Names, cap \in Capacities : Leaves(n, NewBuffer(cap))
    BY <1>2 DEF Allocate
  <2> QED
    BY <2>1, AbsentFits, LeavesFits, EBufferAssumption
<1>3. CASE Receive
  <2>1. PICK n \in Names, s \in Pieces : Leaves(n, AppendBytes(buf[n], s))
    BY <1>3 DEF Receive
  <2> QED
    BY <1>1, <2>1, CallsFit, LeavesFits, EBufferAssumption
<1>4. CASE ReceiveByte
  <2>1. PICK n \in Names, s \in Pieces : s # <<>> /\ Leaves(n, AppendByte(buf[n], Head(s)))
    BY <1>4 DEF ReceiveByte
  <2> QED
    BY <1>1, <2>1, CallsFit, LeavesFits, EBufferAssumption
<1>5. CASE Join
  <2>1. PICK n, m \in Names : Leaves(n, AppendBuffer(buf[n], buf[m]))
    BY <1>5 DEF Join
  <2> QED
    BY <1>1, <2>1, CallsFit, LeavesFits
<1>6. CASE Copy
  <2>1. PICK n, m \in Names : Leaves(n, CopyBuffer(buf[n], buf[m]))
    BY <1>6 DEF Copy
  <2> QED
    BY <1>1, <2>1, CallsFit, LeavesFits
<1>7. CASE CopyAt
  <2>1. PICK n, m \in Names, at \in 0..MaxBuffer : Leaves(n, CopyBufferAt(buf[n], buf[m], at))
    BY <1>7 DEF CopyAt
  <2>2. at \in Nat
    BY EBufferAssumption
  <2> QED
    BY <1>1, <2>1, <2>2, CallsFit, LeavesFits
<1>8. CASE Clean
  <2>1. PICK n \in Names : Leaves(n, CleanupBuffer(buf[n]))
    BY <1>8 DEF Clean
  <2> QED
    BY <1>1, <2>1, CallsFit, LeavesFits
<1>9. CASE Release
  <2>1. PICK n \in Names : Leaves(n, Absent)
    BY <1>9 DEF Release, FreeBuffer, DestroyBuffer
  <2> QED
    BY <2>1, AbsentFits, LeavesFits
<1> QED
  BY <1>2, <1>3, <1>4, <1>5, <1>6, <1>7, <1>8, <1>9 DEF BufferNext

-----------------------------------------------------------------------------
(* Numbers that are read: an int whatever the text is.                     *)
LEMMA PowersPositive ==
  ASSUME NEW b \in Nat
  PROVE  2^b \in Nat /\ 2^b > 0
<1>1. IsFiniteSet(1 .. b) /\ Cardinality(1 .. b) = b
  BY FS_Interval
<1>2. IsFiniteSet(SUBSET (1 .. b)) /\ Cardinality(SUBSET (1 .. b)) = 2^b
  BY <1>1, FS_SUBSET
<1>3. Cardinality(SUBSET (1 .. b)) \in Nat
  BY <1>2, FS_CardinalityType
<1>4. Cardinality(SUBSET (1 .. b)) # 0
  BY <1>2, FS_EmptySet
<1> QED
  BY <1>2, <1>3, <1>4

LEMMA SignedInt ==
  ASSUME NEW b \in Nat \ {0}, NEW n \in Int
  PROVE  Signed(b, n) \in Int /\ 2^(b - 1) - 1 \in Int
<1>1. b - 1 \in Nat
  OBVIOUS
<1> DEFINE p == 2^(b - 1)
           q == 2^b
<1>2. p \in Nat /\ q \in Nat /\ q > 0
  BY <1>1, PowersPositive
<1> HIDE DEF p, q
<1>3. ((n + p) % q) - p \in Int /\ p - 1 \in Int
  BY <1>2
<1> QED
  BY <1>3 DEF Signed, p, q

LEMMA CodesInt == \A c \in DOMAIN CodeOf : CodeOf[c] \in Int
<1>1. DOMAIN Printable = 1 .. 95
  BY DEF Printable
<1>2. ASSUME NEW c \in DOMAIN CodeOf PROVE CodeOf[c] \in Int
  <2>1. CASE c \in {NUL, "\t", "\n", "\r"}
    <3>1. /\ NUL # "\t" /\ NUL # "\n" /\ NUL # "\r"
      BY DEF NUL
    <3> QED
      BY <2>1, <3>1 DEF CodeOf
  <2>2. CASE c \notin {NUL, "\t", "\n", "\r"}
    <3>1. c \in {Printable[i] : i \in DOMAIN Printable}
      BY <2>2 DEF CodeOf
    <3>2. PICK i \in DOMAIN Printable : Printable[i] = c
      BY <3>1
    <3>3. CodeOf[c] = 31 + i
      BY <3>2, CodeAssumption
    <3> QED
      BY <1>1, <3>3
  <2> QED
    BY <2>1, <2>2
<1> QED
  BY <1>2

(* A step of the number: what is read stays an int.                        *)
LEMMA NumberInt ==
  ASSUME NEW bits \in Nat \ {0}, NEW s, Len(s) \in Nat
  PROVE  SignedNumber(bits, s) \in Int
<1> DEFINE N == Len(s)
           start == [value |-> 0, ended |-> FALSE]
           Next1(v, d) == Signed(bits, v * 10 + d)
           most == 2^(bits - 1) - 1
           Taken(x, new) == IF new < 0 THEN [value |-> most, ended |-> TRUE]
                            ELSE [x EXCEPT !.value = new]
           Step(x, c) == CASE x.ended -> x
                           [] ~x.ended /\ IsDigit(c) -> Taken(x, Next1(x.value, CodeOf[c] - 48))
                           [] OTHER -> [x EXCEPT !.ended = TRUE]
           From(g, i) == CASE i = 0 -> start
                           [] i = 1 /\ s[1] \in {"-", "+"} -> start
                           [] OTHER -> Step(g[i - 1], s[i])
           Found == [value : Int, ended : BOOLEAN]
           Reached == {n \in Nat : \E g : g = [i \in 0 .. n |-> From(g, i)]}
<1>1. start \in Found
  OBVIOUS
<1>2. ASSUME NEW x \in Found, NEW c PROVE Step(x, c) \in Found
  <2>1. CASE IsDigit(c)
    <3> DEFINE new == Next1(x.value, CodeOf[c] - 48)
    <3>1. CodeOf[c] - 48 \in Int
      BY <2>1, CodesInt DEF IsDigit, Between
    <3>2. x.value * 10 + (CodeOf[c] - 48) \in Int
      BY <3>1
    <3>3. new \in Int /\ most \in Int
      BY <3>2, SignedInt
    <3> HIDE DEF new, most
    <3>4. Taken(x, new) \in Found
      BY <3>3
    <3> QED
      BY <2>1, <3>4 DEF new
  <2>2. CASE ~IsDigit(c)
    BY <2>2
  <2> QED
    BY <2>1, <2>2
<1> HIDE DEF start, Step, Found
<1>3. 0 \in Reached
  <2> DEFINE g == [i \in 0 .. 0 |-> start]
  <2>1. g = [i \in 0 .. 0 |-> From(g, i)]
    OBVIOUS
  <2> QED
    BY <2>1
<1>4. ASSUME NEW n \in Nat, n \in Reached PROVE n + 1 \in Reached
  <2>1. PICK g : g = [i \in 0 .. n |-> From(g, i)]
    BY <1>4
  <2> DEFINE h == [i \in 0 .. n + 1 |-> IF i <= n THEN g[i] ELSE From(g, i)]
  <2>2. ASSUME NEW i \in 0 .. n + 1 PROVE h[i] = From(h, i)
    <3>1. i # 0 => i - 1 \in 0 .. n + 1 /\ i - 1 \in 0 .. n
      OBVIOUS
    <3>2. i # 0 => h[i - 1] = g[i - 1]
      BY <3>1
    <3>3. From(h, i) = From(g, i)
      <4> HIDE DEF h
      <4>1. CASE i = 0
        BY <4>1
      <4>2. CASE i # 0
        BY <3>2, <4>2
      <4> QED
        BY <4>1, <4>2
    <3>4. i <= n => g[i] = From(g, i)
      <4>1. i <= n => i \in 0 .. n
        OBVIOUS
      <4> HIDE DEF From
      <4> QED
        BY <2>1, <4>1
    <3>5. h[i] = IF i <= n THEN g[i] ELSE From(g, i)
      OBVIOUS
    <3> HIDE DEF From, h
    <3> QED
      BY <3>3, <3>4, <3>5
  <2>3. h = [i \in 0 .. n + 1 |-> h[i]]
    OBVIOUS
  <2> HIDE DEF h, From
  <2>4. h = [i \in 0 .. n + 1 |-> From(h, i)]
    BY <2>2, <2>3
  <2> QED
    BY <2>4
<1> HIDE DEF Reached
<1>5. N \in Reached
  BY <1>3, <1>4, Induction
<1>6. \E g : g = [i \in 0 .. N |-> From(g, i)]
  BY <1>5 DEF Reached
<1> DEFINE read == CHOOSE g : g = [i \in 0 .. N |-> From(g, i)]
<1>7. read = [i \in 0 .. N |-> From(read, i)]
  BY <1>6
<1>8. SignedNumber(bits, s) = (IF s # <<>> /\ s[1] = "-" THEN -1 ELSE 1) * read[N].value
  BY DEF SignedNumber, Number, Step, start
<1> HIDE DEF read
<1> DEFINE Typed == {n \in Nat : n <= N => read[n] \in Found}
<1>9. 0 \in Typed
  BY <1>1, <1>7
<1>10. ASSUME NEW n \in Nat, n \in Typed PROVE n + 1 \in Typed
  <2>1. ASSUME n + 1 <= N PROVE read[n + 1] \in Found
    <3>1. n + 1 \in 0 .. N /\ (n + 1) - 1 = n /\ n <= N
      BY <2>1
    <3>2. read[n + 1] = From(read, n + 1)
      BY <1>7, <3>1
    <3> QED
      BY <1>1, <1>2, <1>10, <3>1, <3>2
  <2> QED
    BY <2>1
<1> HIDE DEF Typed
<1>11. N \in Typed
  BY <1>9, <1>10, Induction
<1>12. read[N].value \in Int
  BY <1>11 DEF Typed, Found
<1> QED
  BY <1>8, <1>12

(* The map of cpus keeps an entry for every worker.                        *)
CpusetFields == {"st", "base", "pidx", "cpuid", "map"}
MapOf(x, n) == /\ x = [f \in CpusetFields |-> x[f]]
               /\ x.map = [i \in 1 .. n |-> x.map[i]]

LEMMA CpusetCharKeeps ==
  ASSUME NEW n \in Nat, NEW x, MapOf(x, n), NEW c
  PROVE  MapOf(CpusetChar(x, c), n)
<1> DEFINE Put == [x.map EXCEPT ![x.pidx] = x.cpuid]
<1>1. Put = [i \in 1 .. n |-> Put[i]]
  BY DEF MapOf
<1> HIDE DEF Put
<1>2. ASSUME NEW m, m = [i \in 1 .. n |-> m[i]], NEW p, NEW b, NEW u, NEW st
      PROVE  MapOf([x EXCEPT !.map = m, !.base = b, !.pidx = p, !.cpuid = u, !.st = st], n)
  BY <1>2 DEF MapOf, CpusetFields
<1>3. \A p, b : MapOf([x EXCEPT !.pidx = p, !.base = b], n)
  BY DEF MapOf, CpusetFields
<1>4. \A b, t : MapOf([x EXCEPT !.base = b, !.st = t], n)
  BY DEF MapOf, CpusetFields
<1>5. \A u, b, t : MapOf([x EXCEPT !.cpuid = u, !.base = b, !.st = t], n)
  BY DEF MapOf, CpusetFields
<1>6. \A t : MapOf([x EXCEPT !.st = t], n)
  BY DEF MapOf, CpusetFields
<1> DEFINE blank == c \in {" ", "\t"}
           stored == [x EXCEPT !.map = IF x.pidx \in DOMAIN @ THEN [@ EXCEPT ![x.pidx] = x.cpuid] ELSE @,
                               !.base = 1, !.pidx = 0, !.cpuid = 0,
                               !.st = IF blank THEN "PIDX" ELSE "JUMP"]
<1>7. MapOf(stored, n)
  <2> DEFINE m == IF x.pidx \in DOMAIN x.map THEN Put ELSE x.map
  <2>1. m = [i \in 1 .. n |-> m[i]]
    BY <1>1 DEF MapOf
  <2>2. stored = [x EXCEPT !.map = m, !.base = 1, !.pidx = 0, !.cpuid = 0,
                           !.st = IF blank THEN "PIDX" ELSE "JUMP"]
    BY DEF Put
  <2> HIDE DEF m, stored
  <2> QED
    BY <1>2, <2>1, <2>2
<1> DEFINE b == x.base * 10
           p == x.pidx * x.base + HexOf(c)
           u == x.cpuid * x.base + HexOf(c)
<1>8. CpusetChar(x, c) =
        CASE x.st = "PIDX" /\ IsDigit(c) -> [x EXCEPT !.pidx = p, !.base = b]
          [] x.st = "PIDX" /\ c = ":" -> [x EXCEPT !.base = 1, !.st = "COLON"]
          [] x.st = "COLON" /\ IsDigit(c) -> [x EXCEPT !.cpuid = u, !.base = b, !.st = "PIDX"]
          [] x.st = "JUMP" -> IF blank THEN [x EXCEPT !.st = "PIDX"] ELSE x
          [] OTHER -> stored
  BY DEF CpusetChar
<1> HIDE DEF stored, blank, b, p, u
<1>9. /\ MapOf([x EXCEPT !.pidx = p, !.base = b], n)
      /\ MapOf([x EXCEPT !.base = 1, !.st = "COLON"], n)
      /\ MapOf([x EXCEPT !.cpuid = u, !.base = b, !.st = "PIDX"], n)
      /\ MapOf([x EXCEPT !.st = "PIDX"], n)
  BY <1>3, <1>4, <1>5, <1>6
<1> QED
  BY <1>7, <1>8, <1>9

LEMMA CpusetMaps ==
  ASSUME NEW n \in Nat, NEW s, Len(s) \in Nat
  PROVE  Len(CpusetParse(s, n)) = n
<1> DEFINE N == Len(s)
           start == [st |-> "PIDX", base |-> 1, pidx |-> 0, cpuid |-> 0, map |-> [i \in 1..n |-> 0]]
           From(g, i) == IF i = 0 THEN start ELSE CpusetChar(g[i - 1], s[i])
           Reached == {k \in Nat : \E g : g = [i \in 0 .. k |-> From(g, i)]}
<1>1. MapOf(start, n)
  BY DEF MapOf, CpusetFields
<1> HIDE DEF start
<1>2. 0 \in Reached
  <2> DEFINE g == [i \in 0 .. 0 |-> start]
  <2>1. g = [i \in 0 .. 0 |-> From(g, i)]
    OBVIOUS
  <2> QED
    BY <2>1
<1>3. ASSUME NEW k \in Nat, k \in Reached PROVE k + 1 \in Reached
  <2>1. PICK g : g = [i \in 0 .. k |-> From(g, i)]
    BY <1>3
  <2> DEFINE h == [i \in 0 .. k + 1 |-> IF i <= k THEN g[i] ELSE From(g, i)]
  <2>2. ASSUME NEW i \in 0 .. k + 1 PROVE h[i] = From(h, i)
    <3>1. i # 0 => i - 1 \in 0 .. k + 1 /\ i - 1 <= k
      OBVIOUS
    <3>2. i # 0 => h[i - 1] = g[i - 1]
      BY <3>1
    <3>3. From(h, i) = From(g, i)
      <4> HIDE DEF h
      <4>1. CASE i = 0
        BY <4>1
      <4>2. CASE i # 0
        BY <3>2, <4>2
      <4> QED
        BY <4>1, <4>2
    <3>4. i <= k => g[i] = From(g, i)
      <4>1. i <= k => i \in 0 .. k
        OBVIOUS
      <4> HIDE DEF From
      <4> QED
        BY <2>1, <4>1
    <3>5. h[i] = IF i <= k THEN g[i] ELSE From(g, i)
      OBVIOUS
    <3> HIDE DEF From, h
    <3> QED
      BY <3>3, <3>4, <3>5
  <2>3. h = [i \in 0 .. k + 1 |-> h[i]]
    OBVIOUS
  <2> HIDE DEF h, From
  <2>4. h = [i \in 0 .. k + 1 |-> From(h, i)]
    BY <2>2, <2>3
  <2> QED
    BY <2>4
<1> HIDE DEF Reached
<1>4. N \in Reached
  BY <1>2, <1>3, Induction
<1>5. PICK g0 : g0 = [i \in 0 .. N |-> From(g0, i)]
  BY <1>4 DEF Reached
<1>6. PICK read : read = [i \in 0 .. N |-> From(read, i)] /\ CpusetParse(s, n) = read[N].map
  BY <1>5 DEF CpusetParse, start
<1> DEFINE Typed == {k \in Nat : k <= N => MapOf(read[k], n)}
<1>7. 0 \in Typed
  BY <1>1, <1>6
<1>8. ASSUME NEW k \in Nat, k \in Typed PROVE k + 1 \in Typed
  <2>1. ASSUME k + 1 <= N PROVE MapOf(read[k + 1], n)
    <3>1. k + 1 \in 0 .. N /\ (k + 1) - 1 = k /\ k <= N /\ k + 1 # 0
      BY <2>1
    <3>2. read[k + 1] = CpusetChar(read[k], s[k + 1])
      BY <1>6, <3>1
    <3> QED
      BY <1>8, <3>1, <3>2, CpusetCharKeeps
  <2> QED
    BY <2>1
<1> HIDE DEF Typed
<1>9. N \in Typed
  BY <1>7, <1>8, Induction
<1> DEFINE m == read[N].map
<1>10. m = [i \in 1 .. n |-> m[i]]
  BY <1>9 DEF Typed, MapOf
<1> HIDE DEF m
<1>11. Len(m) = n
  BY <1>10
<1> QED
  BY <1>6, <1>11 DEF m

(* The last part that has a field counts.                                  *)
LEMMA LastCounts ==
  ASSUME NEW parts, NEW i \in DOMAIN parts, NEW key \in DOMAIN parts[i],
         \A j \in DOMAIN parts : j > i => key \notin DOMAIN parts[j], DOMAIN parts \subseteq Int
  PROVE  key \in DOMAIN Stored(parts) /\ Stored(parts)[key] = parts[i][key]
<1> DEFINE Counted(k) == /\ key \in DOMAIN parts[k]
                         /\ \A j \in DOMAIN parts : j > k => key \notin DOMAIN parts[j]
           last == CHOOSE k \in DOMAIN parts : Counted(k)
<1>1. Counted(i)
  OBVIOUS
<1>2. ASSUME NEW k \in DOMAIN parts, Counted(k) PROVE k = i
  BY <1>1, <1>2
<1>3. last = i
  <2> HIDE DEF Counted
  <2> QED
    BY <1>1, <1>2
<1>4. key \in UNION {DOMAIN parts[k] : k \in DOMAIN parts}
  OBVIOUS
<1>5. Stored(parts)[key] = parts[last][key] /\ key \in DOMAIN Stored(parts)
  BY <1>4, Zenon DEF Stored
<1> QED
  BY <1>3, <1>5

(* Which part each number comes from.                                      *)
Numeric ==
  {"worker_n", "worker_task_n", "rlimit_nofile", "backlog", "max_connections", "timeout",
   "keepalive", "header_cache_size", "body_cache_size", "url_max_size", "header_max_size",
   "body_max_size", "log_max_size"}

LEMMA NumbersTaken ==
  ASSUME NEW g
  PROVE  /\ Numeric \cup {"log_level", "cpuset"} \subseteq DOMAIN AttrsInit(g)
         /\ \A key \in {"worker_n", "worker_task_n", "rlimit_nofile"} :
              AttrsInit(g)[key] = Workers(g)[key]
         /\ \A key \in {"backlog", "max_connections"} : AttrsInit(g)[key] = Connections(g)[key]
         /\ \A key \in {"timeout", "keepalive"} : AttrsInit(g)[key] = Patience(g)[key]
         /\ AttrsInit(g).url_max_size = Sizes(g).url_max_size
         /\ AttrsInit(g).header_cache_size = HeaderMaxSize(g).header_cache_size
         /\ AttrsInit(g).body_cache_size = BodyMaxSize(g).body_cache_size
         /\ AttrsInit(g).log_max_size = LogMaxSize(g).log_max_size
         /\ AttrsInit(g).log_level = LogLevel(g).log_level
         /\ \A key \in {"header_max_size", "body_max_size"} : AttrsInit(g)[key] = Defaults[key]
         /\ AttrsInit(g).cpuset = Cpuset(g, Workers(g).worker_n).cpuset
<1> DEFINE parts ==
             <<Defaults, User(g), Pidfile(g), Flags(g), LogLevel(g), Workers(g),
               Cpuset(g, Workers(g).worker_n), Listen(g), Connections(g), AdminListen(g), EventType(g),
               Patience(g), Sizes(g), HeaderMaxSize(g), BodyMaxSize(g), LogMaxSize(g), LogPath(g),
               DocRoot(g)>>
           fields ==
             <<Numeric \cup {"log_level", "cpuset"}, {"user", "group"}, {"pidfile"},
               {"daemon", "tcp_nodelay", "tcp_nopush"}, {"log_level"},
               {"worker_n", "worker_task_n", "rlimit_nofile"}, {"cpuset", "cpuset_enable"},
               {"listen"}, {"backlog", "max_connections"}, {"admin_listen"}, {"event_iot"},
               {"timeout", "keepalive"},
               {"send_buffer_size", "recv_buffer_size", "header_cache_size", "url_max_size",
                "body_cache_size"},
               {"header_cache_size"}, {"body_cache_size"}, {"log_max_size"}, {"log_path"}, {"doc_root"}>>
<1>1. /\ DOMAIN User(g) = {"user", "group"} /\ DOMAIN Pidfile(g) = {"pidfile"}
      /\ DOMAIN Flags(g) = {"daemon", "tcp_nodelay", "tcp_nopush"} /\ DOMAIN LogLevel(g) = {"log_level"}
  BY DEF User, Pidfile, Flags, LogLevel
<1>2. /\ DOMAIN Workers(g) = {"worker_n", "worker_task_n", "rlimit_nofile"}
      /\ DOMAIN Connections(g) = {"backlog", "max_connections"}
      /\ DOMAIN Patience(g) = {"timeout", "keepalive"}
      /\ DOMAIN Sizes(g) = {"send_buffer_size", "recv_buffer_size", "header_cache_size", "url_max_size",
                            "body_cache_size"}
  BY DEF Workers, Connections, Patience, Sizes, Counts
<1>3. \A n : DOMAIN Cpuset(g, n) = {"cpuset", "cpuset_enable"}
  BY DEF Cpuset
<1>4. /\ DOMAIN Listen(g) = {"listen"} /\ DOMAIN AdminListen(g) = {"admin_listen"}
      /\ DOMAIN EventType(g) = {"event_iot"}
  BY DEF Listen, AdminListen, EventType
<1>5. /\ DOMAIN HeaderMaxSize(g) = {"header_cache_size"} /\ DOMAIN BodyMaxSize(g) = {"body_cache_size"}
      /\ DOMAIN LogMaxSize(g) = {"log_max_size"} /\ DOMAIN LogPath(g) = {"log_path"}
      /\ DOMAIN DocRoot(g) = {"doc_root"}
  BY DEF HeaderMaxSize, BodyMaxSize, LogMaxSize, LogPath, DocRoot
<1>6. Numeric \cup {"log_level", "cpuset"} \subseteq DOMAIN Defaults
  BY DEF Numeric, Defaults
<1>7. DOMAIN parts = 1 .. 18
  OBVIOUS
<1>8. AttrsInit(g) = Stored(parts)
  BY DEF AttrsInit
<1>9. \A i \in 2 .. 18 : DOMAIN parts[i] = fields[i]
  <2>1. /\ DOMAIN parts[2] = fields[2] /\ DOMAIN parts[3] = fields[3]
        /\ DOMAIN parts[4] = fields[4] /\ DOMAIN parts[5] = fields[5]
        /\ DOMAIN parts[6] = fields[6] /\ DOMAIN parts[7] = fields[7]
        /\ DOMAIN parts[8] = fields[8] /\ DOMAIN parts[9] = fields[9]
        /\ DOMAIN parts[10] = fields[10] /\ DOMAIN parts[11] = fields[11]
        /\ DOMAIN parts[12] = fields[12] /\ DOMAIN parts[13] = fields[13]
        /\ DOMAIN parts[14] = fields[14] /\ DOMAIN parts[15] = fields[15]
        /\ DOMAIN parts[16] = fields[16] /\ DOMAIN parts[17] = fields[17]
        /\ DOMAIN parts[18] = fields[18]
    BY <1>1, <1>2, <1>3, <1>4, <1>5
  <2>2. \A i \in 2 .. 18 : \/ i \in {2, 3, 4, 5, 6, 7, 8, 9, 10}
                           \/ i \in {11, 12, 13, 14, 15, 16, 17, 18}
    OBVIOUS
  <2> HIDE DEF parts, fields
  <2> QED
    BY <2>1, <2>2
<1>10. /\ parts[1] = Defaults /\ parts[5] = LogLevel(g) /\ parts[6] = Workers(g)
       /\ parts[7] = Cpuset(g, Workers(g).worker_n) /\ parts[9] = Connections(g)
       /\ parts[12] = Patience(g) /\ parts[13] = Sizes(g) /\ parts[14] = HeaderMaxSize(g)
       /\ parts[15] = BodyMaxSize(g) /\ parts[16] = LogMaxSize(g)
  OBVIOUS
<1> HIDE DEF parts
<1>11. ASSUME NEW i \in 2 .. 18, NEW key \in fields[i], \A j \in 2 .. 18 : j > i => key \notin fields[j]
       PROVE  key \in DOMAIN AttrsInit(g) /\ AttrsInit(g)[key] = parts[i][key]
  <2>1. i \in 1 .. 18 /\ key \in DOMAIN parts[i] /\ \A j \in 1 .. 18 : j > i => key \notin DOMAIN parts[j]
    <3> HIDE DEF fields
    <3> QED
      BY <1>9, <1>11
  <2>2. /\ i \in DOMAIN parts /\ key \in DOMAIN parts[i] /\ DOMAIN parts \subseteq Int
        /\ \A j \in DOMAIN parts : j > i => key \notin DOMAIN parts[j]
    BY ONLY <1>7, <2>1
  <2>3. key \in DOMAIN Stored(parts) /\ Stored(parts)[key] = parts[i][key]
    BY ONLY <2>2, LastCounts, Zenon
  <2> QED
    BY <1>8, <2>3
<1>12. ASSUME NEW key \in DOMAIN Defaults, \A j \in 2 .. 18 : key \notin fields[j]
       PROVE  key \in DOMAIN AttrsInit(g) /\ AttrsInit(g)[key] = Defaults[key]
  <2>1. 1 \in 1 .. 18 /\ key \in DOMAIN parts[1] /\ \A j \in 1 .. 18 : j > 1 => key \notin DOMAIN parts[j]
    <3> HIDE DEF fields
    <3> QED
      BY <1>9, <1>10, <1>12
  <2>2. /\ 1 \in DOMAIN parts /\ key \in DOMAIN parts[1] /\ DOMAIN parts \subseteq Int
        /\ \A j \in DOMAIN parts : j > 1 => key \notin DOMAIN parts[j]
    BY ONLY <1>7, <2>1
  <2>3. key \in DOMAIN Stored(parts) /\ Stored(parts)[key] = parts[1][key]
    BY ONLY <2>2, LastCounts, SMT
  <2> QED
    BY <1>8, <1>10, <2>3
<1>13. ASSUME NEW key \in {"worker_n", "worker_task_n", "rlimit_nofile"}
       PROVE  key \in DOMAIN AttrsInit(g) /\ AttrsInit(g)[key] = Workers(g)[key]
  BY <1>10, <1>11
<1>14. ASSUME NEW key \in {"backlog", "max_connections"}
       PROVE  key \in DOMAIN AttrsInit(g) /\ AttrsInit(g)[key] = Connections(g)[key]
  BY <1>10, <1>11
<1>15. ASSUME NEW key \in {"timeout", "keepalive"}
       PROVE  key \in DOMAIN AttrsInit(g) /\ AttrsInit(g)[key] = Patience(g)[key]
  BY <1>10, <1>11
<1>16. "url_max_size" \in DOMAIN AttrsInit(g) /\ AttrsInit(g).url_max_size = Sizes(g).url_max_size
  BY <1>10, <1>11
<1>17. "header_cache_size" \in DOMAIN AttrsInit(g)
       /\ AttrsInit(g).header_cache_size = HeaderMaxSize(g).header_cache_size
  BY <1>10, <1>11
<1>18. "body_cache_size" \in DOMAIN AttrsInit(g)
       /\ AttrsInit(g).body_cache_size = BodyMaxSize(g).body_cache_size
  BY <1>10, <1>11
<1>19. "log_max_size" \in DOMAIN AttrsInit(g) /\ AttrsInit(g).log_max_size = LogMaxSize(g).log_max_size
  BY <1>10, <1>11
<1>20. "log_level" \in DOMAIN AttrsInit(g) /\ AttrsInit(g).log_level = LogLevel(g).log_level
  BY <1>10, <1>11
<1>21. "cpuset" \in DOMAIN AttrsInit(g)
       /\ AttrsInit(g).cpuset = Cpuset(g, Workers(g).worker_n).cpuset
  BY <1>10, <1>11
<1>22. ASSUME NEW key \in {"header_max_size", "body_max_size"}
       PROVE  key \in DOMAIN AttrsInit(g) /\ AttrsInit(g)[key] = Defaults[key]
  <2>1. key \in DOMAIN Defaults
    BY <1>6 DEF Numeric
  <2> QED
    BY <1>12, <2>1
<1> HIDE DEF fields
<1> QED
  BY <1>13, <1>14, <1>15, <1>16, <1>17, <1>18, <1>19, <1>20, <1>21, <1>22 DEF Numeric

LEMMA CountsAbove ==
  ASSUME NEW g, NEW key, NEW default \in Nat \ {0}
  PROVE  CountOf(g, key, default) > 0 /\ SizeOf(g, key, default) > 0
  BY DEF CountOf, SizeOf

LEMMA DefaultsAbove == \A key \in Numeric : Defaults[key] \in Nat \ {0}
  BY DEF Numeric, Defaults

(* The answers may be any texts: a number that is none, or none above 0,   *)
(* leaves the default.                                                     *)
LEMMA AnswersUsable ==
  ASSUME NEW g \in Answers
  PROVE  LET a == AttrsInit(g)
         IN /\ \A key \in Numeric : a[key] > 0
            /\ a.log_level \in 0 .. 9
            /\ Len(a.cpuset) = a.worker_n
<1> DEFINE a == AttrsInit(g)
<1> HIDE DEF a
<1>1. ASSUME NEW key \in OptionNames PROVE g[key].value \in Seq(STRING) /\ Len(g[key].value) \in Nat
  BY DEF Answers
<1>2. \A key \in {"worker_n", "worker_task_n", "rlimit_nofile"} :
        Workers(g)[key] = CountOf(g, key, Defaults[key])
  BY DEF Workers, Counts
<1>3. \A key \in {"backlog", "max_connections"} : Connections(g)[key] = CountOf(g, key, Defaults[key])
  BY DEF Connections, Counts
<1>4. \A key \in {"timeout", "keepalive"} : Patience(g)[key] = CountOf(g, key, Defaults[key])
  BY DEF Patience, Counts
<1>5. \A key \in {"header_cache_size", "url_max_size", "body_cache_size"} :
        Sizes(g)[key] = SizeOf(g, key, Defaults[key])
  BY DEF Sizes
<1>6. Workers(g).worker_n \in Nat \ {0}
  <2> DEFINE n == SignedNumber(IntBits, g["worker_n"].value)
  <2>1. "worker_n" \in OptionNames /\ IntBits \in Nat \ {0}
    BY EStringAssumption DEF OptionNames
  <2>2. n \in Int
    BY <1>1, <2>1, NumberInt
  <2>3. Defaults["worker_n"] \in Nat \ {0}
    BY DefaultsAbove DEF Numeric
  <2>4. Workers(g).worker_n = IF Given(g, "worker_n") /\ n > 0 THEN n ELSE Defaults["worker_n"]
    BY <1>2 DEF CountOf
  <2> HIDE DEF n
  <2> QED
    BY <2>2, <2>3, <2>4
<1>7. ASSUME NEW key \in Numeric PROVE a[key] > 0
  <2>0. Defaults[key] \in Nat \ {0}
    BY DefaultsAbove
  <2>1. CASE key \in {"worker_n", "worker_task_n", "rlimit_nofile"}
    <3>1. a[key] = CountOf(g, key, Defaults[key])
      BY <1>2, <2>1, NumbersTaken DEF a
    <3> QED
      BY <2>0, <3>1, CountsAbove
  <2>2. CASE key \in {"backlog", "max_connections"}
    <3>1. a[key] = CountOf(g, key, Defaults[key])
      BY <1>3, <2>2, NumbersTaken DEF a
    <3> QED
      BY <2>0, <3>1, CountsAbove
  <2>3. CASE key \in {"timeout", "keepalive"}
    <3>1. a[key] = CountOf(g, key, Defaults[key])
      BY <1>4, <2>3, NumbersTaken DEF a
    <3> QED
      BY <2>0, <3>1, CountsAbove
  <2>4. CASE key = "url_max_size"
    <3>1. a[key] = SizeOf(g, key, Defaults[key])
      BY <1>5, <2>4, NumbersTaken DEF a
    <3> QED
      BY <2>0, <3>1, CountsAbove
  <2>5. CASE key = "header_cache_size"
    <3> DEFINE d == Sizes(g).header_cache_size
    <3>1. d = SizeOf(g, "header_cache_size", Defaults["header_cache_size"])
      BY <1>5
    <3>2. a[key] = SizeOf(g, "header_max_size", d)
      BY <2>5, NumbersTaken DEF a, HeaderMaxSize
    <3> HIDE DEF d
    <3>3. d > 0
      BY <2>0, <2>5, <3>1, CountsAbove
    <3> QED
      BY <3>2, <3>3 DEF SizeOf
  <2>6. CASE key = "body_cache_size"
    <3> DEFINE d == Sizes(g).body_cache_size
    <3>1. d = SizeOf(g, "body_cache_size", Defaults["body_cache_size"])
      BY <1>5
    <3>2. a[key] = SizeOf(g, "body_max_size", d)
      BY <2>6, NumbersTaken DEF a, BodyMaxSize
    <3> HIDE DEF d
    <3>3. d > 0
      BY <2>0, <2>6, <3>1, CountsAbove
    <3> QED
      BY <3>2, <3>3 DEF SizeOf
  <2>7. CASE key = "log_max_size"
    <3>1. a[key] = SizeOf(g, "log_max_size", Defaults["log_max_size"])
      BY <2>7, NumbersTaken DEF a, LogMaxSize
    <3> QED
      BY <2>0, <2>7, <3>1, CountsAbove
  <2>8. CASE key \in {"header_max_size", "body_max_size"}
    <3>1. a[key] = Defaults[key]
      BY <2>8, NumbersTaken DEF a
    <3> QED
      BY <2>0, <3>1
  <2> QED
    BY <2>1, <2>2, <2>3, <2>4, <2>5, <2>6, <2>7, <2>8 DEF Numeric
<1>8. a.log_level \in 0 .. 9
  <2>1. a.log_level = LogLevel(g).log_level
    BY NumbersTaken DEF a
  <2>2. Defaults.log_level \in 0 .. 9
    BY DEF Defaults
  <2> QED
    BY <2>1, <2>2 DEF LogLevel
<1>9. Len(a.cpuset) = a.worker_n
  <2>1. a.worker_n = Workers(g).worker_n
    BY NumbersTaken DEF a
  <2>2. a.cpuset = CpusetParse(g["cpuset"].value, Workers(g).worker_n)
    BY NumbersTaken DEF a, Cpuset
  <2>3. Len(g["cpuset"].value) \in Nat
    BY <1>1 DEF OptionNames
  <2>4. Workers(g).worker_n \in Nat
    BY <1>6
  <2>5. Len(CpusetParse(g["cpuset"].value, Workers(g).worker_n)) = Workers(g).worker_n
    BY <2>3, <2>4, CpusetMaps
  <2> QED
    BY <2>1, <2>2, <2>5
<1> QED
  BY <1>7, <1>8, <1>9 DEF a

(* The inductive invariant: the options are the defaults, or usable with   *)
(* every field there is.                                                   *)
OptionsInv ==
  attrs # Defaults =>
    /\ Numeric \cup {"log_level", "cpuset"} \subseteq DOMAIN attrs
    /\ OptionsUsable

LEMMA GivenUpUsable ==
  ASSUME NEW a, Numeric \cup {"log_level", "cpuset"} \subseteq DOMAIN a
  PROVE  LET b == AttrsDestroy(a)
         IN /\ DOMAIN b = DOMAIN a
            /\ \A key \in Numeric \cup {"log_level"} : b[key] = a[key]
            /\ b.cpuset = <<>>
<1> DEFINE b == AttrsDestroy(a)
<1>1. DOMAIN b = DOMAIN a
  BY DEF AttrsDestroy
<1>2. \A key \in DOMAIN a : b[key] = IF key \in {"user", "group", "pidfile", "listen", "admin_listen",
                                                "log_path", "doc_root", "cpuset"}
                                     THEN <<>> ELSE a[key]
  BY DEF AttrsDestroy
<1> HIDE DEF b
<1>3. \A key \in Numeric \cup {"log_level"} : key \notin {"user", "group", "pidfile", "listen",
                                                "admin_listen", "log_path", "doc_root", "cpuset"}
  BY DEF Numeric
<1>4. \A key \in Numeric \cup {"log_level"} : b[key] = a[key]
  BY <1>2, <1>3
<1>5. b.cpuset = <<>>
  BY <1>2
<1> QED
  BY <1>1, <1>4, <1>5 DEF b

(* Whatever a configuration answers for the options, and whatever --prefix *)
(* is, the counts, limits and sizes the server starts with are above 0,    *)
(* but for those of the socket buffers, also when they are given up, and   *)
(* the map of cpus has an entry for each worker.                           *)
THEOREM OptionsAreUsable == OptionsSpec => []OptionsUsable
<1>1. Loading => OptionsInv
  BY DEF Loading, OptionsInv
<1>2. ASSUME OptionsInv, [(\E g \in Answers : Take(g)) \/ GiveUp]_attrs PROVE OptionsInv'
  <2>1. CASE \E g \in Answers : Take(g)
    <3>1. PICK g \in Answers : attrs' = AttrsInit(g)
      BY <2>1 DEF Take
    <3>2. /\ \A key \in Numeric : attrs'[key] > 0
          /\ attrs'.log_level \in 0 .. 9
          /\ Len(attrs'.cpuset) = attrs'.worker_n
      BY <3>1, AnswersUsable
    <3>3. Numeric \cup {"log_level", "cpuset"} \subseteq DOMAIN attrs'
      BY <3>1, NumbersTaken
    <3> QED
      BY <3>2, <3>3 DEF OptionsInv, OptionsUsable, Numeric
  <2>2. CASE GiveUp
    <3>1. attrs # Defaults /\ attrs' = AttrsDestroy(attrs)
      BY <2>2 DEF GiveUp, Loading
    <3>2. Numeric \cup {"log_level", "cpuset"} \subseteq DOMAIN attrs /\ OptionsUsable
      BY <1>2, <3>1 DEF OptionsInv
    <3>3. /\ DOMAIN attrs' = DOMAIN attrs
          /\ \A key \in Numeric \cup {"log_level"} : attrs'[key] = attrs[key]
          /\ attrs'.cpuset = <<>>
      BY <3>1, <3>2, GivenUpUsable
    <3>4. (\A key \in Numeric : attrs[key] > 0) /\ attrs.log_level \in 0 .. 9
      BY <3>1, <3>2 DEF OptionsUsable, Numeric
    <3>5. (\A key \in Numeric : attrs'[key] > 0) /\ attrs'.log_level \in 0 .. 9
      BY <3>3, <3>4
    <3> QED
      BY <3>2, <3>3, <3>5 DEF OptionsInv, OptionsUsable, Numeric
  <2>3. CASE UNCHANGED attrs
    BY <1>2, <2>3 DEF OptionsInv, OptionsUsable
  <2> QED
    BY <1>2, <2>1, <2>2, <2>3
<1>3. OptionsInv => OptionsUsable
  BY DEF OptionsInv, OptionsUsable
<1> QED
  BY <1>1, <1>2, <1>3, PTL DEF OptionsSpec
-----------------------------------------------------------------------------
(* Strings.  What a string that is in order looks like: a text without a   *)
(* NUL, in an allocation with room for one behind it, and NULs to the end. *)
Laid(a, t) == [i \in 1 .. a |-> IF i <= Len(t) THEN t[i] ELSE NUL]
Held(a, t) == [alloc |-> a, size |-> Len(t), bytes |-> Laid(a, t)]
InOrder(e) == \E a \in Nat, t \in Seq(Chars) : Len(t) < a /\ e = Held(a, t)
Good(e) == e = NoString \/ InOrder(e)

LEMMA TextFacts ==
  ASSUME NEW t \in Seq(Chars)
  PROVE  /\ Len(t) \in Nat /\ DOMAIN t = 1 .. Len(t)
         /\ \A i \in 1 .. Len(t) : t[i] \in Chars /\ t[i] # NUL
<1>1. \A i \in 1 .. Len(t) : t[i] \in Chars
  OBVIOUS
<1>2. NUL \notin Chars
  BY DEF Chars
<1> QED
  BY <1>1, <1>2

LEMMA MakeText ==
  ASSUME NEW n \in Nat, NEW f, f = [i \in 1 .. n |-> f[i]], \A i \in 1 .. n : f[i] \in Chars
  PROVE  f \in Seq(Chars) /\ Len(f) = n
<1>1. f \in [1 .. n -> Chars]
  BY Zenon
<1> QED
  BY <1>1

LEMMA HeldFields ==
  ASSUME NEW a \in Nat, NEW t \in Seq(Chars)
  PROVE  /\ Held(a, t).alloc = a /\ Held(a, t).size = Len(t) /\ Held(a, t).bytes = Laid(a, t)
         /\ Len(Held(a, t).bytes) = a /\ Held(a, t).bytes \in Seq(DOMAIN CodeOf)
         /\ a > 0 => Held(a, t) # NoString /\ StrCount(Held(a, t)) = a - 1 /\ StrCapacity(Held(a, t)) = a - 1 - Len(t)
         /\ \A i \in 1 .. a : Held(a, t).bytes[i] = IF i <= Len(t) THEN t[i] ELSE NUL
<1> DEFINE e == Held(a, t)
<1>1. e.alloc = a /\ e.size = Len(t) /\ e.bytes = Laid(a, t)
  BY DEF Held
<1>2. Laid(a, t) = [i \in 1 .. a |-> IF i <= Len(t) THEN t[i] ELSE NUL]
  BY DEF Laid
<1>3. ASSUME NEW i \in 1 .. a PROVE (IF i <= Len(t) THEN t[i] ELSE NUL) \in DOMAIN CodeOf
  <2>1. Len(t) \in Nat /\ (i <= Len(t) => t[i] \in Chars)
    BY TextFacts
  <2>2. NUL \in DOMAIN CodeOf /\ \A c \in Chars : c \in DOMAIN CodeOf
    BY DEF CodeOf, Chars
  <2> QED
    BY <2>1, <2>2
<1>4. Laid(a, t) \in [1 .. a -> DOMAIN CodeOf]
  BY <1>2, <1>3
<1>5. Len(Laid(a, t)) = a /\ Laid(a, t) \in Seq(DOMAIN CodeOf)
  BY <1>4
<1>6. a > 0 => e # NoString
  <2>1. NoString.alloc = 0
    BY DEF NoString
  <2> QED
    BY <1>1, <2>1
<1>7. Len(t) \in Nat
  OBVIOUS
<1> HIDE DEF e
<1> QED
  BY <1>1, <1>2, <1>5, <1>6, <1>7 DEF StrCount, StrCapacity, StrSize, e

(* What a byte of it is.                                                   *)
LEMMA HeldByte ==
  ASSUME NEW a \in Nat, NEW t \in Seq(Chars), Len(t) < a, NEW i \in Nat
  PROVE  /\ i < Len(t) => Byte(Held(a, t), i) = t[i + 1] /\ t[i + 1] # NUL
         /\ i >= Len(t) => Byte(Held(a, t), i) = NUL
<1> DEFINE e == Held(a, t)
<1>0. e = Held(a, t)
  OBVIOUS
<1> HIDE DEF e
<1>1. Len(e.bytes) = a /\ \A k \in 1 .. a : e.bytes[k] = IF k <= Len(t) THEN t[k] ELSE NUL
  BY <1>0, HeldFields
<1>2. Len(t) \in Nat
  OBVIOUS
<1>3. CASE i < Len(t)
  <2>1. i + 1 \in 1 .. a /\ i + 1 \in 1 .. Len(t) /\ i < Len(e.bytes)
    BY <1>1, <1>2, <1>3
  <2>2. t[i + 1] # NUL
    BY <2>1, TextFacts
  <2> QED
    BY <1>1, <1>2, <1>3, <2>1, <2>2 DEF Byte, e
<1>4. CASE i >= Len(t)
  <2>1. i < a => i + 1 \in 1 .. a /\ ~(i + 1 <= Len(t))
    BY <1>2, <1>4
  <2>2. Byte(e, i) = NUL
    BY <1>1, <2>1 DEF Byte
  <2> QED
    BY <1>2, <1>4, <2>2 DEF e
<1> QED
  BY <1>2, <1>3, <1>4

(* Writing s at a place inside, so that u is the text afterwards.          *)
Overlays(a, t, at, s, u) ==
  \A i \in 1 .. a :
    (IF i > at /\ i <= at + Len(s) THEN s[i - at] ELSE Byte(Held(a, t), i - 1)) =
      IF i <= Len(u) THEN u[i] ELSE NUL

LEMMA WriteLays ==
  ASSUME NEW a \in Nat, NEW t \in Seq(Chars), Len(t) < a, NEW at \in Nat, NEW s, Len(s) \in Nat,
         at + Len(s) <= a, NEW u \in Seq(Chars),
         Overlays(a, t, at, s, u)
  PROVE  Write(Held(a, t), at, s) = [alloc |-> a, size |-> Len(t), bytes |-> Laid(a, u)]
<1> DEFINE e == Held(a, t)
           New(i) == IF i > at /\ i <= at + Len(s) THEN s[i - at] ELSE Byte(e, i - 1)
<1>2. e = [alloc |-> a, size |-> Len(t), bytes |-> Laid(a, t)]
  BY DEF Held
<1>0. e = Held(a, t)
  OBVIOUS
<1> HIDE DEF e
<1>1. e.alloc = a /\ e.size = Len(t) /\ Len(e.bytes) = a
  BY <1>0, HeldFields
<1>3. Greatest(Len(e.bytes), at + Len(s)) = a
  BY <1>1 DEF Greatest
<1>4. [i \in 1 .. a |-> New(i)] = Laid(a, u)
  BY <1>0 DEF Laid, Overlays
<1>5. Write(e, at, s) = [e EXCEPT !.bytes = [i \in 1 .. a |-> New(i)]]
  BY <1>3 DEF Write
<1> HIDE DEF New
<1>6. [e EXCEPT !.bytes = Laid(a, u)] = [alloc |-> a, size |-> Len(t), bytes |-> Laid(a, u)]
  BY <1>2
<1> QED
  BY <1>4, <1>5, <1>6 DEF e

LEMMA SizeHolds ==
  ASSUME NEW a \in Nat, NEW u \in Seq(Chars), Len(u) < a, NEW k, NEW n, n = Len(u)
  PROVE  WithSize([alloc |-> a, size |-> k, bytes |-> Laid(a, u)], n) = Held(a, u)
<1>1. Len(u) \in Nat
  OBVIOUS
<1>2. a < Limit8 => n % (Limit8 + 1) = n
  <2> SUFFICES ASSUME a < Limit8 PROVE n % (Limit8 + 1) = n
    OBVIOUS
  <2>1. n \in Nat /\ n < Limit8 + 1 /\ Limit8 + 1 \in Nat
    BY <1>1, EStringAssumption
  <2> QED
    BY <2>1
<1> QED
  BY <1>2 DEF WithSize, Held

(* The two at once: what most calls do.                                    *)
LEMMA WritesAndSizes ==
  ASSUME NEW a \in Nat, NEW t \in Seq(Chars), Len(t) < a, NEW at \in Nat, NEW s, Len(s) \in Nat,
         at + Len(s) <= a, NEW u \in Seq(Chars), Len(u) < a, NEW n, n = Len(u),
         Overlays(a, t, at, s, u)
  PROVE  WithSize(Write(Held(a, t), at, s), n) = Held(a, u)
<1>1. Write(Held(a, t), at, s) = [alloc |-> a, size |-> Len(t), bytes |-> Laid(a, u)]
  BY WriteLays
<1> QED
  BY <1>1, SizeHolds

(* Byte by the text, where the writing lemmas ask for it.                  *)
LEMMA BeforeByte ==
  ASSUME NEW a \in Nat, NEW t \in Seq(Chars), Len(t) < a, NEW i \in 1 .. a
  PROVE  Byte(Held(a, t), i - 1) = IF i <= Len(t) THEN t[i] ELSE NUL
<1>1. i - 1 \in Nat /\ (i - 1) + 1 = i /\ Len(t) \in Nat
  OBVIOUS
<1>2. (i - 1 < Len(t)) = (i <= Len(t)) /\ (i - 1 >= Len(t)) = ~(i <= Len(t))
  BY <1>1
<1> QED
  BY <1>1, <1>2, HeldByte
(* Two sequences, character by character.                                  *)
Run == Seq(DOMAIN CodeOf)
Cat(s, t) == s \o t

LEMMA CatAt ==
  ASSUME NEW s \in Run, NEW t \in Run
  PROVE  /\ Len(s) \in Nat /\ Len(t) \in Nat
         /\ Cat(s, t) \in Run /\ Len(Cat(s, t)) = Len(s) + Len(t)
         /\ \A i \in 1 .. Len(s) : Cat(s, t)[i] = s[i]
         /\ \A i \in 1 .. Len(t) : Cat(s, t)[Len(s) + i] = t[i]
         /\ \A i \in 1 .. Len(s) + Len(t) : i > Len(s) => Cat(s, t)[i] = t[i - Len(s)]
<1>1. Len(s) \in Nat /\ Len(t) \in Nat /\ Cat(s, t) \in Run /\ Len(Cat(s, t)) = Len(s) + Len(t)
  BY DEF Cat, Run
<1>2. \A i \in 1 .. Len(s) : Cat(s, t)[i] = s[i]
  BY DEF Cat, Run
<1>3. ASSUME NEW i \in 1 .. Len(s) + Len(t), i > Len(s) PROVE Cat(s, t)[i] = t[i - Len(s)]
  BY <1>3 DEF Cat, Run
<1>4. ASSUME NEW i \in 1 .. Len(t) PROVE Cat(s, t)[Len(s) + i] = t[i]
  <2>1. Len(s) + i \in 1 .. Len(s) + Len(t) /\ Len(s) + i > Len(s) /\ (Len(s) + i) - Len(s) = i
    BY <1>1
  <2> QED
    BY <1>3, <2>1
<1> QED
  BY <1>1, <1>2, <1>3, <1>4

(* t and, behind it, the first m of s.                                     *)
Joined(t, s, m) == [i \in 1 .. Len(t) + m |-> IF i <= Len(t) THEN t[i] ELSE s[i - Len(t)]]

LEMMA JoinedText ==
  ASSUME NEW t \in Seq(Chars), NEW s, NEW m \in Nat, \A i \in 1 .. m : s[i] \in Chars
  PROVE  /\ Joined(t, s, m) \in Seq(Chars) /\ Len(Joined(t, s, m)) = Len(t) + m
         /\ \A i \in 1 .. Len(t) + m :
              Joined(t, s, m)[i] = IF i <= Len(t) THEN t[i] ELSE s[i - Len(t)]
<1>1. Len(t) \in Nat /\ \A i \in 1 .. Len(t) : t[i] \in Chars
  BY TextFacts
<1> DEFINE u == Joined(t, s, m)
<1>2. u = [i \in 1 .. Len(t) + m |-> u[i]]
  BY DEF Joined
<1>3. \A i \in 1 .. Len(t) + m : u[i] = IF i <= Len(t) THEN t[i] ELSE s[i - Len(t)]
  BY DEF Joined
<1> HIDE DEF u
<1>4. ASSUME NEW i \in 1 .. Len(t) + m PROVE u[i] \in Chars
  <2>1. CASE i <= Len(t)
    BY <1>1, <1>3, <2>1
  <2>2. CASE ~(i <= Len(t))
    <3>1. i - Len(t) \in 1 .. m
      BY <1>1, <2>2
    <3> QED
      BY <1>3, <2>2, <3>1
  <2> QED
    BY <2>1, <2>2
<1>5. Len(t) + m \in Nat
  BY <1>1
<1>6. u \in Seq(Chars) /\ Len(u) = Len(t) + m
  BY <1>2, <1>4, <1>5, MakeText
<1> QED
  BY <1>3, <1>6 DEF u

LEMMA EmptyText == <<>> \in Seq(Chars) /\ Len(<<>>) = 0
  OBVIOUS

LEMMA AllocHolds ==
  ASSUME NEW n \in Nat
  PROVE  StrAlloc(n) = Held(n + 1, <<>>) /\ InOrder(StrAlloc(n))
<1>1. Zeros(n + 1) = Laid(n + 1, <<>>)
  BY EmptyText DEF Zeros, Laid
<1>2. StrAlloc(n) = Held(n + 1, <<>>)
  BY <1>1, EmptyText DEF StrAlloc, Held
<1>3. n + 1 \in Nat /\ 0 < n + 1
  OBVIOUS
<1> QED
  BY <1>2, <1>3, EmptyText DEF InOrder

(* The first m of s and a NUL, written behind the text.                    *)
Plain(s, m) == \A i \in 1 .. m : s[i] \in Chars
Ended(w, s, m) == Len(w) = m + 1 /\ (\A i \in 1 .. m : w[i] = s[i]) /\ w[m + 1] = NUL

LEMMA TailWritten ==
  ASSUME NEW a \in Nat, NEW t \in Seq(Chars), NEW m \in Nat, Len(t) + m < a,
         NEW s, Plain(s, m), NEW w, Ended(w, s, m), NEW n, n = Len(t) + m
  PROVE  WithSize(Write(Held(a, t), Len(t), w), n) = Held(a, Joined(t, s, m))
<1> DEFINE u == Joined(t, s, m)
<1>0. /\ Len(w) = m + 1 /\ (\A i \in 1 .. m : w[i] = s[i]) /\ w[m + 1] = NUL
      /\ \A i \in 1 .. m : s[i] \in Chars
  BY DEF Plain, Ended
<1>1. /\ u \in Seq(Chars) /\ Len(u) = Len(t) + m
      /\ \A i \in 1 .. Len(t) + m : u[i] = IF i <= Len(t) THEN t[i] ELSE s[i - Len(t)]
  BY <1>0, JoinedText
<1> HIDE DEF u
<1>2. Len(t) \in Nat /\ Len(t) < a /\ Len(u) < a /\ Len(w) \in Nat /\ Len(t) + Len(w) <= a
  BY <1>0, <1>1
<1>3. Overlays(a, t, Len(t), w, u)
  <2> SUFFICES ASSUME NEW i \in 1 .. a
      PROVE  (IF i > Len(t) /\ i <= Len(t) + Len(w) THEN w[i - Len(t)] ELSE Byte(Held(a, t), i - 1)) =
               IF i <= Len(u) THEN u[i] ELSE NUL
    BY DEF Overlays
  <2>1. Byte(Held(a, t), i - 1) = IF i <= Len(t) THEN t[i] ELSE NUL
    BY <1>2, BeforeByte
  <2>2. CASE i <= Len(t)
    BY <1>0, <1>1, <1>2, <2>1, <2>2
  <2>3. CASE i > Len(t) /\ i <= Len(t) + m
    <3>1. i - Len(t) \in 1 .. m /\ i <= Len(t) + Len(w)
      BY <1>0, <1>2, <2>3
    <3>2. w[i - Len(t)] = s[i - Len(t)] /\ u[i] = s[i - Len(t)]
      BY <1>0, <1>1, <1>2, <2>3, <3>1
    <3> QED
      BY <1>1, <2>3, <3>1, <3>2
  <2>4. CASE i = Len(t) + m + 1
    <3>1. i - Len(t) = m + 1 /\ i > Len(t) /\ i <= Len(t) + Len(w) /\ ~(i <= Len(u))
      BY <1>0, <1>1, <1>2, <2>4
    <3> QED
      BY <1>0, <3>1
  <2>5. CASE i > Len(t) + m + 1
    BY <1>0, <1>1, <1>2, <2>1, <2>5
  <2> QED
    BY <1>2, <2>2, <2>3, <2>4, <2>5
<1>4. n = Len(u) /\ u \in Seq(Chars) /\ a \in Nat /\ t \in Seq(Chars)
  BY <1>1
<1>5. WithSize(Write(Held(a, t), Len(t), w), n) = Held(a, u)
  BY ONLY <1>2, <1>3, <1>4, WritesAndSizes
<1> QED
  BY <1>5 DEF u

LEMMA SameText ==
  ASSUME NEW t \in Seq(Chars), NEW u, u = [i \in 1 .. Len(t) |-> u[i]], \A i \in 1 .. Len(t) : u[i] = t[i]
  PROVE  u = t
<1>1. t = [i \in 1 .. Len(t) |-> t[i]]
  OBVIOUS
<1> QED
  BY <1>1

(* How many characters fit.                                                *)
Fitting(a, t, n) == Least(n, a - 1 - Len(t))

LEMMA CopyHolds ==
  ASSUME NEW a \in Nat, NEW t \in Seq(Chars), Len(t) < a, NEW n \in Nat,
         NEW s \in Seq(DOMAIN CodeOf), n <= Len(s), Plain(s, n)
  PROVE  /\ StrCopyN(Held(a, t), s, n) = Held(a, Joined(t, s, Fitting(a, t, n)))
         /\ Joined(t, s, Fitting(a, t, n)) \in Seq(Chars)
         /\ Len(Joined(t, s, Fitting(a, t, n))) < a
<1> DEFINE m == Least(n, a - 1 - Len(t))
           w == SubSeq(s, 1, m) \o <<NUL>>
<1>1. Len(t) \in Nat /\ m \in Nat /\ m <= n /\ Len(t) + m < a /\ (n <= a - 1 - Len(t) => m = n)
  BY DEF Least
<1>2. /\ Held(a, t).size = Len(t) /\ Held(a, t) # NoString /\ StrCapacity(Held(a, t)) = a - 1 - Len(t)
  BY <1>1, HeldFields
<1>3. Plain(s, m)
  BY <1>1 DEF Plain
<1>4. n # 0 => StrCopyN(Held(a, t), s, n) = WithSize(Write(Held(a, t), Len(t), w), Len(t) + m)
  BY <1>2 DEF StrCopyN
<1>5. n = 0 => StrCopyN(Held(a, t), s, n) = Held(a, t)
  BY DEF StrCopyN
<1> HIDE DEF m
<1>6. SubSeq(s, 1, m) \in Seq(DOMAIN CodeOf) /\ Len(SubSeq(s, 1, m)) = m
      /\ \A i \in 1 .. m : SubSeq(s, 1, m)[i] = s[i]
  BY <1>1
<1>7. NUL \in DOMAIN CodeOf /\ <<NUL>> \in Seq(DOMAIN CodeOf) /\ Len(<<NUL>>) = 1 /\ <<NUL>>[1] = NUL
  BY DEF CodeOf
<1>8. Ended(w, s, m)
  <2> DEFINE p == SubSeq(s, 1, m)
             q == <<NUL>>
  <2>1. p \in Run /\ q \in Run /\ Len(p) = m /\ Len(q) = 1 /\ q[1] = NUL
    BY <1>6, <1>7 DEF Run
  <2>2. \A i \in 1 .. m : p[i] = s[i]
    BY <1>6
  <2> HIDE DEF p, q
  <2>3. /\ Len(Cat(p, q)) = Len(p) + Len(q) /\ \A i \in 1 .. Len(p) : Cat(p, q)[i] = p[i]
        /\ \A i \in 1 .. Len(q) : Cat(p, q)[Len(p) + i] = q[i]
    BY <2>1, CatAt
  <2>4. Cat(p, q)[m + 1] = q[1]
    <3>1. 1 \in 1 .. Len(q)
      BY <2>1
    <3> QED
      BY <2>1, <2>3, <3>1
  <2>5. Ended(Cat(p, q), s, m)
    BY <1>1, <2>1, <2>2, <2>3, <2>4 DEF Ended
  <2> QED
    BY <2>5 DEF p, q, Cat
<1> HIDE DEF w
<1>9. WithSize(Write(Held(a, t), Len(t), w), Len(t) + m) = Held(a, Joined(t, s, m))
  BY <1>1, <1>3, <1>8, TailWritten
<1>10. Joined(t, s, m) \in Seq(Chars) /\ Len(Joined(t, s, m)) = Len(t) + m
  BY <1>1, <1>3, JoinedText DEF Plain
<1>11. n = 0 => Joined(t, s, m) = t
  <2> SUFFICES ASSUME n = 0 PROVE Joined(t, s, m) = t
    OBVIOUS
  <2>1. m = 0
    BY <1>1
  <2>2. /\ Joined(t, s, m) = [i \in 1 .. Len(t) |-> Joined(t, s, m)[i]]
        /\ \A i \in 1 .. Len(t) : Joined(t, s, m)[i] = t[i]
    BY <1>1, <2>1 DEF Joined
  <2> QED
    BY <2>2, SameText
<1>12. StrCopyN(Held(a, t), s, n) = Held(a, Joined(t, s, m)) /\ Len(Joined(t, s, m)) < a
  BY <1>1, <1>4, <1>5, <1>9, <1>10, <1>11
<1> QED
  BY <1>10, <1>12 DEF m, Fitting

(* e holds the text t; a string that was never made counts as one.         *)
HoldsText(e, t) == t \in Seq(Chars) /\ \E a \in Nat : Len(t) < a /\ e = Held(a, t)
Reads(e, t) == HoldsText(e, t) \/ (e = NoString /\ t = <<>>)

LEMMA JoinedToNone ==
  ASSUME NEW t \in Seq(Chars), NEW s, \A i \in 1 .. Len(t) : s[i] = t[i]
  PROVE  Joined(<<>>, s, Len(t)) = t
<1> DEFINE u == Joined(<<>>, s, Len(t))
<1>1. Len(t) \in Nat
  OBVIOUS
<1>2. u = [i \in 1 .. Len(t) |-> IF i <= 0 THEN <<>>[i] ELSE s[i - 0]]
  BY <1>1, EmptyText DEF Joined
<1>3. u = [i \in 1 .. Len(t) |-> u[i]] /\ \A i \in 1 .. Len(t) : u[i] = t[i]
  BY <1>1, <1>2
<1> HIDE DEF u
<1> QED
  BY <1>3, SameText DEF u

LEMMA LaidPlain ==
  ASSUME NEW a \in Nat, NEW t \in Seq(Chars), Len(t) < a, NEW n \in Nat, n <= Len(t)
  PROVE  /\ Plain(Laid(a, t), n) /\ Laid(a, t) \in Seq(DOMAIN CodeOf) /\ Len(Laid(a, t)) = a
         /\ \A i \in 1 .. n : Laid(a, t)[i] = t[i]
<1>1. Len(t) \in Nat /\ \A i \in 1 .. Len(t) : t[i] \in Chars
  BY TextFacts
<1>2. /\ Laid(a, t) \in Seq(DOMAIN CodeOf) /\ Len(Laid(a, t)) = a
      /\ \A i \in 1 .. a : Laid(a, t)[i] = IF i <= Len(t) THEN t[i] ELSE NUL
  <2>1. Laid(a, t) = Held(a, t).bytes
    BY HeldFields
  <2>2. /\ Held(a, t).bytes \in Seq(DOMAIN CodeOf) /\ Len(Held(a, t).bytes) = a
        /\ \A i \in 1 .. a : Held(a, t).bytes[i] = IF i <= Len(t) THEN t[i] ELSE NUL
    BY HeldFields
  <2> HIDE DEF Laid
  <2> QED
    BY <2>1, <2>2
<1>3. \A i \in 1 .. n : i \in 1 .. a /\ i \in 1 .. Len(t) /\ i <= Len(t)
  BY <1>1
<1> QED
  BY <1>1, <1>2, <1>3 DEF Plain

(* A copy of a whole string into a fresh one with room.                    *)
LEMMA CopiedAfresh ==
  ASSUME NEW e, NEW t, HoldsText(e, t), NEW n \in Nat, Len(t) <= n
  PROVE  StrCopyEris(StrAlloc(n), e) = Held(n + 1, t) /\ HoldsText(StrCopyEris(StrAlloc(n), e), t)
<1>1. t \in Seq(Chars) /\ Len(t) \in Nat
  BY DEF HoldsText
<1>2. PICK a \in Nat : Len(t) < a /\ e = Held(a, t)
  BY DEF HoldsText
<1>3. e.bytes = Laid(a, t) /\ e.size = Len(t)
  BY <1>1, <1>2, HeldFields
<1>4. /\ Plain(Laid(a, t), Len(t)) /\ Laid(a, t) \in Seq(DOMAIN CodeOf) /\ Len(t) <= Len(Laid(a, t))
      /\ \A i \in 1 .. Len(t) : Laid(a, t)[i] = t[i]
  BY <1>1, <1>2, LaidPlain
<1>5. StrAlloc(n) = Held(n + 1, <<>>) /\ n + 1 \in Nat /\ Len(t) < n + 1
  BY <1>1, AllocHolds
<1>6. StrCopyN(Held(n + 1, <<>>), Laid(a, t), Len(t)) = Held(n + 1, t)
  <2> DEFINE s == Laid(a, t)
             k == Len(t)
             z == n + 1
             o == <<>>
  <2>1. Fitting(z, o, k) = k
    BY <1>1, EmptyText DEF Least, Fitting
  <2>2. o \in Seq(Chars) /\ z \in Nat /\ k \in Nat /\ Len(o) < z
    BY <1>1, EmptyText
  <2>3. s \in Seq(DOMAIN CodeOf) /\ k <= Len(s) /\ Plain(s, k)
    BY <1>4
  <2>4. Joined(o, s, k) = t
    BY <1>1, <1>4, JoinedToNone
  <2> HIDE DEF s, k, z, o
  <2>5. StrCopyN(Held(z, o), s, k) = Held(z, t)
    BY <2>1, <2>2, <2>3, <2>4, CopyHolds
  <2> QED
    BY <2>5 DEF s, k, z, o
<1>7. StrCopyEris(StrAlloc(n), e) = Held(n + 1, t)
  BY <1>3, <1>5, <1>6 DEF StrCopyEris
<1> QED
  BY <1>1, <1>5, <1>7 DEF HoldsText

(* Room is made: what is asked for and the NUL fit, and the text stays.    *)
LEMMA GrownHolds ==
  ASSUME NEW e, NEW t, Reads(e, t), NEW n \in Nat
  PROVE  t \in Seq(Chars) /\ \E b \in Nat : Len(t) + n < b /\ Grown(e, n) = Held(b, t)
<1>1. t \in Seq(Chars) /\ Len(t) \in Nat
  <2>1. t \in Seq(Chars)
    BY EmptyText, Zenon DEF Reads, HoldsText
  <2> QED
    BY <2>1
<1>2. CASE e = NoString /\ t = <<>>
  <2>1. Grown(e, n) = Held(n + 1, t) /\ n + 1 \in Nat /\ Len(t) + n < n + 1
    BY <1>2, AllocHolds, EmptyText DEF Grown
  <2> QED
    BY <1>1, <2>1
<1>3. CASE HoldsText(e, t)
  <2>1. PICK a \in Nat : Len(t) < a /\ e = Held(a, t)
    BY <1>3 DEF HoldsText
  <2>2. e # NoString /\ StrCapacity(e) = a - 1 - Len(t) /\ StrCount(e) = a - 1 /\ e.size = Len(t)
    BY SMTT(30), <1>1, <2>1, HeldFields
  <2>3. CASE n > StrCapacity(e)
    <3> DEFINE k == Len(t) + n + 1
    <3>1. k \in Nat /\ k # 0 /\ k # StrCount(e) /\ Len(t) <= k /\ e.size + n + 1 = k
      BY <1>1, <2>1, <2>2, <2>3
    <3>2. Grown(e, n) = StrRealloc(e, k)
      BY <2>2, <2>3, <3>1 DEF Grown
    <3> HIDE DEF k
    <3>3. StrRealloc(e, k) = StrCopyEris(StrAlloc(k), e)
      BY <2>2, <3>1 DEF StrRealloc
    <3>4. StrCopyEris(StrAlloc(k), e) = Held(k + 1, t)
      BY <1>3, <3>1, CopiedAfresh
    <3>5. k + 1 \in Nat /\ Len(t) + n < k + 1
      BY <1>1, <3>1 DEF k
    <3> QED
      BY <1>1, <3>2, <3>3, <3>4, <3>5
  <2>4. CASE ~(n > StrCapacity(e))
    <3>1. Grown(e, n) = e /\ Len(t) + n < a
      BY <1>1, <2>1, <2>2, <2>4 DEF Grown
    <3> QED
      BY <1>1, <2>1, <3>1
  <2> QED
    BY <2>3, <2>4
<1> QED
  BY <1>2, <1>3 DEF Reads

LEMMA AppendHolds ==
  ASSUME NEW e, NEW t, Reads(e, t), NEW s \in Seq(Chars)
  PROVE  HoldsText(StrAppend(e, s), Joined(t, s, Len(s)))
<1>1. Len(s) \in Nat /\ Plain(s, Len(s))
  BY TextFacts DEF Plain
<1>2. t \in Seq(Chars) /\ Len(t) \in Nat
  BY <1>1, GrownHolds
<1>3. PICK b \in Nat : Len(t) + Len(s) < b /\ Grown(e, Len(s)) = Held(b, t)
  BY <1>1, GrownHolds
<1> DEFINE w == s \o <<NUL>>
<1>4. Ended(w, s, Len(s))
  <2> DEFINE q == <<NUL>>
  <2>1. s \in Run /\ q \in Run /\ Len(q) = 1 /\ q[1] = NUL
    <3>1. NUL \in DOMAIN CodeOf /\ \A c \in Chars : c \in DOMAIN CodeOf
      BY DEF CodeOf, Chars
    <3>2. \A i \in 1 .. Len(s) : s[i] \in DOMAIN CodeOf
      BY <3>1
    <3> QED
      BY <1>1, <3>1, <3>2 DEF Run
  <2> HIDE DEF q
  <2>2. /\ Len(Cat(s, q)) = Len(s) + Len(q) /\ \A i \in 1 .. Len(s) : Cat(s, q)[i] = s[i]
        /\ \A i \in 1 .. Len(q) : Cat(s, q)[Len(s) + i] = q[i]
    BY <2>1, CatAt
  <2>3. 1 \in 1 .. Len(q)
    BY <2>1
  <2>4. Ended(Cat(s, q), s, Len(s))
    BY <2>1, <2>2, <2>3 DEF Ended
  <2> QED
    BY <2>4 DEF q, Cat
<1> HIDE DEF w
<1>5. Held(b, t).size = Len(t)
  BY <1>2, <1>3, HeldFields
<1>6. StrAppend(e, s) = WithSize(Write(Held(b, t), Len(t), w), Len(t) + Len(s))
  BY <1>3, <1>5 DEF StrAppend, w
<1>7. StrAppend(e, s) = Held(b, Joined(t, s, Len(s)))
  BY <1>1, <1>2, <1>3, <1>4, <1>6, TailWritten
<1>8. Joined(t, s, Len(s)) \in Seq(Chars) /\ Len(Joined(t, s, Len(s))) = Len(t) + Len(s)
  BY <1>1, <1>2, JoinedText DEF Plain
<1> QED
  BY <1>3, <1>7, <1>8 DEF HoldsText

LEMMA AppendCharHolds ==
  ASSUME NEW e, NEW t, Reads(e, t), NEW c \in Chars
  PROVE  HoldsText(StrAppendC(e, c), Joined(t, <<c>>, 1))
<1> DEFINE s == <<c>>
           w == <<c, NUL>>
<1>0. Plain(s, 1) /\ Ended(w, s, 1)
  BY DEF Plain, Ended
<1>1. t \in Seq(Chars) /\ Len(t) \in Nat
  BY GrownHolds
<1>2. PICK b \in Nat : Len(t) + 1 < b /\ Grown(e, 1) = Held(b, t)
  BY GrownHolds
<1>3. Held(b, t).size = Len(t)
  BY <1>1, <1>2, HeldFields
<1>4. c # NUL
  BY DEF Chars
<1>5. StrAppendC(e, c) = WithSize(Write(Held(b, t), Len(t), w), Len(t) + 1)
  BY <1>2, <1>3, <1>4 DEF StrAppendC
<1> HIDE DEF s, w
<1>6. StrAppendC(e, c) = Held(b, Joined(t, s, 1))
  BY <1>0, <1>1, <1>2, <1>5, TailWritten
<1>7. Joined(t, s, 1) \in Seq(Chars) /\ Len(Joined(t, s, 1)) = Len(t) + 1
  BY <1>0, <1>1, JoinedText DEF Plain
<1>8. HoldsText(StrAppendC(e, c), Joined(t, s, 1))
  BY <1>2, <1>6, <1>7 DEF HoldsText
<1> QED
  BY <1>8 DEF s

(* Characters, and then NULs, written over the rest of the text.           *)
Filled(s, k) == /\ Len(s) \in Nat /\ k \in 0 .. Len(s) /\ Plain(s, k)
                /\ \A i \in k + 1 .. Len(s) : s[i] = NUL
Put(t, at, s, k) == [i \in 1 .. at + k |-> IF i <= at THEN t[i] ELSE s[i - at]]

LEMMA PutHolds ==
  ASSUME NEW a \in Nat, NEW t \in Seq(Chars), Len(t) < a, NEW at \in 0 .. Len(t), NEW s, NEW k,
         Filled(s, k), at + Len(s) >= Len(t), at + Len(s) <= a, at + k < a
  PROVE  /\ Put(t, at, s, k) \in Seq(Chars) /\ Len(Put(t, at, s, k)) = at + k
         /\ WithSize(Write(Held(a, t), at, s), at + k) = Held(a, Put(t, at, s, k))
         /\ at + k = Len(t) => Write(Held(a, t), at, s) = Held(a, Put(t, at, s, k))
<1> DEFINE u == Put(t, at, s, k)
<1>0. /\ Len(s) \in Nat /\ k \in 0 .. Len(s) /\ (\A i \in 1 .. k : s[i] \in Chars)
      /\ \A i \in k + 1 .. Len(s) : s[i] = NUL
  BY DEF Filled, Plain
<1>1. Len(t) \in Nat /\ at \in Nat /\ at <= Len(t) /\ k \in Nat /\ \A i \in 1 .. Len(t) : t[i] \in Chars
  BY <1>0, TextFacts
<1>2. /\ u = [i \in 1 .. at + k |-> u[i]]
      /\ \A i \in 1 .. at + k : u[i] = IF i <= at THEN t[i] ELSE s[i - at]
  BY DEF Put
<1> HIDE DEF u
<1>3. ASSUME NEW i \in 1 .. at + k PROVE u[i] \in Chars
  <2>1. CASE i <= at
    BY <1>1, <1>2, <2>1
  <2>2. CASE ~(i <= at)
    <3>1. i - at \in 1 .. k
      BY <1>1, <2>2
    <3> QED
      BY <1>0, <1>2, <2>2, <3>1
  <2> QED
    BY <2>1, <2>2
<1>4. at + k \in Nat
  BY <1>1
<1>5. u \in Seq(Chars) /\ Len(u) = at + k
  BY <1>2, <1>3, <1>4, MakeText
<1>6. Overlays(a, t, at, s, u)
  <2> SUFFICES ASSUME NEW i \in 1 .. a
               PROVE  (IF i > at /\ i <= at + Len(s) THEN s[i - at] ELSE Byte(Held(a, t), i - 1)) =
                        IF i <= Len(u) THEN u[i] ELSE NUL
    BY DEF Overlays
  <2>1. Byte(Held(a, t), i - 1) = IF i <= Len(t) THEN t[i] ELSE NUL
    BY BeforeByte
  <2>2. CASE i <= at
    <3>1. i \in 1 .. at + k /\ i <= Len(t) /\ ~(i > at) /\ i <= Len(u)
      BY <1>1, <1>5, <2>2
    <3> QED
      BY <1>2, <2>1, <2>2, <3>1
  <2>3. CASE i > at /\ i <= at + k
    <3>1. i \in 1 .. at + k /\ i <= at + Len(s) /\ i <= Len(u) /\ ~(i <= at)
      BY <1>0, <1>1, <1>5, <2>3
    <3> QED
      BY <1>2, <2>3, <3>1
  <2>4. CASE i > at + k /\ i <= at + Len(s)
    <3>1. i - at \in k + 1 .. Len(s) /\ i > at /\ ~(i <= Len(u))
      BY <1>0, <1>1, <1>5, <2>4
    <3>2. s[i - at] = NUL
      BY <1>0, <3>1
    <3> QED
      BY <2>4, <3>1, <3>2
  <2>5. CASE i > at + Len(s)
    <3>1. ~(i <= Len(t)) /\ ~(i <= Len(u)) /\ ~(i <= at + Len(s))
      BY <1>0, <1>1, <1>5, <2>5
    <3> QED
      BY <2>1, <3>1
  <2> QED
    BY <1>0, <1>1, <2>2, <2>3, <2>4, <2>5
<1>7. Len(u) < a /\ at \in Nat /\ Len(s) \in Nat /\ at + Len(s) <= a
  BY <1>0, <1>1, <1>5
<1>8. WithSize(Write(Held(a, t), at, s), at + k) = Held(a, u)
  BY <1>5, <1>6, <1>7, WritesAndSizes
<1>9. Write(Held(a, t), at, s) = [alloc |-> a, size |-> Len(t), bytes |-> Laid(a, u)]
  BY <1>5, <1>6, <1>7, WriteLays
<1>10. at + k = Len(t) => Write(Held(a, t), at, s) = Held(a, u)
  BY <1>5, <1>9 DEF Held
<1> QED
  BY <1>5, <1>8, <1>10 DEF u

(* The same for a string that holds t.                                     *)
LEMMA PutInto ==
  ASSUME NEW a \in Nat, NEW t \in Seq(Chars), Len(t) < a, NEW at \in 0 .. Len(t), NEW s, NEW k,
         Filled(s, k), at + Len(s) >= Len(t), at + Len(s) <= a, at + k < a
  PROVE  /\ HoldsText(WithSize(Write(Held(a, t), at, s), at + k), Put(t, at, s, k))
         /\ at + k = Len(t) => HoldsText(Write(Held(a, t), at, s), Put(t, at, s, k))
  BY PutHolds DEF HoldsText

LEMMA ZerosFilled ==
  ASSUME NEW n \in Nat
  PROVE  Filled(Zeros(n), 0) /\ Len(Zeros(n)) = n
  BY DEF Filled, Zeros, Plain

LEMMA TextFilled ==
  ASSUME NEW p \in Seq(Chars)
  PROVE  /\ Filled(p, Len(p))
         /\ \A n \in Nat : /\ Filled(p \o Zeros(n), Len(p)) /\ Len(p \o Zeros(n)) = Len(p) + n
                           /\ \A i \in 1 .. Len(p) : (p \o Zeros(n))[i] = p[i]
         /\ Filled(p \o <<NUL>>, Len(p)) /\ Len(p \o <<NUL>>) = Len(p) + 1
         /\ \A i \in 1 .. Len(p) : (p \o <<NUL>>)[i] = p[i]
<1>1. Len(p) \in Nat /\ \A i \in 1 .. Len(p) : p[i] \in Chars
  BY TextFacts
<1>2. NUL \in DOMAIN CodeOf /\ \A c \in Chars : c \in DOMAIN CodeOf
  BY DEF CodeOf, Chars
<1>3. p \in Run
  <2>1. \A i \in 1 .. Len(p) : p[i] \in DOMAIN CodeOf
    BY <1>1, <1>2
  <2> QED
    BY <1>1, <2>1 DEF Run
<1>4. Filled(p, Len(p))
  BY <1>1 DEF Filled, Plain
<1>5. ASSUME NEW n \in Nat, NEW z \in Run, Len(z) = n, \A i \in 1 .. n : z[i] = NUL
      PROVE  /\ Filled(Cat(p, z), Len(p)) /\ Len(Cat(p, z)) = Len(p) + n
             /\ \A i \in 1 .. Len(p) : Cat(p, z)[i] = p[i]
  <2>1. /\ Len(Cat(p, z)) = Len(p) + n /\ \A i \in 1 .. Len(p) : Cat(p, z)[i] = p[i]
        /\ \A i \in 1 .. Len(p) + n : i > Len(p) => Cat(p, z)[i] = z[i - Len(p)]
    BY <1>3, <1>5, CatAt
  <2>2. ASSUME NEW i \in Len(p) + 1 .. Len(p) + n PROVE Cat(p, z)[i] = NUL
    <3>1. i \in 1 .. Len(p) + n /\ i > Len(p) /\ i - Len(p) \in 1 .. n
      BY <1>1
    <3> QED
      BY <1>5, <2>1, <3>1
  <2>3. Len(p) + n \in Nat /\ Len(p) \in 0 .. Len(p) + n
    BY <1>1
  <2> QED
    BY <1>1, <2>1, <2>2, <2>3 DEF Filled, Plain
<1>6. ASSUME NEW n \in Nat PROVE Zeros(n) \in Run /\ Len(Zeros(n)) = n /\ \A i \in 1 .. n : Zeros(n)[i] = NUL
  BY <1>2 DEF Zeros, Run
<1>7. <<NUL>> \in Run /\ Len(<<NUL>>) = 1 /\ \A i \in 1 .. 1 : <<NUL>>[i] = NUL
  BY <1>2 DEF Run
<1>8. ASSUME NEW n \in Nat
      PROVE  /\ Filled(p \o Zeros(n), Len(p)) /\ Len(p \o Zeros(n)) = Len(p) + n
             /\ \A i \in 1 .. Len(p) : (p \o Zeros(n))[i] = p[i]
  <2> DEFINE z == Zeros(n)
  <2>1. z \in Run /\ Len(z) = n /\ \A i \in 1 .. n : z[i] = NUL
    BY <1>6
  <2> HIDE DEF z
  <2>2. /\ Filled(Cat(p, z), Len(p)) /\ Len(Cat(p, z)) = Len(p) + n
        /\ \A i \in 1 .. Len(p) : Cat(p, z)[i] = p[i]
    BY <1>5, <2>1
  <2> QED
    BY <2>2, Zenon DEF z, Cat
<1>9. /\ Filled(p \o <<NUL>>, Len(p)) /\ Len(p \o <<NUL>>) = Len(p) + 1
      /\ \A i \in 1 .. Len(p) : (p \o <<NUL>>)[i] = p[i]
  <2> DEFINE z == <<NUL>>
  <2>1. z \in Run /\ Len(z) = 1 /\ \A i \in 1 .. 1 : z[i] = NUL
    BY <1>7
  <2> HIDE DEF z
  <2>2. /\ Filled(Cat(p, z), Len(p)) /\ Len(Cat(p, z)) = Len(p) + 1
        /\ \A i \in 1 .. Len(p) : Cat(p, z)[i] = p[i]
    BY <1>5, <2>1
  <2> QED
    BY <2>2, Zenon DEF z, Cat
<1> QED
  BY <1>4, <1>8, <1>9

(* The calls, one by one: a string in order is left in order.              *)
LEMMA HoldsOrder ==
  ASSUME NEW e, NEW t, HoldsText(e, t)
  PROVE  InOrder(e)
  BY DEF HoldsText, InOrder

LEMMA GoodReads ==
  ASSUME NEW e, Good(e)
  PROVE  \E t : Reads(e, t) /\ (e # NoString => HoldsText(e, t))
<1>1. CASE e = NoString
  BY <1>1 DEF Reads
<1>2. CASE InOrder(e)
  BY <1>2 DEF InOrder, HoldsText, Reads
<1> QED
  BY <1>1, <1>2 DEF Good

LEMMA NoText ==
  ASSUME NEW u \in Seq(Chars), Len(u) = 0
  PROVE  u = <<>>
  OBVIOUS

LEMMA CleanupHolds ==
  ASSUME NEW e, NEW t, HoldsText(e, t)
  PROVE  HoldsText(StrCleanup(e), <<>>)
<1>1. PICK a \in Nat : Len(t) < a /\ e = Held(a, t)
  BY DEF HoldsText
<1>2. t \in Seq(Chars) /\ Len(t) \in Nat /\ 0 \in 0 .. Len(t) /\ a > 0
  BY <1>1 DEF HoldsText
<1>3. Held(a, t) # NoString /\ StrCount(Held(a, t)) = a - 1 /\ a - 1 \in Nat
  BY <1>1, <1>2, HeldFields
<1> DEFINE z == Zeros(a - 1)
           u == Put(t, 0, z, 0)
<1>4. StrCleanup(e) = WithSize(Write(Held(a, t), 0, z), 0)
  BY <1>1, <1>3 DEF StrCleanup
<1>5. Filled(z, 0) /\ Len(z) = a - 1
  BY <1>3, ZerosFilled
<1> HIDE DEF z
<1>6. 0 + Len(z) >= Len(t) /\ 0 + Len(z) <= a /\ 0 + 0 < a
  BY <1>1, <1>2, <1>5
<1>7. /\ u \in Seq(Chars) /\ Len(u) = 0 + 0
      /\ WithSize(Write(Held(a, t), 0, z), 0 + 0) = Held(a, u)
  BY <1>1, <1>2, <1>5, <1>6, PutHolds
<1>8. u = <<>>
  BY <1>7, NoText
<1> QED
  BY <1>2, <1>4, <1>7, <1>8, EmptyText DEF HoldsText

LEMMA CharsAreCoded == \A s \in Seq(Chars) : s \in Seq(DOMAIN CodeOf) /\ Plain(s, Len(s))
<1> SUFFICES ASSUME NEW s \in Seq(Chars) PROVE s \in Seq(DOMAIN CodeOf) /\ Plain(s, Len(s))
  OBVIOUS
<1>1. Len(s) \in Nat /\ \A i \in 1 .. Len(s) : s[i] \in Chars
  BY TextFacts
<1>2. \A c \in Chars : c \in DOMAIN CodeOf
  BY DEF Chars
<1>3. \A i \in 1 .. Len(s) : s[i] \in DOMAIN CodeOf
  BY <1>1, <1>2
<1>4. s \in Seq(DOMAIN CodeOf)
  <2> DEFINE D == DOMAIN CodeOf
  <2>1. \A i \in 1 .. Len(s) : s[i] \in D
    BY <1>3
  <2> HIDE DEF D
  <2>2. s \in Seq(D)
    BY <1>1, <2>1
  <2> QED
    BY <2>2 DEF D
<1> QED
  BY <1>1, <1>4 DEF Plain

LEMMA CopyInOrder ==
  ASSUME NEW e, InOrder(e), NEW n \in Nat, NEW s \in Seq(DOMAIN CodeOf), n <= Len(s), Plain(s, n)
  PROVE  InOrder(StrCopyN(e, s, n))
<1>1. PICK a \in Nat, t \in Seq(Chars) : Len(t) < a /\ e = Held(a, t)
  BY DEF InOrder
<1> QED
  BY <1>1, CopyHolds DEF InOrder

LEMMA SetInOrder ==
  ASSUME NEW e, InOrder(e), NEW s \in Seq(Chars)
  PROVE  InOrder(StrSet(e, s))
<1>1. PICK t : HoldsText(e, t)
  BY DEF InOrder, HoldsText
<1>2. HoldsText(StrCleanup(e), <<>>)
  BY <1>1, CleanupHolds
<1>3. HoldsText(StrAppend(StrCleanup(e), s), Joined(<<>>, s, Len(s)))
  BY <1>2, AppendHolds DEF Reads
<1> QED
  BY <1>2, <1>3, HoldsOrder DEF StrSet

LEMMA CreateInOrder ==
  ASSUME NEW s \in Seq(Chars)
  PROVE  InOrder(StrCreate(s)) /\ InOrder(StrClone(s))
<1>1. Len(s) \in Nat /\ s \in Seq(DOMAIN CodeOf) /\ Plain(s, Len(s)) /\ Len(s) + 1 \in Nat
  BY CharsAreCoded
<1>2. InOrder(StrAlloc(Len(s))) /\ InOrder(StrAlloc(Len(s) + 1))
  BY <1>1, AllocHolds
<1> QED
  BY <1>1, <1>2, CopyInOrder DEF StrCreate, StrClone

LEMMA AddInOrder ==
  ASSUME NEW e, Good(e), NEW s \in Seq(Chars), NEW c \in Chars
  PROVE  /\ InOrder(StrAppend(e, s)) /\ InOrder(StrAppendC(e, c))
         /\ e # NoString => InOrder(StrCopy(e, s)) /\ InOrder(StrCloneEris(e))
<1>1. PICK t : Reads(e, t) /\ (e # NoString => HoldsText(e, t))
  BY GoodReads
<1>2. InOrder(StrAppend(e, s))
  BY <1>1, AppendHolds, HoldsOrder
<1>3. InOrder(StrAppendC(e, c))
  BY <1>1, AppendCharHolds, HoldsOrder
<1>4. ASSUME e # NoString PROVE InOrder(StrCopy(e, s))
  <2>1. InOrder(e)
    BY <1>4 DEF Good
  <2>2. Len(s) \in Nat /\ s \in Seq(DOMAIN CodeOf) /\ Plain(s, Len(s))
    BY CharsAreCoded
  <2> QED
    BY <2>1, <2>2, CopyInOrder DEF StrCopy
<1>5. ASSUME e # NoString PROVE InOrder(StrCloneEris(e))
  <2>1. HoldsText(e, t) /\ t \in Seq(Chars) /\ Len(t) \in Nat /\ Len(t) + 1 \in Nat /\ Len(t) <= Len(t) + 1
    BY <1>1, <1>5 DEF HoldsText
  <2>0. PICK a \in Nat : e = Held(a, t)
    BY <2>1 DEF HoldsText
  <2>2. e.size = Len(t)
    BY <2>0, <2>1, HeldFields
  <2>3. HoldsText(StrCopyEris(StrAlloc(Len(t) + 1), e), t)
    BY <2>1, CopiedAfresh
  <2> QED
    BY <1>5, <2>2, <2>3, HoldsOrder DEF StrCloneEris
<1> QED
  BY <1>2, <1>3, <1>4, <1>5

(* One character in the middle of the text.                                *)
LEMMA SetAtInOrder ==
  ASSUME NEW e, InOrder(e), NEW at \in Nat, NEW c \in Chars
  PROVE  InOrder(StrSetAtC(e, at, c))
<1>1. PICK a \in Nat, t \in Seq(Chars) : Len(t) < a /\ e = Held(a, t)
  BY DEF InOrder
<1>2. Len(t) \in Nat /\ e.size = Len(t) /\ c # NUL /\ \A i \in 1 .. Len(t) : t[i] \in Chars
  BY <1>1, HeldFields, TextFacts DEF Chars
<1>3. CASE at >= e.size
  BY <1>2, <1>3 DEF StrSetAtC
<1>4. CASE at < e.size
  <2> DEFINE u == [i \in 1 .. Len(t) |-> IF i = at + 1 THEN c ELSE t[i]]
             s == <<c>>
  <2>1. u = [i \in 1 .. Len(t) |-> u[i]] /\ \A i \in 1 .. Len(t) : u[i] = IF i = at + 1 THEN c ELSE t[i]
    OBVIOUS
  <2>2. Len(s) = 1 /\ s[1] = c
    OBVIOUS
  <2> HIDE DEF u, s
  <2>3. u \in Seq(Chars) /\ Len(u) = Len(t)
    BY <1>2, <2>1, MakeText
  <2>4. Overlays(a, t, at, s, u)
    <3> SUFFICES ASSUME NEW i \in 1 .. a
        PROVE  (IF i > at /\ i <= at + Len(s) THEN s[i - at] ELSE Byte(Held(a, t), i - 1)) =
                 IF i <= Len(u) THEN u[i] ELSE NUL
      BY DEF Overlays
    <3>1. Byte(Held(a, t), i - 1) = IF i <= Len(t) THEN t[i] ELSE NUL
      BY <1>1, BeforeByte
    <3>2. CASE i = at + 1
      <4>1. i > at /\ i <= at + Len(s) /\ i - at = 1 /\ i <= Len(u) /\ i \in 1 .. Len(t)
        BY <1>2, <1>4, <2>2, <2>3, <3>2
      <4> QED
        BY <2>1, <2>2, <3>2, <4>1
    <3>3. CASE i # at + 1
      <4>1. ~(i > at /\ i <= at + Len(s))
        BY <2>2, <3>3
      <4>2. i <= Len(t) => i \in 1 .. Len(t)
        BY <1>2
      <4> QED
        BY <2>1, <2>3, <3>1, <3>3, <4>1, <4>2
    <3> QED
      BY <3>2, <3>3
  <2>5. Len(s) \in Nat /\ at + Len(s) <= a
    BY <1>1, <1>2, <1>4, <2>2
  <2>6. Write(Held(a, t), at, s) = [alloc |-> a, size |-> Len(t), bytes |-> Laid(a, u)]
    BY <1>1, <2>3, <2>4, <2>5, WriteLays
  <2>7. Write(Held(a, t), at, s) = Held(a, u)
    BY <2>3, <2>6 DEF Held
  <2>8. StrSetAtC(e, at, c) = Write(e, at, s)
    BY <1>2, <1>4 DEF StrSetAtC, s
  <2> QED
    BY <1>1, <2>3, <2>7, <2>8 DEF InOrder
<1> QED
  BY <1>2, <1>3, <1>4

(* The whole text written anew, as long as it was.                         *)
LEMMA RewrittenInOrder ==
  ASSUME NEW a \in Nat, NEW t \in Seq(Chars), Len(t) < a, NEW s \in Seq(Chars), Len(s) = Len(t)
  PROVE  InOrder(Write(Held(a, t), 0, s))
<1>1. Len(t) \in Nat /\ 0 \in 0 .. Len(t) /\ Len(s) \in Nat
  OBVIOUS
<1>2. Filled(s, Len(s))
  BY TextFilled
<1>3. 0 + Len(s) >= Len(t) /\ 0 + Len(s) <= a /\ 0 + Len(s) < a /\ 0 + Len(s) = Len(t)
  BY <1>1
<1> DEFINE k == Len(s)
<1>4. Filled(s, k) /\ 0 + k < a /\ 0 + k = Len(t) /\ 0 + Len(s) >= Len(t) /\ 0 + Len(s) <= a
  BY <1>2, <1>3
<1> HIDE DEF k
<1>5. HoldsText(Write(Held(a, t), 0, s), Put(t, 0, s, k))
  BY <1>1, <1>4, PutInto
<1> QED
  BY <1>5, HoldsOrder

LEMMA HeldText ==
  ASSUME NEW a \in Nat, NEW t \in Seq(Chars), Len(t) < a
  PROVE  StrText(Held(a, t)) = t
<1> DEFINE b == Held(a, t).bytes
           u == SubSeq(b, 1, Len(t))
<1>1. /\ b \in Seq(DOMAIN CodeOf) /\ Len(b) = a /\ Len(t) \in Nat
      /\ \A i \in 1 .. a : b[i] = IF i <= Len(t) THEN t[i] ELSE NUL
  BY SMTT(30), HeldFields
<1>2. StrText(Held(a, t)) = u
  <2>1. Held(a, t).size = Len(t)
    BY HeldFields
  <2> QED
    BY ONLY <2>1 DEF StrText, u, b
<1> HIDE DEF b
<1>3. u = [i \in 1 .. Len(t) |-> u[i]] /\ \A i \in 1 .. Len(t) : u[i] = b[i]
  BY <1>1
<1>4. \A i \in 1 .. Len(t) : i \in 1 .. a /\ i <= Len(t)
  BY <1>1
<1>5. \A i \in 1 .. Len(t) : u[i] = t[i]
  BY <1>1, <1>3, <1>4
<1> HIDE DEF u
<1> QED
  BY <1>2, <1>3, <1>5, SameText

LEMMA ReverseText ==
  ASSUME NEW s \in Seq(Chars)
  PROVE  Reverse(s) \in Seq(Chars) /\ Len(Reverse(s)) = Len(s)
<1>1. Len(s) \in Nat /\ \A i \in 1 .. Len(s) : s[i] \in Chars
  BY TextFacts
<1> DEFINE r == Reverse(s)
<1>2. r = [i \in 1 .. Len(s) |-> s[(Len(s) - i) + 1]]
  BY DEF Reverse
<1> HIDE DEF r
<1>5. r = [i \in 1 .. Len(s) |-> r[i]] /\ \A i \in 1 .. Len(s) : r[i] = s[(Len(s) - i) + 1]
  BY <1>2
<1>3. \A i \in 1 .. Len(s) : (Len(s) - i) + 1 \in 1 .. Len(s)
  BY <1>1
<1>4. \A i \in 1 .. Len(s) : r[i] \in Chars
  BY <1>1, <1>5, <1>3
<1> QED
  BY <1>1, <1>5, <1>4, MakeText DEF r

LEMMA ReverseInOrder ==
  ASSUME NEW e, InOrder(e)
  PROVE  InOrder(StrReverse(e))
<1>1. PICK a \in Nat, t \in Seq(Chars) : Len(t) < a /\ e = Held(a, t)
  BY DEF InOrder
<1>2. StrText(e) = t
  BY <1>1, HeldText
<1>3. StrReverse(e) = Write(Held(a, t), 0, Reverse(t))
  BY <1>1, <1>2 DEF StrReverse
<1> QED
  BY <1>1, <1>3, ReverseText, RewrittenInOrder

LEMMA PartText ==
  ASSUME NEW t \in Seq(Chars), NEW m \in Nat, NEW n \in Nat, m >= 1, n >= m - 1, n <= Len(t)
  PROVE  SubSeq(t, m, n) \in Seq(Chars) /\ Len(SubSeq(t, m, n)) = (n - m) + 1
<1> DEFINE u == SubSeq(t, m, n)
<1>1. Len(u) = (n - m) + 1 /\ \A i \in 1 .. (n - m) + 1 : u[i] = t[(m + i) - 1]
  OBVIOUS
<1>2. u = [i \in 1 .. (n - m) + 1 |-> u[i]] /\ (n - m) + 1 \in Nat
  OBVIOUS
<1> HIDE DEF u
<1>3. \A i \in 1 .. (n - m) + 1 : (m + i) - 1 \in 1 .. Len(t)
  OBVIOUS
<1>4. \A i \in 1 .. (n - m) + 1 : u[i] \in Chars
  BY <1>1, <1>3, TextFacts
<1> QED
  BY <1>2, <1>4, MakeText DEF u

LEMMA CatText ==
  ASSUME NEW s \in Seq(Chars), NEW t \in Seq(Chars)
  PROVE  s \o t \in Seq(Chars) /\ Len(s \o t) = Len(s) + Len(t)
  OBVIOUS

LEMMA RotationInOrder ==
  ASSUME NEW e, InOrder(e), NEW pos \in Nat
  PROVE  InOrder(StrRotation(e, pos))
<1>1. PICK a \in Nat, t \in Seq(Chars) : Len(t) < a /\ e = Held(a, t)
  BY DEF InOrder
<1>2. StrText(e) = t /\ e.size = Len(t) /\ Len(t) \in Nat
  BY SMTT(30), <1>1, HeldText, HeldFields
<1>3. CASE e.size <= 1 \/ pos >= e.size
  BY <1>3 DEF StrRotation
<1>4. CASE ~(e.size <= 1 \/ pos >= e.size)
  <2> DEFINE k == IF pos = 0 THEN 1 ELSE pos
             x == SubSeq(t, 1, k)
             y == SubSeq(t, k + 1, Len(t))
             q == Reverse(x) \o Reverse(y)
             w == Reverse(q)
  <2>1. k \in Nat /\ k >= 1 /\ k < Len(t) /\ k + 1 \in Nat
    BY <1>2, <1>4
  <2> HIDE DEF k
  <2>2. x \in Seq(Chars) /\ y \in Seq(Chars) /\ Len(x) = k /\ Len(y) = Len(t) - k
    BY <1>2, <2>1, PartText
  <2>3. StrRotation(e, pos) = Write(e, 0, w)
    BY <1>2, <1>4 DEF StrRotation, k
  <2> HIDE DEF x, y
  <2>4. Reverse(x) \in Seq(Chars) /\ Reverse(y) \in Seq(Chars) /\ Len(Reverse(x)) = k
        /\ Len(Reverse(y)) = Len(t) - k
    BY <2>2, ReverseText
  <2>5. q \in Seq(Chars) /\ Len(q) = Len(t)
    <3>1. q \in Seq(Chars) /\ Len(q) = Len(Reverse(x)) + Len(Reverse(y))
      BY <2>4, CatText
    <3> HIDE DEF q
    <3> QED
      BY <1>2, <2>1, <2>4, <3>1
  <2> HIDE DEF q
  <2>6. w \in Seq(Chars) /\ Len(w) = Len(t)
    BY <2>5, ReverseText
  <2> HIDE DEF w
  <2> QED
    BY <1>1, <2>3, <2>6, RewrittenInOrder
<1> QED
  BY <1>3, <1>4

(* Characters of the table stay characters.                                *)
LEMMA ListedChar ==
  ASSUME NEW i \in 1 .. 95
  PROVE  Printable[i] \in Chars /\ CodeOf[Printable[i]] = 31 + i
<1>1. DOMAIN Printable = 1 .. 95
  BY SMTT(30) DEF Printable
<1>2. Printable[i] \in DOMAIN CodeOf /\ CodeOf[Printable[i]] = 31 + i
  BY <1>1, CodeAssumption DEF CodeOf
<1>3. CodeOf[NUL] = 0
  <2>1. NUL # "\t" /\ NUL # "\n" /\ NUL # "\r"
    BY DEF NUL
  <2> QED
    BY <2>1 DEF CodeOf
<1> QED
  BY <1>2, <1>3 DEF Chars

LEMMA CharAt ==
  ASSUME NEW n \in 32 .. 126
  PROVE  Char(n) \in Chars
<1>1. n - 31 \in 1 .. 95
  OBVIOUS
<1> QED
  BY <1>1, ListedChar DEF Char

LEMMA LetterCodes ==
  /\ CodeOf["A"] = 65 /\ CodeOf["Z"] = 90 /\ CodeOf["a"] = 97 /\ CodeOf["z"] = 122
<1>1. Printable[34] = "A" /\ Printable[59] = "Z" /\ Printable[66] = "a" /\ Printable[91] = "z"
  BY DEF Printable
<1>2. 34 \in 1 .. 95 /\ 59 \in 1 .. 95 /\ 66 \in 1 .. 95 /\ 91 \in 1 .. 95
  OBVIOUS
<1> QED
  BY <1>1, <1>2, ListedChar

LEMMA CaseKept ==
  ASSUME NEW c \in Chars
  PROVE  ToLower(c) \in Chars /\ ToUpper(c) \in Chars
<1>1. c \in DOMAIN CodeOf
  BY DEF Chars
<1>2. CodeOf[c] \in Int
  BY <1>1, CodesInt
<1>3. ASSUME IsUpper(c) PROVE Char(CodeOf[c] + 32) \in Chars
  <2>1. CodeOf[c] + 32 \in 32 .. 126
    BY <1>2, <1>3, LetterCodes DEF IsUpper, Between
  <2> QED
    BY <2>1, CharAt
<1>4. ASSUME IsLower(c) PROVE Char(CodeOf[c] - 32) \in Chars
  <2>1. CodeOf[c] - 32 \in 32 .. 126
    BY <1>2, <1>4, LetterCodes DEF IsLower, Between
  <2> QED
    BY <2>1, CharAt
<1> QED
  BY <1>3, <1>4 DEF ToLower, ToUpper

LEMMA CaseInOrder ==
  ASSUME NEW e, InOrder(e)
  PROVE  InOrder(StrToLower(e)) /\ InOrder(StrToUpper(e))
<1>1. PICK a \in Nat, t \in Seq(Chars) : Len(t) < a /\ e = Held(a, t)
  BY DEF InOrder
<1>2. StrText(e) = t /\ Len(t) \in Nat /\ DOMAIN t = 1 .. Len(t) /\ \A i \in 1 .. Len(t) : t[i] \in Chars
  BY <1>1, HeldText, TextFacts
<1> DEFINE low == [i \in DOMAIN t |-> IF i > 0 /\ i <= 0 + e.size THEN ToLower(t[i]) ELSE t[i]]
           up == [i \in DOMAIN t |-> IF i > 0 /\ i <= 0 + e.size THEN ToUpper(t[i]) ELSE t[i]]
<1>3. StrToLower(e) = Write(Held(a, t), 0, low) /\ StrToUpper(e) = Write(Held(a, t), 0, up)
  BY <1>1, <1>2 DEF StrToLower, StrToUpper, MapText
<1>4. /\ low = [i \in 1 .. Len(t) |-> low[i]] /\ up = [i \in 1 .. Len(t) |-> up[i]]
      /\ \A i \in 1 .. Len(t) : low[i] \in {t[i], ToLower(t[i])} /\ up[i] \in {t[i], ToUpper(t[i])}
  BY <1>2
<1> HIDE DEF low, up
<1>5. \A i \in 1 .. Len(t) : low[i] \in Chars /\ up[i] \in Chars
  BY <1>2, <1>4, CaseKept
<1>6. low \in Seq(Chars) /\ Len(low) = Len(t) /\ up \in Seq(Chars) /\ Len(up) = Len(t)
  BY <1>2, <1>4, <1>5, MakeText
<1> QED
  BY <1>1, <1>3, <1>6, RewrittenInOrder

(* What a pointer into the text, or at its NUL, sees: the rest of it.      *)
LEMMA TextFrom ==
  ASSUME NEW a \in Nat, NEW t \in Seq(Chars), Len(t) < a, NEW at \in Nat, at <= Len(t)
  PROVE  /\ CText(Held(a, t), at) = SubSeq(t, at + 1, Len(t))
         /\ CText(Held(a, t), at) \in Seq(Chars) /\ Len(CText(Held(a, t), at)) = Len(t) - at
<1> DEFINE e == Held(a, t)
           End(i) == Byte(e, i) = NUL /\ \A j \in at .. (i - 1) : Byte(e, j) # NUL
           end == CHOOSE i \in at .. (Len(e.bytes) + at) : End(i)
<1>3. CText(e, at) = SubSeq(e.bytes, at + 1, end)
  BY DEF CText
<1>0. e = Held(a, t) /\ Len(t) \in Nat
  OBVIOUS
<1> HIDE DEF e, End
<1>1. /\ e.bytes \in Seq(DOMAIN CodeOf) /\ Len(e.bytes) = a /\ Len(t) \in Nat
      /\ \A i \in 1 .. a : e.bytes[i] = IF i <= Len(t) THEN t[i] ELSE NUL
  <2>1. /\ Held(a, t).bytes \in Seq(DOMAIN CodeOf) /\ Len(Held(a, t).bytes) = a
        /\ \A i \in 1 .. a : Held(a, t).bytes[i] = IF i <= Len(t) THEN t[i] ELSE NUL
    BY HeldFields, Zenon
  <2> QED
    BY <1>0, <2>1, Zenon
<1>2. ASSUME NEW i \in Nat PROVE (i < Len(t) => Byte(e, i) # NUL) /\ (i >= Len(t) => Byte(e, i) = NUL)
  <2>1. /\ i < Len(t) => Byte(e, i) = t[i + 1] /\ t[i + 1] # NUL
        /\ i >= Len(t) => Byte(e, i) = NUL
    BY <1>0, HeldByte
  <2> QED
    BY <2>1
<1>4. End(Len(t)) /\ Len(t) \in at .. (Len(e.bytes) + at)
  BY <1>1, <1>2 DEF End
<1>5. ASSUME NEW i \in at .. (Len(e.bytes) + at), End(i) PROVE i = Len(t)
  <2>1. ~(i < Len(t))
    BY <1>2, <1>5 DEF End
  <2>2. ~(i > Len(t))
    <3> SUFFICES ASSUME i > Len(t) PROVE FALSE
      OBVIOUS
    <3>1. Len(t) \in at .. (i - 1)
      BY <1>1
    <3> QED
      BY <1>1, <1>2, <1>5, <3>1 DEF End
  <2> QED
    BY <1>1, <2>1, <2>2
<1>6. end = Len(t)
  BY <1>4, <1>5
<1> DEFINE u == SubSeq(t, at + 1, Len(t))
           v == SubSeq(e.bytes, at + 1, Len(t))
<1>7. u \in Seq(Chars) /\ Len(u) = Len(t) - at
  BY <1>1, PartText
<1>8. v = [i \in 1 .. Len(t) - at |-> v[i]] /\ \A i \in 1 .. Len(t) - at : v[i] = e.bytes[at + i]
  BY <1>1
<1>9. \A i \in 1 .. Len(t) - at : u[i] = t[at + i] /\ at + i \in 1 .. a /\ at + i <= Len(t)
  BY <1>1
<1> HIDE DEF u, v, end
<1>10. \A i \in 1 .. Len(t) - at : v[i] = u[i]
  BY <1>1, <1>8, <1>9
<1>11. v = u
  BY <1>7, <1>8, <1>10, SameText
<1> QED
  BY <1>3, <1>6, <1>7, <1>11 DEF e, u, v

LEMMA BlanksEnd ==
  ASSUME NEW t \in Seq(Chars)
  PROVE  /\ \E n \in 0 .. Len(t) : /\ \A i \in 1 .. n : IsSpace(t[i])
                                   /\ n < Len(t) => ~IsSpace(t[n + 1])
         /\ \E n \in 0 .. Len(t) : /\ \A i \in (n + 1) .. Len(t) : IsSpace(t[i])
                                   /\ n > 0 => ~IsSpace(t[n])
<1> DEFINE T == {n \in 0 .. Len(t) : n < Len(t) => ~IsSpace(t[n + 1])}
           R == {k \in 0 .. Len(t) : Len(t) - k > 0 => ~IsSpace(t[Len(t) - k])}
<1>1. Len(t) \in T /\ Len(t) \in R /\ T \subseteq Nat /\ R \subseteq Nat /\ Len(t) \in Nat
  OBVIOUS
<1>2. PICK n \in T : \A k \in T : n <= k
  BY <1>1, LeastOf
<1>3. PICK m \in R : \A k \in R : m <= k
  BY <1>1, LeastOf
<1>4. ASSUME NEW i \in 1 .. n PROVE IsSpace(t[i])
  <2>1. i - 1 \in 0 .. Len(t) /\ i - 1 \notin T /\ (i - 1) + 1 = i
    BY <1>1, <1>2
  <2> QED
    BY <2>1
<1>5. ASSUME NEW i \in (Len(t) - m) + 1 .. Len(t) PROVE IsSpace(t[i])
  <2>1. m \in 0 .. Len(t) /\ i \in Nat
    BY <1>1, <1>3
  <2>2. Len(t) - i \in 0 .. Len(t) /\ Len(t) - i < m /\ Len(t) - (Len(t) - i) = i
    BY <1>1, <2>1
  <2>3. Len(t) - i \notin R
    BY <1>3, <2>1, <2>2
  <2> QED
    BY <2>2, <2>3
<1>6. n \in 0 .. Len(t) /\ (n < Len(t) => ~IsSpace(t[n + 1]))
  BY <1>2
<1>7. Len(t) - m \in 0 .. Len(t) /\ (Len(t) - m > 0 => ~IsSpace(t[Len(t) - m]))
  BY <1>1, <1>3
<1> HIDE DEF T, R
<1> QED
  BY <1>4, <1>5, <1>6, <1>7

LEMMA RStripInOrder ==
  ASSUME NEW e, InOrder(e)
  PROVE  InOrder(StrRStrip(e))
<1>1. PICK a \in Nat, t \in Seq(Chars) : Len(t) < a /\ e = Held(a, t)
  BY DEF InOrder
<1>2. StrText(e) = t /\ e.size = Len(t) /\ Len(t) \in Nat
  BY SMTT(30), <1>1, HeldText, HeldFields
<1> DEFINE Left(n) == /\ \A i \in (n + 1) .. Len(t) : IsSpace(t[i])
                      /\ n > 0 => ~IsSpace(t[n])
           left == CHOOSE n \in 0 .. Len(t) : Left(n)
           z == Zeros(Len(t) - left)
<1>3. \E n \in 0 .. Len(t) : Left(n)
  BY BlanksEnd
<1>4. StrRStrip(e) = WithSize(Write(e, left, z), left)
  BY <1>2 DEF StrRStrip
<1> HIDE DEF Left
<1>5. left \in 0 .. Len(t)
  BY <1>3
<1> HIDE DEF left
<1>6. Len(t) - left \in Nat
  BY <1>2, <1>5
<1>7. Filled(z, 0) /\ Len(z) = Len(t) - left
  BY <1>6, ZerosFilled
<1> HIDE DEF z
<1>8. left + Len(z) >= Len(t) /\ left + Len(z) <= a /\ left + 0 < a /\ left + 0 = left
  BY <1>1, <1>2, <1>5, <1>7
<1>9. HoldsText(WithSize(Write(Held(a, t), left, z), left + 0), Put(t, left, z, 0))
  BY <1>1, <1>5, <1>7, <1>8, PutInto
<1> QED
  BY <1>1, <1>4, <1>8, <1>9, HoldsOrder

(* p and NULs up to where the text ended, or one NUL behind it.            *)
LEMMA LaidOver ==
  ASSUME NEW a \in Nat, NEW t \in Seq(Chars), Len(t) < a, NEW at \in Nat, at <= Len(t),
         NEW p \in Seq(Chars), NEW n \in Nat, at + Len(p) + n >= Len(t), at + Len(p) + n <= a,
         at + Len(p) < a, NEW m, m = at + Len(p)
  PROVE  InOrder(WithSize(Write(Held(a, t), at, p \o Zeros(n)), m))
<1> DEFINE s == p \o Zeros(n)
           k == Len(p)
<1>0. k \in Nat /\ Len(t) \in Nat
  OBVIOUS
<1>1. Filled(s, k) /\ Len(s) = k + n
  BY TextFilled, Zenon
<1>2. at + k + n >= Len(t) /\ at + k + n <= a /\ at + k < a /\ m = at + k
  OBVIOUS
<1> HIDE DEF s, k
<1>3. at + Len(s) >= Len(t) /\ at + Len(s) <= a /\ at \in 0 .. Len(t)
  BY <1>0, <1>1, <1>2
<1>4. HoldsText(WithSize(Write(Held(a, t), at, s), at + k), Put(t, at, s, k))
  BY <1>1, <1>2, <1>3, PutInto
<1> QED
  BY <1>2, <1>4, HoldsOrder DEF s

LEMMA LaidAndEnded ==
  ASSUME NEW a \in Nat, NEW t \in Seq(Chars), Len(t) < a, NEW at \in Nat, at <= Len(t),
         NEW p \in Seq(Chars), at + Len(p) >= Len(t), at + Len(p) < a, NEW m, m = at + Len(p)
  PROVE  InOrder(WithSize(Write(Held(a, t), at, p \o <<NUL>>), m))
<1> DEFINE s == p \o <<NUL>>
           k == Len(p)
<1>0. k \in Nat /\ Len(t) \in Nat
  OBVIOUS
<1>1. Filled(s, k) /\ Len(s) = k + 1
  BY TextFilled, Zenon
<1>2. at + k >= Len(t) /\ at + k < a /\ m = at + k
  OBVIOUS
<1> HIDE DEF s, k
<1>3. at + Len(s) >= Len(t) /\ at + Len(s) <= a /\ at \in 0 .. Len(t)
  BY <1>0, <1>1, <1>2
<1>4. HoldsText(WithSize(Write(Held(a, t), at, s), at + k), Put(t, at, s, k))
  BY <1>1, <1>2, <1>3, PutInto
<1> QED
  BY <1>2, <1>4, HoldsOrder DEF s

LEMMA LStripInOrder ==
  ASSUME NEW e, InOrder(e)
  PROVE  InOrder(StrLStrip(e))
<1>1. PICK a \in Nat, t \in Seq(Chars) : Len(t) < a /\ e = Held(a, t)
  BY DEF InOrder
<1>2. e.size = Len(t) /\ Len(t) \in Nat
  BY <1>1, HeldFields
<1>3. CText(e, 0) = t
  <2>1. 0 \in Nat /\ 0 <= Len(t) /\ SubSeq(t, 0 + 1, Len(t)) = t
    BY <1>2
  <2> QED
    BY <1>1, <2>1, TextFrom
<1> DEFINE Kept(n) == /\ \A i \in 1 .. n : IsSpace(t[i])
                      /\ n < Len(t) => ~IsSpace(t[n + 1])
           kept == CHOOSE n \in 0 .. Len(t) : Kept(n)
           p == SubSeq(t, kept + 1, Len(t))
<1>4. \E n \in 0 .. Len(t) : Kept(n)
  BY BlanksEnd
<1>5. CASE e.size = 0
  BY <1>5 DEF StrLStrip
<1>6. CASE e.size # 0
  <2>1. StrLStrip(e) = WithSize(Write(e, 0, p \o Zeros(Greatest(0, Len(t) - (Len(t) - kept)))), Len(t) - kept)
    BY <1>2, <1>3, <1>6 DEF StrLStrip
  <2> HIDE DEF Kept
  <2>2. kept \in 0 .. Len(t)
    BY <1>4
  <2> HIDE DEF kept
  <2>3. Greatest(0, Len(t) - (Len(t) - kept)) = kept /\ kept \in Nat
    BY <1>2, <2>2 DEF Greatest
  <2>4. p \in Seq(Chars) /\ Len(p) = Len(t) - kept
    BY <1>2, <2>2, PartText
  <2> HIDE DEF p
  <2>5. /\ 0 + Len(p) + kept >= Len(t) /\ 0 + Len(p) + kept <= a /\ 0 + Len(p) < a
        /\ Len(t) - kept = 0 + Len(p) /\ 0 \in Nat /\ 0 <= Len(t)
    BY <1>1, <1>2, <2>3, <2>4
  <2>6. InOrder(WithSize(Write(Held(a, t), 0, p \o Zeros(kept)), Len(t) - kept))
    BY <1>1, <2>3, <2>4, <2>5, LaidOver
  <2> QED
    BY <1>1, <2>1, <2>3, <2>6
<1> QED
  BY <1>5, <1>6

LEMMA AssignInOrder ==
  ASSUME NEW e, InOrder(e), NEW b \in Nat, NEW f \in Nat
  PROVE  InOrder(StrAssign(e, b, f))
<1>1. PICK a \in Nat, t \in Seq(Chars) : Len(t) < a /\ e = Held(a, t)
  BY DEF InOrder
<1>0. Len(t) \in Nat /\ a > 0
  BY <1>1
<1>2. e.size = Len(t) /\ Len(t) \in Nat /\ e.bytes = Laid(a, t) /\ e # NoString
  BY <1>0, <1>1, HeldFields
<1>3. /\ Plain(Laid(a, t), Len(t)) /\ Laid(a, t) \in Seq(DOMAIN CodeOf) /\ Len(Laid(a, t)) = a
  BY <1>1, <1>2, LaidPlain
<1> DEFINE h == Least(f, Len(t))
           n == IF b < h THEN h - b ELSE 1
           s == SubSeq(Laid(a, t), b + 1, a)
<1>4. h \in Nat /\ h <= Len(t) /\ n \in Nat /\ n >= 1
  BY <1>2 DEF Least
<1>5. CASE b < Len(t) /\ b <= h
  <2>1. StrAssign(e, b, f) = StrCopyN(StrAlloc(n), s, n)
    BY <1>2, <1>3, <1>5 DEF StrAssign
  <2>2. b + n <= Len(t)
    BY <1>2, <1>4, <1>5
  <2> HIDE DEF h, n
  <2>3. /\ s \in Seq(DOMAIN CodeOf) /\ Len(s) = a - b
        /\ \A i \in 1 .. a - b : s[i] = Laid(a, t)[b + i]
    <3> DEFINE l == Laid(a, t)
               D == DOMAIN CodeOf
    <3>1. l \in Seq(D) /\ Len(l) = a
      BY <1>3
    <3> HIDE DEF l, D
    <3>2. SubSeq(l, b + 1, a) \in Seq(D) /\ Len(SubSeq(l, b + 1, a)) = a - b
          /\ \A i \in 1 .. a - b : SubSeq(l, b + 1, a)[i] = l[b + i]
      BY <1>1, <1>2, <1>5, <3>1
    <3> QED
      BY <3>2 DEF l, D
  <2> HIDE DEF s
  <2>4. \A i \in 1 .. n : i \in 1 .. a - b /\ b + i \in 1 .. Len(t)
    BY <1>1, <1>2, <1>4, <2>2
  <2>5. Plain(s, n)
    BY <1>3, <2>3, <2>4 DEF Plain
  <2>6. n <= Len(s)
    BY <1>1, <1>2, <1>4, <2>2, <2>3
  <2>7. InOrder(StrAlloc(n))
    BY <1>4, AllocHolds
  <2> QED
    BY <1>4, <2>1, <2>3, <2>5, <2>6, <2>7, CopyInOrder
<1>6. CASE ~(b < Len(t) /\ b <= h)
  <2>1. StrAssign(e, b, f) = StrAlloc(8)
    BY <1>2, <1>6 DEF StrAssign
  <2> QED
    BY <2>1, AllocHolds
<1> QED
  BY <1>5, <1>6

(* A part of the text is taken out, as erasing does it.                    *)
LEMMA CleanupAsInOrder ==
  ASSUME NEW a \in Nat, NEW t \in Seq(Chars), Len(t) < a, NEW b \in Nat, NEW f \in Nat,
         b <= f, f <= Len(t), b < Len(t)
  PROVE  InOrder(StrCleanupAs(Held(a, t), b, f))
<1> DEFINE rest == CText(Held(a, t), f)
           n == a - 1 - b - Len(rest)
<1>1. Held(a, t).size = Len(t) /\ Len(t) \in Nat /\ StrCount(Held(a, t)) = a - 1 /\ Held(a, t) # NoString
  BY SMTT(30), HeldFields
<1>2. rest \in Seq(Chars) /\ Len(rest) = Len(t) - f
  BY TextFrom
<1>3. Least(f, Len(t)) = f /\ ~(f - b > Len(t))
  BY <1>1 DEF Least
<1>4. StrCleanupAs(Held(a, t), b, f) =
        WithSize(IF f - b >= Len(t) THEN Write(Held(a, t), 0, Zeros(a - 1))
                 ELSE Write(Held(a, t), b, rest \o Zeros(n)), Len(t) - (f - b))
  BY <1>1, <1>3 DEF StrCleanupAs
<1> HIDE DEF rest
<1>5. n \in Nat /\ b + Len(rest) + n = a - 1 /\ b + Len(rest) < a /\ Len(t) - (f - b) = b + Len(rest)
  BY <1>1, <1>2
<1> HIDE DEF n
<1>6. CASE f - b >= Len(t)
  <2>1. Len(t) - (f - b) = 0
    BY <1>1, <1>6
  <2>2. StrCleanupAs(Held(a, t), b, f) = StrCleanup(Held(a, t))
    BY <1>1, <1>4, <1>6, <2>1 DEF StrCleanup
  <2>3. HoldsText(Held(a, t), t)
    BY DEF HoldsText
  <2> QED
    BY <2>2, <2>3, CleanupHolds, HoldsOrder
<1>7. CASE ~(f - b >= Len(t))
  <2> DEFINE m == Len(t) - (f - b)
  <2>0. b <= Len(t) /\ b + Len(rest) + n >= Len(t) /\ b + Len(rest) + n <= a /\ m = b + Len(rest)
    BY <1>1, <1>2, <1>5
  <2> HIDE DEF m
  <2>2. InOrder(WithSize(Write(Held(a, t), b, rest \o Zeros(n)), m))
    BY <1>2, <1>5, <2>0, LaidOver
  <2>1. InOrder(WithSize(Write(Held(a, t), b, rest \o Zeros(n)), Len(t) - (f - b)))
    BY <2>2 DEF m
  <2> QED
    BY <1>4, <1>7, <2>1
<1> QED
  BY <1>6, <1>7

(* A part of the text gives way to another.                                *)
LEMMA SpliceInOrder ==
  ASSUME NEW a \in Nat, NEW t \in Seq(Chars), Len(t) < a, NEW pos \in Nat, NEW cut \in Nat,
         pos + cut <= Len(t), NEW rep \in Seq(Chars)
  PROVE  InOrder(Splice(Held(a, t), pos, cut, rep))
<1> DEFINE e == Held(a, t)
           rest == CText(e, pos + cut)
           new == rep \o rest
           step == Len(rep) - cut
           fill == Greatest(0, Len(t) - pos - Len(new))
           moved == StrCopy(StrCopy(StrCopyNEris(StrAlloc(Len(t) + Len(rep)), e, pos), rep), rest)
<1>1. /\ e.size = Len(t) /\ Len(t) \in Nat /\ StrCapacity(e) = a - 1 - Len(t) /\ e.bytes = Laid(a, t)
  BY HeldFields
<1>2. pos + cut \in Nat /\ Len(rep) \in Nat
  OBVIOUS
<1>3. rest \in Seq(Chars) /\ Len(rest) = Len(t) - (pos + cut)
  BY <1>2, TextFrom
<1>4. Splice(e, pos, cut, rep) =
        CASE step <= 0 -> WithSize(Write(e, pos, new \o Zeros(fill)), Len(t) + step)
          [] step > 0 /\ step <= StrCapacity(e) -> WithSize(Write(e, pos, new \o <<NUL>>), Len(t) + step)
          [] OTHER -> moved
  BY <1>1 DEF Splice
<1>0. e = Held(a, t)
  OBVIOUS
<1> HIDE DEF e, rest
<1>5. new \in Seq(Chars) /\ Len(new) = Len(rep) + (Len(t) - (pos + cut))
  BY <1>3, CatText
<1> HIDE DEF new
<1>6. pos <= Len(t) /\ pos + Len(new) = Len(t) + step
  BY <1>1, <1>2, <1>5
<1>7. CASE step <= 0
  <2>1. fill \in Nat /\ fill = 0 - step
    BY <1>1, <1>2, <1>5, <1>7 DEF Greatest
  <2>2. /\ pos + Len(new) + fill >= Len(t) /\ pos + Len(new) + fill <= a /\ pos + Len(new) < a
        /\ Len(t) + step = pos + Len(new)
    BY <1>1, <1>2, <1>5, <1>6, <1>7, <2>1
  <2>3. Splice(e, pos, cut, rep) = WithSize(Write(e, pos, new \o Zeros(fill)), Len(t) + step)
    BY <1>4, <1>7
  <2> HIDE DEF fill, step
  <2>4. InOrder(WithSize(Write(Held(a, t), pos, new \o Zeros(fill)), Len(t) + step))
    BY <1>5, <1>6, <2>1, <2>2, LaidOver
  <2> QED
    BY <1>0, <2>3, <2>4
<1>8. CASE step > 0 /\ step <= StrCapacity(e)
  <2>1. pos + Len(new) >= Len(t) /\ pos + Len(new) < a /\ Len(t) + step = pos + Len(new)
    BY <1>1, <1>2, <1>6, <1>8
  <2>2. Splice(e, pos, cut, rep) = WithSize(Write(e, pos, new \o <<NUL>>), Len(t) + step)
    BY <1>2, <1>4, <1>8
  <2> HIDE DEF fill, step
  <2>3. InOrder(WithSize(Write(Held(a, t), pos, new \o <<NUL>>), Len(t) + step))
    BY <1>5, <1>6, <2>1, LaidAndEnded
  <2> QED
    BY <1>0, <2>2, <2>3
<1>9. CASE ~(step <= 0) /\ ~(step > 0 /\ step <= StrCapacity(e))
  <2>1. Splice(e, pos, cut, rep) = moved
    BY <1>4, <1>9
  <2> DEFINE n == Len(t) + Len(rep)
             x == StrCopyNEris(StrAlloc(n), e, pos)
  <2>2. n \in Nat
    BY <1>1, <1>2
  <2>3. InOrder(StrAlloc(n))
    BY <2>2, AllocHolds
  <2> HIDE DEF n
  <2>4. Plain(Laid(a, t), pos) /\ Laid(a, t) \in Seq(DOMAIN CodeOf) /\ Len(Laid(a, t)) = a
    BY <1>6, LaidPlain
  <2>5. x = StrCopyN(StrAlloc(n), Laid(a, t), pos)
    BY <1>1, <1>6 DEF StrCopyNEris, Least
  <2>6. InOrder(x)
    BY <1>1, <1>6, <2>3, <2>4, <2>5, CopyInOrder
  <2>7. moved = StrCopy(StrCopy(x, rep), rest)
    BY DEF x, n
  <2> HIDE DEF x, moved
  <2>8. Len(rep) \in Nat /\ rep \in Seq(DOMAIN CodeOf) /\ Plain(rep, Len(rep)) /\ Len(rep) <= Len(rep)
    BY CharsAreCoded
  <2>9. Len(rest) \in Nat /\ rest \in Seq(DOMAIN CodeOf) /\ Plain(rest, Len(rest)) /\ Len(rest) <= Len(rest)
    BY <1>3, CharsAreCoded
  <2>10. InOrder(StrCopy(x, rep))
    BY <2>6, <2>8, CopyInOrder DEF StrCopy
  <2>11. InOrder(StrCopy(StrCopy(x, rep), rest))
    BY <2>9, <2>10, CopyInOrder DEF StrCopy
  <2> QED
    BY <2>1, <2>7, <2>11 DEF e
<1> QED
  BY <1>0, <1>7, <1>8, <1>9

(* Searching.  sub is read at position q of t.                             *)
Occurs(t, sub, q) == q + Len(sub) <= Len(t) /\ \A i \in 1 .. Len(sub) : t[q + i] = sub[i]

LEMMA PlaceOccurs ==
  ASSUME NEW t \in Seq(Chars), NEW sub \in Seq(Chars), NEW q \in Nat, q + Len(sub) <= Len(t)
  PROVE  (SubSeq(t, q + 1, q + Len(sub)) = sub) <=> Occurs(t, sub, q)
<1> DEFINE u == SubSeq(t, q + 1, q + Len(sub))
<1>1. Len(sub) \in Nat
  OBVIOUS
<1>2. u = [i \in 1 .. Len(sub) |-> u[i]] /\ \A i \in 1 .. Len(sub) : u[i] = t[q + i]
  BY <1>1
<1> HIDE DEF u
<1>3. ASSUME Occurs(t, sub, q) PROVE u = sub
  <2>1. \A i \in 1 .. Len(sub) : u[i] = sub[i]
    BY <1>2, <1>3 DEF Occurs
  <2> QED
    BY <1>2, <2>1, SameText
<1>4. ASSUME u = sub PROVE Occurs(t, sub, q)
  BY <1>2, <1>4 DEF Occurs
<1> QED
  BY <1>3, <1>4 DEF u

LEMMA FirstIsLeast ==
  ASSUME NEW t \in Seq(Chars), NEW sub \in Seq(Chars), NEW from \in Nat
  PROVE  \/ /\ FirstAt(t, from, sub) = NPOS
            /\ \A q \in Nat : q >= from => ~Occurs(t, sub, q)
         \/ /\ FirstAt(t, from, sub) \in Nat /\ FirstAt(t, from, sub) >= from
            /\ Occurs(t, sub, FirstAt(t, from, sub))
            /\ \A q \in Nat : q >= from /\ Occurs(t, sub, q) => FirstAt(t, from, sub) <= q
<1> DEFINE P == {p \in from .. (Len(t) - Len(sub)) : SubSeq(t, p + 1, p + Len(sub)) = sub}
           least == CHOOSE p \in P : \A q \in P : p <= q
<1>1. Len(t) \in Nat /\ Len(sub) \in Nat
  OBVIOUS
<1>2. ASSUME NEW q \in Nat PROVE q \in P <=> (q >= from /\ Occurs(t, sub, q))
  <2>1. CASE q + Len(sub) <= Len(t)
    <3>1. q \in from .. (Len(t) - Len(sub)) <=> q >= from
      BY <1>1, <2>1
    <3> QED
      BY <2>1, <3>1, PlaceOccurs
  <2>2. CASE ~(q + Len(sub) <= Len(t))
    <3>1. q \notin from .. (Len(t) - Len(sub)) /\ ~Occurs(t, sub, q)
      BY <1>1, <2>2 DEF Occurs
    <3> QED
      BY <3>1
  <2> QED
    BY <2>1, <2>2
<1>3. P \subseteq Nat
  BY <1>1
<1>4. FirstAt(t, from, sub) = IF P = {} THEN NPOS ELSE least
  BY DEF FirstAt
<1> HIDE DEF P
<1>5. CASE P = {}
  BY <1>2, <1>4, <1>5
<1>6. CASE P # {}
  <2>1. \E p \in P : \A q \in P : p <= q
    BY <1>3, <1>6, LeastOf
  <2>2. least \in P /\ \A q \in P : least <= q
    BY <2>1
  <2>3. FirstAt(t, from, sub) = least
    BY <1>4, <1>6
  <2> HIDE DEF least
  <2> QED
    BY <1>2, <1>3, <2>2, <2>3
<1> QED
  BY <1>5, <1>6

LEMMA FirstPassed ==
  ASSUME NEW t \in Seq(Chars), NEW sub \in Seq(Chars), NEW p \in Nat, NEW q \in Nat, p <= q,
         \A r \in p .. q - 1 : ~Occurs(t, sub, r)
  PROVE  FirstAt(t, p, sub) = FirstAt(t, q, sub)
<1> DEFINE x == FirstAt(t, p, sub)
           y == FirstAt(t, q, sub)
<1>1. \/ x = NPOS /\ \A r \in Nat : r >= p => ~Occurs(t, sub, r)
      \/ /\ x \in Nat /\ x >= p /\ Occurs(t, sub, x)
         /\ \A r \in Nat : r >= p /\ Occurs(t, sub, r) => x <= r
  BY FirstIsLeast
<1>2. \/ y = NPOS /\ \A r \in Nat : r >= q => ~Occurs(t, sub, r)
      \/ /\ y \in Nat /\ y >= q /\ Occurs(t, sub, y)
         /\ \A r \in Nat : r >= q /\ Occurs(t, sub, r) => y <= r
  BY FirstIsLeast
<1> HIDE DEF x, y
<1>3. CASE x = NPOS /\ \A r \in Nat : r >= p => ~Occurs(t, sub, r)
  <2>1. ASSUME y \in Nat, y >= q, Occurs(t, sub, y) PROVE FALSE
    <3>1. y >= p
      BY <2>1
    <3> QED
      BY <1>3, <2>1, <3>1
  <2> QED
    BY <1>2, <1>3, <2>1 DEF x, y
<1>4. CASE /\ x \in Nat /\ x >= p /\ Occurs(t, sub, x)
           /\ \A r \in Nat : r >= p /\ Occurs(t, sub, r) => x <= r
  <2>1. x >= q
    <3> SUFFICES ASSUME ~(x >= q) PROVE FALSE
      OBVIOUS
    <3>1. x \in p .. q - 1
      BY <1>4
    <3> QED
      BY <1>4, <3>1
  <2>2. y \in Nat /\ y >= q /\ Occurs(t, sub, y) /\ y <= x
    BY <1>2, <1>4, <2>1
  <2>3. y >= p
    BY <2>2
  <2>4. x <= y
    BY <1>4, <2>2, <2>3
  <2>5. x = y
    BY <1>4, <2>2, <2>4
  <2> QED
    BY <2>5 DEF x, y
<1> QED
  BY <1>1, <1>3, <1>4

(* A match that starts at p: how far it goes.                              *)
LEMMA MatchEnds ==
  ASSUME NEW a \in Nat, NEW t \in Seq(Chars), Len(t) < a, NEW sub \in Seq(Chars),
         NEW p \in Nat, p < Len(t)
  PROVE  LET m == Matched(Held(a, t), p, sub)
         IN /\ m \in 0 .. Len(sub) /\ p + m <= Len(t)
            /\ m = Len(sub) => Occurs(t, sub, p)
            /\ m < Len(sub) => ~Occurs(t, sub, p)
<1> DEFINE e == Held(a, t)
           Stops(n) == n < Len(sub) => Byte(e, p + n) # sub[n + 1]
           Runs(n) == \A i \in 1 .. n : Byte(e, p + i - 1) = sub[i]
           m == CHOOSE n \in 0 .. Len(sub) : Runs(n) /\ Stops(n)
           T == {n \in 0 .. Len(sub) : Stops(n)}
<1>1. Len(sub) \in Nat /\ Len(t) \in Nat /\ \A i \in 1 .. Len(sub) : sub[i] # NUL
  BY TextFacts
<1>2. \A i \in Nat : /\ i < Len(t) => Byte(e, i) = t[i + 1]
                     /\ i >= Len(t) => Byte(e, i) = NUL
  BY HeldByte
<1>3. Matched(e, p, sub) = m
  BY DEF Matched
<1> HIDE DEF e
<1>4. Len(sub) \in T /\ T \subseteq Nat
  BY <1>1
<1>5. PICK n \in T : \A k \in T : n <= k
  BY <1>4, LeastOf
<1>6. Runs(n)
  <2> SUFFICES ASSUME NEW i \in 1 .. n PROVE Byte(e, p + i - 1) = sub[i]
    OBVIOUS
  <2>1. n \in 0 .. Len(sub)
    BY <1>5
  <2>2. i - 1 \in 0 .. Len(sub) /\ i - 1 < n /\ (i - 1) + 1 = i /\ p + (i - 1) = p + i - 1
    BY <1>1, <2>1
  <2>3. i - 1 \notin T
    <3> HIDE DEF T
    <3>1. i - 1 \in T => n <= i - 1
      BY <1>5
    <3> QED
      BY <2>1, <2>2, <3>1
  <2> QED
    BY <2>2, <2>3
<1>7. n \in 0 .. Len(sub) /\ Runs(n) /\ Stops(n)
  BY <1>5, <1>6
<1>8. m \in 0 .. Len(sub) /\ Runs(m) /\ Stops(m)
  <2> HIDE DEF Runs, Stops
  <2> QED
    BY <1>7
<1> HIDE DEF m, T
<1>9. \A i \in 1 .. m : p + i - 1 < Len(t) /\ t[p + i] = sub[i]
  <2> SUFFICES ASSUME NEW i \in 1 .. m PROVE p + i - 1 < Len(t) /\ t[p + i] = sub[i]
    OBVIOUS
  <2>1. p + i - 1 \in Nat /\ i \in 1 .. Len(sub) /\ (p + i - 1) + 1 = p + i
    BY <1>1, <1>8
  <2>2. Byte(e, p + i - 1) = sub[i]
    BY <1>8
  <2> QED
    BY <1>1, <1>2, <2>1, <2>2
<1>10. p + m <= Len(t)
  <2>1. CASE m = 0
    BY <1>1, <2>1
  <2>2. CASE m # 0
    <3>1. m \in 1 .. m
      BY <1>1, <1>8, <2>2
    <3> QED
      BY <1>1, <1>8, <1>9, <3>1
  <2> QED
    BY <2>1, <2>2
<1>11. ASSUME m = Len(sub) PROVE Occurs(t, sub, p)
  BY <1>9, <1>10, <1>11 DEF Occurs
<1>12. ASSUME m < Len(sub), Occurs(t, sub, p) PROVE FALSE
  <2>1. m + 1 \in 1 .. Len(sub) /\ p + (m + 1) = (p + m) + 1 /\ p + m \in Nat
    BY <1>1, <1>8, <1>12
  <2>2. t[p + (m + 1)] = sub[m + 1] /\ p + Len(sub) <= Len(t)
    BY <1>12, <2>1 DEF Occurs
  <2>3. p + m < Len(t)
    BY <1>1, <1>8, <1>12, <2>2
  <2>4. Byte(e, p + m) = sub[m + 1]
    BY <1>2, <2>1, <2>2, <2>3
  <2> QED
    BY <1>8, <1>12, <2>4
<1> QED
  BY <1>3, <1>8, <1>10, <1>11, <1>12 DEF e

(* The round of a search that starts a match at p, given the later ones.   *)
Sought(f, es0, sub, p) ==
  LET m == Matched(es0, p, sub)
      behind == CText(es0, p + m + 1)
      next == {i \in 1 .. Len(behind) : behind[i] = sub[m + 1]}
  IN CASE Byte(es0, p) = NUL -> NPOS
       [] Byte(es0, p) # NUL /\ m = Len(sub) -> p
       [] Byte(es0, p) # NUL /\ m < Len(sub) /\ next = {} -> NPOS
       [] OTHER -> f[p + CHOOSE i \in next : \A j \in next : i <= j]

LEMMA BehindText ==
  ASSUME NEW a \in Nat, NEW t \in Seq(Chars), Len(t) < a, NEW at \in Nat, at <= Len(t) + 1
  PROVE  LET u == CText(Held(a, t), at)
         IN /\ Len(u) \in Nat /\ (at <= Len(t) => Len(u) = Len(t) - at) /\ (at > Len(t) => Len(u) = 0)
            /\ \A i \in 1 .. Len(u) : u[i] = t[at + i]
<1>0. Len(t) \in Nat
  OBVIOUS
<1>1. CASE at <= Len(t)
  <2>1. CText(Held(a, t), at) = SubSeq(t, at + 1, Len(t)) /\ Len(CText(Held(a, t), at)) = Len(t) - at
    BY <1>1, TextFrom
  <2>2. \A i \in 1 .. Len(t) - at : SubSeq(t, at + 1, Len(t))[i] = t[at + i]
    BY <1>0, <1>1
  <2> QED
    BY <1>0, <1>1, <2>1, <2>2
<1>2. CASE at > Len(t)
  <2> DEFINE e == Held(a, t)
             End(i) == Byte(e, i) = NUL /\ \A j \in at .. (i - 1) : Byte(e, j) # NUL
             end == CHOOSE i \in at .. (Len(e.bytes) + at) : End(i)
  <2>1. CText(e, at) = SubSeq(e.bytes, at + 1, end)
    BY DEF CText
  <2>2. Len(e.bytes) = a /\ e.bytes \in Seq(DOMAIN CodeOf)
    BY HeldFields
  <2>3. \A i \in Nat : i >= Len(t) => Byte(e, i) = NUL
    BY HeldByte
  <2> HIDE DEF e
  <2>4. at \in at .. (Len(e.bytes) + at) /\ End(at)
    BY <1>0, <1>2, <2>2, <2>3
  <2>5. end \in at .. (Len(e.bytes) + at) /\ End(end)
    <3> HIDE DEF End
    <3> QED
      BY <2>4
  <2> HIDE DEF end
  <2>6. end = at
    <3> SUFFICES ASSUME end # at PROVE FALSE
      OBVIOUS
    <3>1. at \in at .. (end - 1)
      BY <2>2, <2>5
    <3>2. Byte(e, at) = NUL
      BY <1>0, <1>2, <2>3
    <3> QED
      BY <2>5, <3>1, <3>2
  <2>7. Len(SubSeq(e.bytes, at + 1, at)) = 0
    <3> DEFINE b == e.bytes
               D == DOMAIN CodeOf
    <3>1. b \in Seq(D)
      BY <2>2
    <3> HIDE DEF b, D
    <3>2. Len(SubSeq(b, at + 1, at)) = 0
      BY <3>1
    <3> QED
      BY <3>2 DEF b
  <2>8. Len(CText(e, at)) = 0
    BY <2>1, <2>6, <2>7
  <2> QED
    BY <1>0, <1>2, <2>8 DEF e
<1> QED
  BY <1>0, <1>1, <1>2

(* A round finds the first occurrence from p on when the later ones do.    *)
LEMMA SoughtIsFirst ==
  ASSUME NEW a \in Nat, NEW t \in Seq(Chars), Len(t) < a, NEW sub \in Seq(Chars), sub # <<>>,
         NEW p \in 0 .. a, NEW f, \A q \in p + 1 .. a : f[q] = FirstAt(t, q, sub)
  PROVE  Sought(f, Held(a, t), sub, p) = FirstAt(t, p, sub)
<1> DEFINE e == Held(a, t)
           m == Matched(e, p, sub)
           behind == CText(e, p + m + 1)
           next == {i \in 1 .. Len(behind) : behind[i] = sub[m + 1]}
           least == CHOOSE i \in next : \A j \in next : i <= j
<1>1. Len(sub) \in Nat /\ Len(sub) >= 1 /\ Len(t) \in Nat /\ p \in Nat
  OBVIOUS
<1>2. /\ p < Len(t) => Byte(e, p) # NUL
      /\ p >= Len(t) => Byte(e, p) = NUL
  BY <1>1, HeldByte
<1>3. Sought(f, e, sub, p) =
        CASE Byte(e, p) = NUL -> NPOS
          [] Byte(e, p) # NUL /\ m = Len(sub) -> p
          [] Byte(e, p) # NUL /\ m < Len(sub) /\ next = {} -> NPOS
          [] OTHER -> f[p + least]
  BY DEF Sought
<1>4. \/ /\ FirstAt(t, p, sub) = NPOS
         /\ \A q \in Nat : q >= p => ~Occurs(t, sub, q)
      \/ /\ FirstAt(t, p, sub) \in Nat /\ FirstAt(t, p, sub) >= p
         /\ Occurs(t, sub, FirstAt(t, p, sub))
         /\ \A q \in Nat : q >= p /\ Occurs(t, sub, q) => FirstAt(t, p, sub) <= q
  BY <1>1, FirstIsLeast
<1>5. CASE p >= Len(t)
  <2>1. \A q \in Nat : q >= p => ~Occurs(t, sub, q)
    BY <1>1, <1>5 DEF Occurs
  <2>2. Sought(f, e, sub, p) = NPOS
    BY <1>2, <1>3, <1>5
  <2> QED
    BY <1>4, <2>1, <2>2
<1>6. CASE p < Len(t)
  <2>1. /\ m \in 0 .. Len(sub) /\ p + m <= Len(t)
        /\ m = Len(sub) => Occurs(t, sub, p)
        /\ m < Len(sub) => ~Occurs(t, sub, p)
    BY <1>1, <1>6, MatchEnds
  <2>2. CASE m = Len(sub)
    <3>1. Sought(f, e, sub, p) = p
      BY <1>2, <1>3, <1>6, <2>2
    <3>2. Occurs(t, sub, p)
      BY <2>1, <2>2
    <3> HIDE DEF m, e
    <3>3. FirstAt(t, p, sub) = p
      BY <1>1, <1>4, <3>2
    <3> QED
      BY <3>1, <3>3 DEF e
  <2>3. CASE m < Len(sub)
    <3> HIDE DEF m
    <3>0. p + m + 1 \in Nat /\ p + m + 1 <= Len(t) + 1
      BY <1>1, <2>1
    <3>1. /\ Len(behind) \in Nat /\ (p + m + 1 <= Len(t) => Len(behind) = Len(t) - (p + m + 1))
          /\ \A i \in 1 .. Len(behind) : behind[i] = t[(p + m + 1) + i]
          /\ p + m + 1 > Len(t) => Len(behind) = 0
      BY <3>0, BehindText
    <3> HIDE DEF behind, e
    <3>2. ASSUME NEW q \in Nat, q >= p, Occurs(t, sub, q)
          PROVE  q - p \in next
      <4>1. q # p
        BY <2>1, <2>3, <3>2
      <4>2. m + 1 \in 1 .. Len(sub) /\ q + (m + 1) = (p + m + 1) + (q - p)
        BY <1>1, <2>1, <2>3
      <4>3. t[q + (m + 1)] = sub[m + 1] /\ q + Len(sub) <= Len(t)
        BY <3>2, <4>2 DEF Occurs
      <4>4. q - p \in 1 .. Len(behind)
        BY <1>1, <2>1, <2>3, <3>1, <3>2, <4>1, <4>3
      <4> QED
        BY <3>1, <4>2, <4>3, <4>4
    <3>3. CASE next = {}
      <4>1. Sought(f, e, sub, p) = NPOS
        BY <1>2, <1>3, <1>6, <2>1, <2>3, <3>3
      <4> HIDE DEF next
      <4> QED
        BY <1>4, <3>2, <3>3, <4>1 DEF e
    <3>4. CASE next # {}
      <4>1. Sought(f, e, sub, p) = f[p + least]
        BY <1>2, <1>3, <1>6, <2>1, <2>3, <3>4
      <4>2. next \subseteq Nat /\ next \subseteq 1 .. Len(behind)
        BY <3>1
      <4> HIDE DEF next
      <4>3. \E i \in next : \A j \in next : i <= j
        BY <3>4, <4>2, LeastOf
      <4>4. least \in next /\ \A j \in next : least <= j
        BY <4>3
      <4> HIDE DEF least
      <4>5. least \in Nat /\ least >= 1 /\ least <= Len(behind)
        BY <3>1, <4>2, <4>4
      <4>6. p + least \in p + 1 .. a /\ p + least \in Nat
        BY <1>1, <2>1, <3>1, <4>5
      <4>7. ASSUME NEW r \in p .. p + least - 1, Occurs(t, sub, r) PROVE FALSE
        <5>1. r \in Nat /\ r >= p /\ r - p < least
          BY <1>1, <4>5
        <5>2. r - p \in next
          BY <3>2, <4>7, <5>1
        <5>3. least <= r - p
          BY <4>4, <5>2
        <5> QED
          BY <1>1, <4>5, <5>1, <5>3
      <4>8. FirstAt(t, p, sub) = FirstAt(t, p + least, sub)
        BY <1>1, <4>5, <4>6, <4>7, FirstPassed
      <4>9. f[p + least] = FirstAt(t, p + least, sub)
        BY <4>6
      <4> QED
        BY <4>1, <4>8, <4>9 DEF e
    <3> QED
      BY <3>3, <3>4
  <2> QED
    BY <1>1, <2>1, <2>2, <2>3
<1> QED
  BY <1>1, <1>5, <1>6

(* A search that skips finds the first occurrence there is.                *)
LEMMA SearchIsFirst ==
  ASSUME NEW a \in Nat, NEW t \in Seq(Chars), Len(t) < a, NEW sub \in Seq(Chars), sub # <<>>,
         NEW from \in 0 .. a
  PROVE  Search(Held(a, t), from, sub) = FirstAt(t, from, sub)
<1> DEFINE e == Held(a, t)
           g == [p \in from .. a |-> FirstAt(t, p, sub)]
           match == CHOOSE f : f = [p \in from .. a |-> Sought(f, e, sub, p)]
<1>1. Len(e.bytes) = a
  BY HeldFields
<1>2. Search(e, from, sub) = match[from]
  <2>1. Search(e, from, sub) =
          (CHOOSE f : f = [p \in from .. Len(e.bytes) |-> Sought(f, e, sub, p)])[from]
    BY DEF Search, Sought
  <2> QED
    BY <1>1, <2>1
<1>0. e = Held(a, t)
  OBVIOUS
<1> HIDE DEF e
<1>3. ASSUME NEW f, NEW p \in from .. a, \A q \in p + 1 .. a : f[q] = FirstAt(t, q, sub)
      PROVE  Sought(f, e, sub, p) = FirstAt(t, p, sub)
  <2>1. p \in 0 .. a
    OBVIOUS
  <2> QED
    BY <1>0, <1>3, <2>1, SoughtIsFirst
<1>4. g = [p \in from .. a |-> Sought(g, e, sub, p)]
  <2>1. \A p \in from .. a : g[p] = FirstAt(t, p, sub)
    OBVIOUS
  <2>2. g = [p \in from .. a |-> g[p]]
    OBVIOUS
  <2> HIDE DEF g
  <2>3. ASSUME NEW p \in from .. a PROVE Sought(g, e, sub, p) = g[p]
    <3>1. \A q \in p + 1 .. a : q \in from .. a
      OBVIOUS
    <3>2. \A q \in p + 1 .. a : g[q] = FirstAt(t, q, sub)
      BY <2>1, <3>1
    <3>3. Sought(g, e, sub, p) = FirstAt(t, p, sub)
      BY <1>3, <3>2
    <3> QED
      BY <2>1, <3>3
  <2> QED
    BY <2>2, <2>3
<1>5. match = [p \in from .. a |-> Sought(match, e, sub, p)]
  BY <1>4
<1> HIDE DEF match, g
<1> DEFINE S == {n \in Nat : \A p \in from .. a : a - p <= n => match[p] = FirstAt(t, p, sub)}
<1>6. ASSUME NEW p \in from .. a, \A q \in p + 1 .. a : match[q] = FirstAt(t, q, sub)
      PROVE  match[p] = FirstAt(t, p, sub)
  <2>1. match[p] = Sought(match, e, sub, p)
    BY <1>5
  <2> QED
    BY <1>3, <1>6, <2>1
<1>7. 0 \in S
  <2> SUFFICES ASSUME NEW p \in from .. a, a - p <= 0 PROVE match[p] = FirstAt(t, p, sub)
    OBVIOUS
  <2>1. \A q \in p + 1 .. a : match[q] = FirstAt(t, q, sub)
    OBVIOUS
  <2> QED
    BY <1>6, <2>1
<1>8. ASSUME NEW n \in Nat, n \in S PROVE n + 1 \in S
  <2> SUFFICES ASSUME NEW p \in from .. a, a - p <= n + 1 PROVE match[p] = FirstAt(t, p, sub)
    OBVIOUS
  <2>1. ASSUME NEW q \in p + 1 .. a PROVE match[q] = FirstAt(t, q, sub)
    <3>1. q \in from .. a /\ a - q <= n
      OBVIOUS
    <3> QED
      BY <1>8, <3>1
  <2> QED
    BY <1>6, <2>1
<1> HIDE DEF S
<1>9. a \in S
  BY <1>7, <1>8, Induction
<1>10. match[from] = FirstAt(t, from, sub)
  BY <1>9 DEF S
<1> QED
  BY <1>0, <1>2, <1>10

LEMMA FindIsFirst ==
  ASSUME NEW a \in Nat, NEW t \in Seq(Chars), Len(t) < a, NEW sub \in Seq(Chars), sub # <<>>,
         NEW at \in Nat
  PROVE  /\ StrFindAt(Held(a, t), at, sub) = FirstAt(t, at, sub)
         /\ StrFind(Held(a, t), sub) = FirstAt(t, 0, sub)
<1>1. Held(a, t).size = Len(t) /\ Len(t) \in Nat /\ Len(sub) \in Nat /\ Len(sub) >= 1
  <2>1. Held(a, t).size = Len(t)
    BY HeldFields
  <2>2. Len(t) \in Nat /\ Len(sub) \in Nat /\ Len(sub) >= 1
    OBVIOUS
  <2> QED
    BY <2>1, <2>2
<1>2. ASSUME NEW n \in Nat PROVE StrFindAt(Held(a, t), n, sub) = FirstAt(t, n, sub)
  <2>1. CASE n >= Len(t)
    <3>1. \A q \in Nat : q >= n => ~Occurs(t, sub, q)
      BY <1>1, <2>1 DEF Occurs
    <3>2. FirstAt(t, n, sub) = NPOS
      <4> DEFINE x == FirstAt(t, n, sub)
      <4>1. x = NPOS \/ (x \in Nat /\ x >= n /\ Occurs(t, sub, x))
        BY FirstIsLeast
      <4> HIDE DEF x
      <4> QED
        BY <3>1, <4>1 DEF x
    <3> QED
      BY <1>1, <2>1, <3>2 DEF StrFindAt
  <2>2. CASE n < Len(t)
    <3>1. n \in 0 .. a
      BY <1>1, <2>2
    <3>2. StrFindAt(Held(a, t), n, sub) = Search(Held(a, t), n, sub)
      BY <1>1, <2>2 DEF StrFindAt
    <3> QED
      BY <3>1, <3>2, SearchIsFirst
  <2> QED
    BY <1>1, <2>1, <2>2
<1>3. StrFind(Held(a, t), sub) = StrFindAt(Held(a, t), 0, sub)
  BY <1>1 DEF StrFind, StrFindAt
<1> QED
  BY <1>2, <1>3

LEMMA FoundInside ==
  ASSUME NEW a \in Nat, NEW t \in Seq(Chars), Len(t) < a, NEW sub \in Seq(Chars), NEW at \in Nat,
         NEW pos, pos \in {StrFindAt(Held(a, t), at, sub), StrFind(Held(a, t), sub)}, pos # NPOS
  PROVE  pos \in Nat /\ pos + Len(sub) <= Len(t) /\ Len(sub) \in Nat /\ Len(sub) >= 1
<1>1. sub # <<>>
  BY DEF StrFind, StrFindAt
<1>2. Len(sub) \in Nat /\ Len(sub) >= 1 /\ 0 \in Nat
  BY <1>1
<1>3. \E n \in Nat : pos = FirstAt(t, n, sub)
  BY <1>1, <1>2, FindIsFirst
<1>4. PICK n \in Nat : pos = FirstAt(t, n, sub)
  BY <1>3
<1>5. pos \in Nat /\ Occurs(t, sub, pos)
  BY <1>4, FirstIsLeast
<1> QED
  BY <1>2, <1>5 DEF Occurs

LEMMA ReplaceInOrder ==
  ASSUME NEW e, InOrder(e), NEW sub \in Seq(Chars), NEW rep \in Seq(Chars), NEW at \in Nat
  PROVE  InOrder(StrReplaceAt(e, at, sub, rep)) /\ InOrder(StrReplace(e, sub, rep))
<1>1. PICK a \in Nat, t \in Seq(Chars) : Len(t) < a /\ e = Held(a, t)
  BY DEF InOrder
<1>2. ASSUME NEW pos \in {StrFindAt(e, at, sub), StrFind(e, sub)}
      PROVE  InOrder(SpliceIfFound(e, pos, Len(sub), rep))
  <2>1. CASE pos = NPOS
    BY <2>1 DEF SpliceIfFound
  <2>2. CASE pos # NPOS
    <3>1. pos \in Nat /\ pos + Len(sub) <= Len(t) /\ Len(sub) \in Nat
      BY <1>1, <2>2, FoundInside
    <3>2. InOrder(Splice(Held(a, t), pos, Len(sub), rep))
      BY <1>1, <3>1, SpliceInOrder
    <3> QED
      BY <1>1, <2>2, <3>2 DEF SpliceIfFound
  <2> QED
    BY <2>1, <2>2
<1> QED
  BY <1>2 DEF StrReplaceAt, StrReplace

(* The rounds of a loop whose step stays in a set.                         *)
Looped(f, F, start, k) == f = [n \in 0 .. k |-> IF n = 0 THEN start ELSE F[f[n - 1]]]

LEMMA LoopRuns ==
  ASSUME NEW S, NEW F \in [S -> S], NEW start \in S, NEW k \in Nat
  PROVE  \E f : Looped(f, F, start, k) /\ \A n \in 0 .. k : f[n] \in S
<1> DEFINE From(f, n) == IF n = 0 THEN start ELSE F[f[n - 1]]
           Runs(f, m) == f = [n \in 0 .. m |-> From(f, n)] /\ \A n \in 0 .. m : f[n] \in S
           Reached == {m \in Nat : \E f : Runs(f, m)}
<1>1. 0 \in Reached
  <2> DEFINE f == [n \in 0 .. 0 |-> start]
  <2>1. Runs(f, 0)
    OBVIOUS
  <2> QED
    BY <2>1
<1>2. ASSUME NEW m \in Nat, m \in Reached PROVE m + 1 \in Reached
  <2>1. PICK f : Runs(f, m)
    BY <1>2
  <2> DEFINE h == [n \in 0 .. m + 1 |-> IF n <= m THEN f[n] ELSE F[f[m]]]
  <2>2. f[m] \in S /\ F[f[m]] \in S
    BY <2>1
  <2>3. h = [n \in 0 .. m + 1 |-> h[n]] /\ \A n \in 0 .. m + 1 : h[n] = IF n <= m THEN f[n] ELSE F[f[m]]
    OBVIOUS
  <2> HIDE DEF h
  <2>4. ASSUME NEW n \in 0 .. m + 1 PROVE h[n] = From(h, n) /\ h[n] \in S
    <3>1. CASE n <= m
      <4>1. n \in 0 .. m /\ h[n] = f[n] /\ f[n] = From(f, n) /\ f[n] \in S
        BY <2>1, <2>3, <3>1
      <4>2. n # 0 => n - 1 \in 0 .. m + 1 /\ n - 1 <= m
        BY <3>1
      <4>3. n # 0 => h[n - 1] = f[n - 1]
        BY <2>3, <4>2
      <4> QED
        BY <4>1, <4>3
    <3>2. CASE n = m + 1
      <4>1. n - 1 = m /\ n # 0 /\ ~(n <= m) /\ m \in 0 .. m + 1 /\ m <= m
        BY <3>2
      <4>2. h[n] = F[f[m]] /\ h[m] = f[m]
        BY <2>3, <4>1
      <4> QED
        BY <2>2, <4>1, <4>2
    <3> QED
      BY <3>1, <3>2
  <2> HIDE DEF From
  <2>5. Runs(h, m + 1)
    BY <2>3, <2>4
  <2> QED
    BY <2>5
<1> HIDE DEF Reached
<1>3. k \in Reached
  BY <1>1, <1>2, Induction
<1> QED
  BY <1>3 DEF Reached, Looped

LEMMA LoopStays ==
  ASSUME NEW S, NEW f, NEW k \in Nat, f[0] \in S,
         \A n \in 1 .. k : f[n - 1] \in S => f[n] \in S
  PROVE  f[k] \in S
<1> DEFINE T == {n \in Nat : n <= k => f[n] \in S}
<1>1. 0 \in T
  OBVIOUS
<1>2. ASSUME NEW n \in Nat, n \in T PROVE n + 1 \in T
  <2>1. n + 1 <= k => n + 1 \in 1 .. k /\ (n + 1) - 1 = n /\ n <= k
    OBVIOUS
  <2> QED
    BY <1>2, <2>1
<1> HIDE DEF T
<1>3. k \in T
  BY <1>1, <1>2, Induction
<1> QED
  BY <1>3 DEF T

Ordered == {e \in [alloc : Nat, size : Nat, bytes : Seq(DOMAIN CodeOf)] : InOrder(e)}
LEMMA OrderedAre ==
  ASSUME NEW e
  PROVE  e \in Ordered <=> InOrder(e)
<1> SUFFICES ASSUME InOrder(e) PROVE e \in [alloc : Nat, size : Nat, bytes : Seq(DOMAIN CodeOf)]
  BY DEF Ordered
<1>1. PICK a \in Nat, t \in Seq(Chars) : Len(t) < a /\ e = Held(a, t)
  BY DEF InOrder
<1>2. Len(t) \in Nat /\ Laid(a, t) \in Seq(DOMAIN CodeOf)
  <2>1. Len(t) \in Nat
    OBVIOUS
  <2> QED
    BY <1>1, <2>1, LaidPlain
<1>3. e = [alloc |-> a, size |-> Len(t), bytes |-> Laid(a, t)]
  BY <1>1 DEF Held
<1> DEFINE D == Seq(DOMAIN CodeOf)
           l == Laid(a, t)
<1>4. l \in D /\ e = [alloc |-> a, size |-> Len(t), bytes |-> l]
  BY <1>2, <1>3
<1> HIDE DEF D, l
<1>5. e \in [alloc : Nat, size : Nat, bytes : D]
  BY <1>2, <1>4
<1> QED
  BY <1>5 DEF D

LEMMA ReplaceAllInOrder ==
  ASSUME NEW e, InOrder(e), NEW sub \in Seq(Chars), NEW rep \in Seq(Chars)
  PROVE  InOrder(StrReplaceAll(e, sub, rep))
<1> DEFINE Step(x) == LET pos == StrFindAt(x.es, x.at, sub)
                      IN IF pos = NPOS THEN x
                         ELSE [es |-> StrReplaceAt(x.es, pos, sub, rep), at |-> pos + Len(rep)]
           S == [es : Ordered, at : Nat]
           start == [es |-> e, at |-> 0]
           F == [x \in S |-> Step(x)]
           after == CHOOSE f : f = [n \in 0 .. e.size |-> IF n = 0 THEN start ELSE Step(f[n - 1])]
<1>1. StrReplaceAll(e, sub, rep) = after[e.size].es
  BY DEF StrReplaceAll, StrReplaceAllAt, Rounds
<1>2. e.size \in Nat
  <2>1. PICK a \in Nat, t \in Seq(Chars) : Len(t) < a /\ e = Held(a, t)
    BY DEF InOrder
  <2>2. e.size = Len(t)
    BY <2>1, HeldFields
  <2> QED
    BY <2>2
<1>3. start \in S
  BY OrderedAre
<1>4. ASSUME NEW x \in S PROVE Step(x) \in S
  <2> DEFINE pos == StrFindAt(x.es, x.at, sub)
  <2>1. InOrder(x.es) /\ x.at \in Nat
    BY <1>4, OrderedAre
  <2>2. PICK a \in Nat, t \in Seq(Chars) : Len(t) < a /\ x.es = Held(a, t)
    BY <2>1 DEF InOrder
  <2>3. CASE pos = NPOS
    BY <1>4, <2>3
  <2>4. CASE pos # NPOS
    <3>1. pos \in Nat
      BY <2>1, <2>2, <2>4, FoundInside
    <3> HIDE DEF pos
    <3>2. StrReplaceAt(x.es, pos, sub, rep) \in Ordered
      BY <2>1, <3>1, ReplaceInOrder, OrderedAre
    <3>3. pos + Len(rep) \in Nat
      BY <3>1
    <3>4. Step(x) = [es |-> StrReplaceAt(x.es, pos, sub, rep), at |-> pos + Len(rep)]
      BY <2>4 DEF pos
    <3> QED
      BY <3>2, <3>3, <3>4
  <2> QED
    BY <2>3, <2>4
<1> HIDE DEF Step, start, S
<1>5. F \in [S -> S]
  BY <1>4
<1>6. \E f : f = [n \in 0 .. e.size |-> IF n = 0 THEN start ELSE Step(f[n - 1])]
  <2> DEFINE k == e.size
  <2>1. k \in Nat
    BY <1>2
  <2> HIDE DEF k, F
  <2>2. PICK f : Looped(f, F, start, k) /\ \A n \in 0 .. k : f[n] \in S
    BY <1>3, <1>5, <2>1, LoopRuns
  <2>3. ASSUME NEW n \in 0 .. k, n # 0 PROVE F[f[n - 1]] = Step(f[n - 1])
    <3>1. n - 1 \in 0 .. k
      BY <2>1, <2>3
    <3>2. f[n - 1] \in S
      BY <2>2, <3>1
    <3> QED
      BY <3>2 DEF F
  <2>4. f = [n \in 0 .. k |-> IF n = 0 THEN start ELSE Step(f[n - 1])]
    BY <2>2, <2>3 DEF Looped
  <2> QED
    BY <2>4 DEF k
<1>7. after = [n \in 0 .. e.size |-> IF n = 0 THEN start ELSE Step(after[n - 1])]
  BY <1>6
<1> HIDE DEF after, F
<1>8. after[e.size] \in S
  <2> DEFINE k == e.size
  <2>1. k \in Nat /\ after = [n \in 0 .. k |-> IF n = 0 THEN start ELSE Step(after[n - 1])]
    BY <1>2, <1>7
  <2> HIDE DEF k
  <2>2. after[0] \in S
    BY <1>3, <2>1
  <2>3. \A n \in 1 .. k : after[n] = Step(after[n - 1])
    BY <2>1
  <2>4. \A n \in 1 .. k : after[n - 1] \in S => after[n] \in S
    BY <1>4, <2>3
  <2>5. after[k] \in S
    BY <2>1, <2>2, <2>4, LoopStays
  <2> QED
    BY <2>5 DEF k
<1>9. after[e.size].es \in Ordered
  BY <1>8 DEF S
<1> QED
  BY <1>1, <1>9, OrderedAre

LEMMA EraseInOrder ==
  ASSUME NEW e, InOrder(e), NEW sub \in Seq(Chars)
  PROVE  InOrder(StrErase(e, sub))
<1> DEFINE Step(x) == LET pos == StrFindAt(x.es, x.at, sub)
                      IN IF pos = NPOS THEN x
                         ELSE [es |-> StrCleanupAs(x.es, pos, pos + Len(sub)), at |-> x.at + pos]
           S == [es : Ordered, at : Nat]
           start == [es |-> e, at |-> 0]
           F == [x \in S |-> Step(x)]
           after == CHOOSE f : f = [n \in 0 .. e.size |-> IF n = 0 THEN start ELSE Step(f[n - 1])]
<1>1. StrErase(e, sub) = after[e.size].es
  BY DEF StrErase, StrEraseAt, Rounds
<1>2. e.size \in Nat
  <2>1. PICK a \in Nat, t \in Seq(Chars) : Len(t) < a /\ e = Held(a, t)
    BY DEF InOrder
  <2>2. e.size = Len(t)
    BY <2>1, HeldFields
  <2> QED
    BY <2>2
<1>3. start \in S
  BY OrderedAre
<1>4. ASSUME NEW x \in S PROVE Step(x) \in S
  <2> DEFINE pos == StrFindAt(x.es, x.at, sub)
  <2>1. InOrder(x.es) /\ x.at \in Nat
    BY <1>4, OrderedAre
  <2>2. PICK a \in Nat, t \in Seq(Chars) : Len(t) < a /\ x.es = Held(a, t)
    BY <2>1 DEF InOrder
  <2>3. CASE pos = NPOS
    BY <1>4, <2>3
  <2>4. CASE pos # NPOS
    <3>1. pos \in Nat /\ pos + Len(sub) <= Len(t) /\ Len(sub) \in Nat /\ Len(sub) >= 1
      BY <2>1, <2>2, <2>4, FoundInside
    <3> HIDE DEF pos
    <3>2. pos + Len(sub) \in Nat /\ pos <= pos + Len(sub) /\ pos < Len(t)
      BY <2>2, <3>1
    <3>3. InOrder(StrCleanupAs(Held(a, t), pos, pos + Len(sub)))
      BY <2>2, <3>1, <3>2, CleanupAsInOrder
    <3>4. StrCleanupAs(x.es, pos, pos + Len(sub)) \in Ordered
      BY <2>2, <3>3, OrderedAre
    <3>5. x.at + pos \in Nat
      BY <2>1, <3>1
    <3>6. Step(x) = [es |-> StrCleanupAs(x.es, pos, pos + Len(sub)), at |-> x.at + pos]
      BY <2>4 DEF pos
    <3> QED
      BY <3>4, <3>5, <3>6
  <2> QED
    BY <2>3, <2>4
<1> HIDE DEF Step, start, S
<1>5. F \in [S -> S]
  BY <1>4
<1>6. \E f : f = [n \in 0 .. e.size |-> IF n = 0 THEN start ELSE Step(f[n - 1])]
  <2> DEFINE k == e.size
  <2>1. k \in Nat
    BY <1>2
  <2> HIDE DEF k, F
  <2>2. PICK f : Looped(f, F, start, k) /\ \A n \in 0 .. k : f[n] \in S
    BY <1>3, <1>5, <2>1, LoopRuns
  <2>3. ASSUME NEW n \in 0 .. k, n # 0 PROVE F[f[n - 1]] = Step(f[n - 1])
    <3>1. n - 1 \in 0 .. k
      BY <2>1, <2>3
    <3>2. f[n - 1] \in S
      BY <2>2, <3>1
    <3> QED
      BY <3>2 DEF F
  <2>4. f = [n \in 0 .. k |-> IF n = 0 THEN start ELSE Step(f[n - 1])]
    BY <2>2, <2>3 DEF Looped
  <2> QED
    BY <2>4 DEF k
<1>7. after = [n \in 0 .. e.size |-> IF n = 0 THEN start ELSE Step(after[n - 1])]
  BY <1>6
<1> HIDE DEF after, F
<1>8. after[e.size] \in S
  <2> DEFINE k == e.size
  <2>1. k \in Nat /\ after = [n \in 0 .. k |-> IF n = 0 THEN start ELSE Step(after[n - 1])]
    BY <1>2, <1>7
  <2> HIDE DEF k
  <2>2. after[0] \in S
    BY <1>3, <2>1
  <2>3. \A n \in 1 .. k : after[n] = Step(after[n - 1])
    BY <2>1
  <2>4. \A n \in 1 .. k : after[n - 1] \in S => after[n] \in S
    BY <1>4, <2>3
  <2>5. after[k] \in S
    BY <2>1, <2>2, <2>4, LoopStays
  <2> QED
    BY <2>5 DEF k
<1>9. after[e.size].es \in Ordered
  BY <1>8 DEF S
<1> QED
  BY <1>1, <1>9, OrderedAre

(* Numbers in decimal: the digits, the last one first, are characters.     *)
LEMMA LowDigit ==
  ASSUME NEW n \in Nat
  PROVE  /\ n % 10 \in 0 .. 9 /\ n \div 10 \in Nat
         /\ n >= 10 => n \div 10 < n
  OBVIOUS

LEMMA DigitsText ==
  ASSUME NEW v \in Int
  PROVE  Digits(v, 10, DecimalChar) \in Seq(Chars)
<1> DEFINE sign == IF v < 0 THEN -1 ELSE 1
           N == sign * v
           Digit(n) == <<DecimalChar(sign * (n % 10))>>
           From(f, n) == Digit(n) \o (IF n < 10 THEN <<>> ELSE f[n \div 10])
           from == CHOOSE f : f = [n \in 0 .. N |-> From(f, n)]
           Text == Seq(Chars)
           Runs(f, m) == f = [n \in 0 .. m |-> From(f, n)] /\ \A n \in 0 .. m : f[n] \in Text
           Reached == {m \in Nat : \E f : Runs(f, m)}
<1>1. Digits(v, 10, DecimalChar) = from[N]
  BY DEF Digits
<1>2. N \in Nat
  OBVIOUS
<1>3. ASSUME NEW n \in Nat PROVE Digit(n) \in Text
  <2>1. n % 10 \in 0 .. 9
    BY LowDigit
  <2>2. 48 + sign * (n % 10) \in 32 .. 126
    BY <2>1
  <2>3. DecimalChar(sign * (n % 10)) \in Chars
    <3> DEFINE d == sign * (n % 10)
    <3>1. 48 + d \in 32 .. 126
      BY <2>2
    <3> HIDE DEF d
    <3>2. DecimalChar(d) \in Chars
      BY <3>1, CharAt DEF DecimalChar
    <3> QED
      BY <3>2 DEF d
  <2> QED
    BY <2>3
<1>4. ASSUME NEW f, NEW n \in Nat, n >= 10 => f[n \div 10] \in Text
      PROVE  From(f, n) \in Text
  <2> HIDE DEF Digit
  <2>1. CASE n < 10
    <3>1. From(f, n) = Digit(n) \o <<>>
      BY <2>1
    <3> QED
      BY <1>3, <3>1, EmptyText, CatText
  <2>2. CASE n >= 10
    <3>1. From(f, n) = Digit(n) \o f[n \div 10]
      BY <2>2
    <3> QED
      BY <1>3, <1>4, <2>2, <3>1, CatText
  <2> QED
    BY <2>1, <2>2
<1> HIDE DEF Digit, Text, N
<1>5. 0 \in Reached
  <2> DEFINE none == [m \in {} |-> 0]
             z == From(none, 0)
             f == [n \in 0 .. 0 |-> z]
  <2>1. z \in Text
    <3> HIDE DEF none, From
    <3> QED
      BY <1>4
  <2>2. f = [n \in 0 .. 0 |-> f[n]] /\ f[0] = z
    OBVIOUS
  <2>3. z = From(f, 0)
    OBVIOUS
  <2> HIDE DEF f, z, From
  <2>4. \A n \in 0 .. 0 : f[n] = From(f, n) /\ f[n] \in Text
    BY <2>1, <2>2, <2>3
  <2>5. Runs(f, 0)
    BY <2>2, <2>4
  <2> QED
    BY <2>5
<1>6. ASSUME NEW m \in Nat, m \in Reached PROVE m + 1 \in Reached
  <2>1. PICK f : Runs(f, m)
    BY <1>6
  <2> DEFINE h == [n \in 0 .. m + 1 |-> IF n <= m THEN f[n] ELSE From(f, m + 1)]
  <2>2. h = [n \in 0 .. m + 1 |-> h[n]]
        /\ \A n \in 0 .. m + 1 : h[n] = IF n <= m THEN f[n] ELSE From(f, m + 1)
    OBVIOUS
  <2> HIDE DEF h
  <2>3. ASSUME NEW n \in 0 .. m + 1, n >= 10
        PROVE  n \div 10 \in 0 .. m /\ h[n \div 10] = f[n \div 10] /\ f[n \div 10] \in Text
    <3>1. n \div 10 \in Nat /\ n \div 10 < n
      BY <2>3, LowDigit
    <3> DEFINE q == n \div 10
    <3>2. q \in 0 .. m
      BY <3>1
    <3> HIDE DEF q
    <3>3. q \in 0 .. m + 1 /\ q <= m
      BY <3>2
    <3>4. h[q] = f[q] /\ f[q] \in Text
      <4> HIDE DEF From
      <4> QED
        BY <2>1, <2>2, <3>2, <3>3
    <3> QED
      BY <3>2, <3>4 DEF q
  <2>4. ASSUME NEW n \in 0 .. m + 1 PROVE h[n] = From(h, n) /\ h[n] \in Text
    <3>1. From(h, n) = From(f, n)
      <4>1. n >= 10 => h[n \div 10] = f[n \div 10]
        BY <2>3, Zenon
      <4>2. n \in Nat
        OBVIOUS
      <4> HIDE DEF Digit
      <4> QED
        BY ONLY SMTT(30), <4>1, <4>2
    <3>2. h[n] = From(f, n)
      <4> HIDE DEF From
      <4>1. CASE n <= m
        <5>1. n \in 0 .. m
          BY <4>1
        <5> QED
          BY <2>1, <2>2, <4>1, <5>1
      <4>2. CASE n = m + 1
        BY <2>2, <4>2
      <4> QED
        BY <4>1, <4>2
    <3>3. From(f, n) \in Text
      <4>1. ASSUME n >= 10 PROVE f[n \div 10] \in Text
        BY <2>3, <4>1, Zenon
      <4>2. n \in Nat
        OBVIOUS
      <4> HIDE DEF From
      <4> QED
        BY <1>4, <4>1, <4>2
    <3> HIDE DEF From
    <3> QED
      BY <3>1, <3>2, <3>3
  <2> HIDE DEF From
  <2>5. Runs(h, m + 1)
    BY <2>2, <2>4
  <2> QED
    BY <2>5
<1> HIDE DEF Reached
<1>7. N \in Reached
  BY <1>2, <1>5, <1>6, Induction
<1>8. \E f : f = [n \in 0 .. N |-> From(f, n)]
  BY <1>7 DEF Reached
<1>9. from = [n \in 0 .. N |-> From(from, n)]
  BY <1>8
<1> HIDE DEF from
<1> DEFINE S == {k \in Nat : \A n \in 0 .. N : n <= k => from[n] \in Text}
<1>10. ASSUME NEW n \in 0 .. N, \A k \in 0 .. N : k < n => from[k] \in Text PROVE from[n] \in Text
  <2>1. n \in Nat
    BY <1>2
  <2>2. ASSUME n >= 10 PROVE from[n \div 10] \in Text
    <3>1. n \div 10 \in Nat /\ n \div 10 < n
      BY <2>1, <2>2, LowDigit
    <3> DEFINE q == n \div 10
    <3>2. q \in 0 .. N /\ q < n
      BY <1>2, <3>1
    <3> HIDE DEF q
    <3>3. from[q] \in Text
      BY <1>10, <3>2
    <3> QED
      BY <3>3 DEF q
  <2>3. from[n] = From(from, n)
    <3> HIDE DEF From
    <3> QED
      BY <1>9
  <2> HIDE DEF From
  <2> QED
    BY <1>4, <2>1, <2>2, <2>3
<1> HIDE DEF From
<1>11. 0 \in S
  <2>1. ASSUME NEW n \in 0 .. N, n <= 0 PROVE from[n] \in Text
    <3>1. \A k \in 0 .. N : ~(k < n)
      BY <1>2, <2>1
    <3> QED
      BY <1>10, <3>1
  <2> QED
    BY <2>1
<1>12. ASSUME NEW k \in Nat, k \in S PROVE k + 1 \in S
  <2>1. ASSUME NEW n \in 0 .. N, n <= k + 1 PROVE from[n] \in Text
    <3>1. \A j \in 0 .. N : j < n => j <= k
      BY <1>2, <2>1
    <3> QED
      BY <1>10, <1>12, <3>1
  <2> QED
    BY <2>1
<1> HIDE DEF S
<1>13. N \in S
  BY <1>2, <1>11, <1>12, Induction
<1>14. from[N] \in Text
  BY <1>2, <1>13 DEF S
<1> QED
  BY <1>1, <1>14 DEF Text

LEMMA NumberInOrder ==
  ASSUME NEW e, Good(e), NEW v \in Int
  PROVE  InOrder(StrLToA(e, v))
<1> DEFINE w == Signed(LongBits, Magnitude(v))
           back == Digits(w, 10, DecimalChar) \o SignOf(v)
           clean == IF e = NoString THEN StrAlloc(32) ELSE StrCleanup(e)
<1>1. w \in Int
  <2>1. LongBits \in Nat \ {0} /\ Magnitude(v) \in Int
    BY EStringAssumption DEF Magnitude
  <2> QED
    BY <2>1, SignedInt
<1> HIDE DEF w
<1>2. SignOf(v) \in Seq(Chars)
  <2>1. Printable[14] = "-" /\ 14 \in 1 .. 95
    BY DEF Printable
  <2>2. "-" \in Chars
    BY <2>1, ListedChar
  <2> QED
    BY <2>2, EmptyText DEF SignOf
<1>3. back \in Seq(Chars)
  BY <1>1, <1>2, DigitsText, CatText
<1>4. StrLToA(e, v) = StrReverse(StrAppend(clean, back))
  BY DEF StrLToA, Printed, w
<1> HIDE DEF back
<1>5. InOrder(clean)
  <2>1. CASE e = NoString
    BY <2>1, AllocHolds
  <2>2. CASE e # NoString
    <3>1. PICK t : HoldsText(e, t)
      BY <2>2, GoodReads
    <3> QED
      BY <2>2, <3>1, CleanupHolds, HoldsOrder
  <2> QED
    BY <2>1, <2>2
<1> HIDE DEF clean
<1>6. InOrder(StrAppend(clean, back))
  <2>1. PICK t : HoldsText(clean, t)
    BY <1>5 DEF InOrder, HoldsText
  <2>2. Reads(clean, t)
    BY <2>1 DEF Reads
  <2>3. HoldsText(StrAppend(clean, back), Joined(t, back, Len(back)))
    BY <1>3, <2>2, AppendHolds
  <2> QED
    BY <2>3, HoldsOrder
<1> QED
  BY <1>4, <1>6, ReverseInOrder

(* Every call leaves a string in order, unless a NUL is set into a text.   *)
LEMMA StringSteps ==
  ASSUME ~Truncates, Good(es), StringNext
  PROVE  Good(es')
<1>1. /\ Texts \subseteq Seq(Chars) /\ Letters \subseteq Chars /\ Numbers \subseteq Int
      /\ 0 .. MaxSize \subseteq Nat
  BY StringLifeAssumption
<1>2. \A x : InOrder(x) => Good(x)
  BY DEF Good
<1>3. Present => InOrder(es)
  BY DEF Good, Present
<1>4. ASSUME NEW x, Becomes(x), InOrder(x) PROVE Good(es')
  <2>1. es' = x
    BY <1>4 DEF Becomes
  <2> QED
    BY <1>2, <1>4, <2>1
<1>5. CASE Create
  <2>1. PICK s \in Texts : Becomes(StrCreate(s)) \/ Becomes(StrClone(s))
    BY <1>5 DEF Create
  <2> QED
    BY <1>1, <1>4, <2>1, CreateInOrder
<1>6. CASE SetText
  <2>1. PICK s \in Texts : Becomes(StrSet(es, s))
    BY <1>6 DEF SetText
  <2> QED
    BY <1>1, <1>3, <1>4, <1>6, <2>1, SetInOrder DEF SetText
<1>7. CASE AppendText
  <2>1. PICK s \in Texts : Becomes(StrAppend(es, s))
    BY <1>7 DEF AppendText
  <2>2. Char(48) \in Chars
    BY CharAt
  <2> QED
    BY <1>1, <1>4, <2>1, <2>2, AddInOrder
<1>8. CASE AppendChar
  <2>1. PICK c \in Letters : Becomes(StrAppendC(es, c))
    BY <1>8 DEF AppendChar
  <2> QED
    BY <1>1, <1>4, <2>1, AddInOrder, EmptyText
<1>9. CASE CopyIn
  <2>1. PICK s \in Texts : Becomes(StrCopy(es, s))
    BY <1>9 DEF CopyIn
  <2>2. es # NoString
    BY <1>9 DEF CopyIn, Present
  <2>3. Char(48) \in Chars
    BY CharAt
  <2> QED
    BY <1>1, <1>4, <2>1, <2>2, <2>3, AddInOrder
<1>10. CASE SetChar
  <2>1. PICK at \in 0 .. MaxSize, c \in Letters \cup (IF Truncates THEN {NUL} ELSE {}) :
          Becomes(StrSetAtC(es, at, c))
    BY <1>10 DEF SetChar
  <2>2. c \in Chars /\ at \in Nat /\ InOrder(es)
    BY <1>1, <1>3, <1>10, <2>1 DEF SetChar
  <2> QED
    BY <1>4, <2>1, <2>2, SetAtInOrder
<1>11. CASE Cleanup
  <2>1. PICK t : HoldsText(es, t)
    BY <1>3, <1>11 DEF Cleanup, InOrder, HoldsText
  <2>2. InOrder(StrCleanup(es))
    BY <2>1, CleanupHolds, HoldsOrder
  <2> QED
    BY <1>4, <1>11, <2>2 DEF Cleanup
<1>12. CASE EraseText
  <2>1. PICK s \in Texts : Becomes(StrErase(es, s))
    BY <1>12 DEF EraseText
  <2> QED
    BY <1>1, <1>3, <1>4, <1>12, <2>1, EraseInOrder DEF EraseText
<1>13. CASE ReplaceOne
  <2>1. PICK s, r \in Texts : Becomes(StrReplace(es, s, r))
    BY <1>13 DEF ReplaceOne
  <2>2. InOrder(es) /\ s \in Seq(Chars) /\ r \in Seq(Chars) /\ 0 \in Nat
    BY <1>1, <1>3, <1>13 DEF ReplaceOne
  <2>3. InOrder(StrReplace(es, s, r))
    BY <2>2, ReplaceInOrder
  <2> QED
    BY <1>4, <2>1, <2>3
<1>14. CASE ReplaceEach
  <2>1. PICK s, r \in Texts : Becomes(StrReplaceAll(es, s, r))
    BY <1>14 DEF ReplaceEach
  <2> QED
    BY <1>1, <1>3, <1>4, <1>14, <2>1, ReplaceAllInOrder DEF ReplaceEach
<1>15. CASE Strip
  <2>1. InOrder(StrLStrip(StrRStrip(es)))
    BY <1>3, <1>15, RStripInOrder, LStripInOrder DEF Strip
  <2> QED
    BY <1>4, <1>15, <2>1 DEF Strip, StrStrip
<1>16. CASE Turn
  <2>1. Becomes(StrReverse(es)) \/ \E pos \in 0 .. MaxSize : Becomes(StrRotation(es, pos))
    BY <1>16 DEF Turn
  <2>2. InOrder(es)
    BY <1>3, <1>16 DEF Turn
  <2> QED
    BY <1>1, <1>4, <2>1, <2>2, ReverseInOrder, RotationInOrder
<1>17. CASE ChangeCase
  BY <1>3, <1>4, <1>17, CaseInOrder DEF ChangeCase
<1>18. CASE CutOut
  <2>1. PICK b, f \in 0 .. MaxSize : Becomes(StrAssign(es, b, f))
    BY <1>18 DEF CutOut
  <2> QED
    BY <1>1, <1>3, <1>4, <1>18, <2>1, AssignInOrder DEF CutOut
<1>19. CASE Clone
  <2>1. es # NoString /\ Becomes(StrCloneEris(es))
    BY <1>19 DEF Clone, Present
  <2>2. InOrder(StrCloneEris(es))
    <3>1. Char(48) \in Chars
      BY CharAt
    <3> QED
      BY <2>1, <3>1, AddInOrder, EmptyText
  <2> QED
    BY <1>4, <2>1, <2>2
<1>20. CASE WriteNumber
  <2>1. PICK v \in Numbers : Becomes(StrLToA(es, v))
    BY <1>20 DEF WriteNumber
  <2> QED
    BY <1>1, <1>4, <2>1, NumberInOrder
<1>21. CASE Free
  BY <1>21 DEF Free, Becomes, StrFree, Good
<1> QED
  BY <1>5, <1>6, <1>7, <1>8, <1>9, <1>10, <1>11, <1>12, <1>13, <1>14, <1>15, <1>16, <1>17, <1>18,
     <1>19, <1>20, <1>21 DEF StringNext

LEMMA GoodFits ==
  ASSUME Good(es)
  PROVE  WellFormed /\ CleanTail
<1>1. CASE es = NoString
  <2>1. es.bytes = <<>> /\ es.alloc = 0 /\ es.size = 0
    BY <1>1 DEF NoString
  <2>2. Len(es.bytes) = 0 /\ ~Present
    BY <1>1, <2>1 DEF Present
  <2> QED
    BY <2>1, <2>2 DEF WellFormed, CleanTail
<1>2. CASE InOrder(es)
  <2>1. PICK a \in Nat, t \in Seq(Chars) : Len(t) < a /\ es = Held(a, t)
    BY <1>2 DEF InOrder
  <2>2. es.size = Len(t) /\ es.alloc = a /\ Len(es.bytes) = a
    BY <2>1, HeldFields
  <2>3. Len(t) \in Nat
    OBVIOUS
  <2>4. \A i \in Nat : /\ i < Len(t) => Byte(es, i) # NUL
                       /\ i >= Len(t) => Byte(es, i) = NUL
    BY <2>1, HeldByte
  <2> QED
    BY <2>1, <2>2, <2>3, <2>4 DEF WellFormed, CleanTail
<1> QED
  BY <1>1, <1>2 DEF Good

(* Whatever calls fill, edit and empty a string and the buffers, in any    *)
(* order, with any texts and sizes: nothing is written outside of an       *)
(* allocation, what each holds is ended by a NUL inside of it, and behind  *)
(* the text of a string there are only NULs.                               *)
THEOREM TerminatorsFit == ~Truncates => (BytesSpec => []TerminatorFits)
<1> SUFFICES ASSUME ~Truncates PROVE BytesSpec => []TerminatorFits
  OBVIOUS
<1> DEFINE Inv == Good(es) /\ BufferInv
<1>1. BytesInit => Inv
  BY BufferStarts DEF BytesInit, StringInit, Good
<1>2. Inv /\ [BytesNext]_<<es, buf>> => Inv'
  <2> SUFFICES ASSUME Good(es), BufferInv, [BytesNext]_<<es, buf>> PROVE Good(es') /\ BufferInv'
    BY DEF Good, InOrder, Held, Laid, NoString
  <2>1. CASE StringNext /\ UNCHANGED buf
    BY <2>1, StringSteps DEF BufferInv, Fits
  <2>2. CASE BufferNext /\ UNCHANGED es
    BY <2>2, BufferSteps
  <2>3. CASE UNCHANGED <<es, buf>>
    BY <2>3 DEF BufferInv, Fits
  <2> QED
    BY <2>1, <2>2, <2>3 DEF BytesNext
<1>3. Inv => TerminatorFits
  BY GoodFits DEF TerminatorFits, BufferInv, Fits, NulFits, Buffers
<1> HIDE DEF Inv
<1> QED
  BY <1>1, <1>2, <1>3, PTL DEF BytesSpec

(* Whatever the string went through: a search for a text from a position   *)
(* on, which never goes back in the string, finds its first occurrence.    *)
THEOREM SearchesFindFirst == ~Truncates => (BytesSpec => []SearchFindsFirst)
<1> SUFFICES ASSUME ~Truncates PROVE BytesSpec => []SearchFindsFirst
  OBVIOUS
<1>1. StringInit => Good(es)
  BY DEF StringInit, Good
<1>2. ASSUME Good(es), [BytesNext]_<<es, buf>> PROVE Good(es')
  <2>1. CASE StringNext
    BY <1>2, <2>1, StringSteps
  <2>2. CASE UNCHANGED es
    BY <1>2, <2>2
  <2> QED
    BY <1>2, <2>1, <2>2 DEF BytesNext
<1>3. ASSUME Good(es) PROVE SearchFindsFirst
  <2> SUFFICES ASSUME Present, NEW sub \in Texts \ {<<>>}, NEW at \in 0 .. MaxSize
               PROVE  StrFindAt(es, at, sub) = FirstAt(StrText(es), at, sub)
    BY DEF SearchFindsFirst
  <2>1. PICK a \in Nat, t \in Seq(Chars) : Len(t) < a /\ es = Held(a, t)
    BY <1>3 DEF Present, Good, InOrder
  <2>2. at \in Nat /\ sub \in Seq(Chars) /\ sub # <<>>
    BY StringLifeAssumption
  <2>3. StrText(es) = t
    BY <2>1, HeldText
  <2> QED
    BY <2>1, <2>2, <2>3, FindIsFirst
<1> DEFINE Inv == Good(es)
<1>4. BytesInit => Inv
  BY <1>1 DEF BytesInit
<1>5. Inv /\ [BytesNext]_<<es, buf>> => Inv'
  BY <1>2 DEF Good, InOrder, Held, Laid, NoString
<1>6. Inv => SearchFindsFirst
  BY <1>3
<1> HIDE DEF Inv
<1> QED
  BY <1>4, <1>5, <1>6, PTL DEF BytesSpec
=============================================================================
