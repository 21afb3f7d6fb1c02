--------------------------- MODULE TaskListProofs ---------------------------
(* What the list operations of TaskList do to the set of items, for lists  *)
(* of any length: the lemmas every other proof cites.                      *)
EXTENDS TaskList, TLAPS, WellFoundedInduction

(* A non-empty set of naturals has the least element that Min chooses.     *)
LEMMA MinOfNats ==
  ASSUME NEW S \in SUBSET Nat, S # {}
  PROVE  Min(S) \in S /\ \A y \in S : Min(S) <= y
<1>1. PICK x \in S : \A y \in S : ~(<<y, x>> \in OpToRel(<, Nat))
  BY NatLessThanWellFounded, WFMin, Zenon
<1>2. ASSUME NEW y \in S, ~(x <= y) PROVE FALSE
  <2>1. y < x /\ y \in Nat /\ x \in Nat
    BY <1>2
  <2>2. <<y, x>> \in OpToRel(<, Nat)
    BY <2>1 DEF OpToRel
  <2>. QED
    BY <1>1, <2>2, Zenon
<1>3. \A y \in S : x <= y
  BY <1>2, Zenon
<1>. QED
  BY <1>3, Zenon DEF Min

(* The place where the walk of a list stops comes before the others.       *)
LEMMA LeastIndex ==
  ASSUME NEW n \in Nat, NEW I \in SUBSET (1 .. n)
  PROVE  /\ I # {} => /\ Min(I) \in I /\ Min(I) \in 1 .. n
                      /\ \A i \in 1 .. Min(I) - 1 : i \notin I
<1> SUFFICES ASSUME I # {}
             PROVE  /\ Min(I) \in I /\ Min(I) \in 1 .. n
                    /\ \A i \in 1 .. Min(I) - 1 : i \notin I
  OBVIOUS
<1>1. I \in SUBSET Nat
  OBVIOUS
<1>2. Min(I) \in I /\ \A y \in I : Min(I) <= y
  BY <1>1, MinOfNats
<1>3. PICK m \in 1 .. n : m = Min(I) /\ m \in I /\ \A y \in I : m <= y
  BY <1>2
<1>4. ASSUME NEW i \in 1 .. m - 1, i \in I PROVE FALSE
  <2>1. m <= i
    BY <1>3, <1>4
  <2>. QED
    BY <2>1
<1>. QED
  BY <1>3, <1>4

(* The loop of dos_task_item_insert stops at the first greater item.       *)
LEMMA FirstGreater ==
  ASSUME NEW T, NEW s \in Seq(T), NEW value \in [T -> Nat], NEW e \in T
  PROVE  LET I == {i \in 1 .. Len(s) : value[s[i]] > value[e]}
         IN  /\ I = {} => \A i \in 1 .. Len(s) : value[s[i]] <= value[e]
             /\ I # {} => /\ Min(I) \in 1 .. Len(s)
                          /\ value[s[Min(I)]] > value[e]
                          /\ \A i \in 1 .. Min(I) - 1 : value[s[i]] <= value[e]
<1> DEFINE I == {i \in 1 .. Len(s) : value[s[i]] > value[e]}
<1>1. Len(s) \in Nat /\ I \in SUBSET (1 .. Len(s))
  OBVIOUS
<1>2. I # {} => /\ Min(I) \in I /\ Min(I) \in 1 .. Len(s)
                /\ \A i \in 1 .. Min(I) - 1 : i \notin I
  BY <1>1, LeastIndex
<1>3. \A i \in 1 .. Len(s) : value[s[i]] \in Nat /\ value[e] \in Nat
  OBVIOUS
<1>4. \A i \in 1 .. Len(s) : i \notin I => value[s[i]] <= value[e]
  BY <1>3
<1>5. \A i \in I : value[s[i]] > value[e]
  OBVIOUS
<1> HIDE DEF I
<1>6. I # {} => \A i \in 1 .. Min(I) - 1 : i \in 1 .. Len(s)
  BY <1>1, <1>2
<1>7. /\ I = {} => \A i \in 1 .. Len(s) : value[s[i]] <= value[e]
      /\ I # {} => /\ Min(I) \in 1 .. Len(s)
                   /\ value[s[Min(I)]] > value[e]
                   /\ \A i \in 1 .. Min(I) - 1 : value[s[i]] <= value[e]
  BY <1>2, <1>4, <1>5, <1>6, Zenon
<1>. QED
  BY <1>7 DEF I

(* The search of an item by identity.                                      *)
LEMMA IndexOfItem ==
  ASSUME NEW T, NEW s \in Seq(T), NEW e
  PROVE  LET I == {i \in 1 .. Len(s) : s[i] = e}
         IN  /\ I = {} <=> e \notin Range(s)
             /\ I # {} => Min(I) \in 1 .. Len(s) /\ s[Min(I)] = e
<1> DEFINE I == {i \in 1 .. Len(s) : s[i] = e}
<1>1. Len(s) \in Nat /\ I \in SUBSET (1 .. Len(s))
  OBVIOUS
<1>2. I # {} => Min(I) \in I /\ Min(I) \in 1 .. Len(s)
  BY <1>1, LeastIndex
<1>3. (e \notin Range(s)) <=> I = {}
  BY DEF Range
<1>. QED
  BY <1>2, <1>3

(* Two lists one after the other, index by index.                          *)
LEMMA Concat ==
  ASSUME NEW T, NEW a \in Seq(T), NEW c \in Seq(T)
  PROVE  /\ a \o c \in Seq(T) /\ Len(a \o c) = Len(a) + Len(c)
         /\ \A i \in 1 .. Len(a) + Len(c) :
              (a \o c)[i] = IF i <= Len(a) THEN a[i] ELSE c[i - Len(a)]
  OBVIOUS

(* Inserting and removing in the middle, index by index.                   *)
LEMMA InsertAtIndex ==
  ASSUME NEW T, NEW s \in Seq(T), NEW e \in T, NEW j \in 1 .. Len(s)
  PROVE  /\ InsertAt(s, j, e) \in Seq(T)
         /\ Len(InsertAt(s, j, e)) = Len(s) + 1
         /\ \A i \in 1 .. Len(s) + 1 :
              InsertAt(s, j, e)[i] = IF i < j THEN s[i]
                                     ELSE IF i = j THEN e ELSE s[i - 1]
<1> DEFINE a == SubSeq(s, 1, j - 1)
           c == SubSeq(s, j, Len(s))
           b == a \o <<e>>
<1>1. a \in Seq(T) /\ Len(a) = j - 1 /\ \A i \in 1 .. j - 1 : a[i] = s[i]
  OBVIOUS
<1>2. /\ c \in Seq(T) /\ Len(c) = Len(s) - j + 1
      /\ \A i \in 1 .. Len(c) : c[i] = s[j + i - 1]
  OBVIOUS
<1>3. b \in Seq(T) /\ Len(b) = j /\ b[j] = e /\ \A i \in 1 .. j - 1 : b[i] = s[i]
  BY <1>1
<1>4. InsertAt(s, j, e) = b \o c
  BY DEF InsertAt
<1> HIDE DEF b, c
<1>5. /\ b \o c \in Seq(T) /\ Len(b \o c) = Len(b) + Len(c)
      /\ \A i \in 1 .. Len(b) + Len(c) :
           (b \o c)[i] = IF i <= Len(b) THEN b[i] ELSE c[i - Len(b)]
  BY <1>2, <1>3, Concat
<1>6. ASSUME NEW i \in 1 .. Len(s) + 1
      PROVE  (b \o c)[i] = IF i < j THEN s[i] ELSE IF i = j THEN e ELSE s[i - 1]
  <2>1. (b \o c)[i] = IF i <= j THEN b[i] ELSE c[i - j]
    BY <1>2, <1>3, <1>5
  <2>2. CASE i <= j
    BY <1>3, <2>1, <2>2
  <2>3. CASE ~(i <= j)
    <3>1. i - j \in 1 .. Len(c) /\ j + (i - j) - 1 = i - 1
      BY <1>2, <2>3
    <3>. QED
      BY <1>2, <2>1, <2>3, <3>1
  <2>. QED
    BY <2>2, <2>3
<1>7. Len(b \o c) = Len(s) + 1
  BY <1>2, <1>3, <1>5
<1>. QED
  BY <1>4, <1>5, <1>6, <1>7

(* Removing at an index: the items and the length of what is left (the     *)
(* unlinking of dos_task_item_del).                                        *)
LEMMA RemoveAtIndex ==
  ASSUME NEW T, NEW s \in Seq(T), NEW j \in 1 .. Len(s)
  PROVE  /\ RemoveAt(s, j) \in Seq(T)
         /\ Len(RemoveAt(s, j)) = Len(s) - 1
         /\ \A i \in 1 .. Len(s) - 1 :
              RemoveAt(s, j)[i] = IF i < j THEN s[i] ELSE s[i + 1]
<1> DEFINE a == SubSeq(s, 1, j - 1)
           c == SubSeq(s, j + 1, Len(s))
<1>1. a \in Seq(T) /\ Len(a) = j - 1 /\ \A i \in 1 .. j - 1 : a[i] = s[i]
  OBVIOUS
<1>2. /\ c \in Seq(T) /\ Len(c) = Len(s) - j
      /\ \A i \in 1 .. Len(c) : c[i] = s[j + i]
  OBVIOUS
<1>3. RemoveAt(s, j) = a \o c
  BY DEF RemoveAt
<1> HIDE DEF a, c
<1>4. /\ a \o c \in Seq(T) /\ Len(a \o c) = Len(a) + Len(c)
      /\ \A i \in 1 .. Len(a) + Len(c) :
           (a \o c)[i] = IF i <= Len(a) THEN a[i] ELSE c[i - Len(a)]
  BY <1>1, <1>2, Concat
<1>5. Len(a \o c) = Len(s) - 1
  BY <1>1, <1>2, <1>4
<1>6. ASSUME NEW i \in 1 .. Len(s) - 1
      PROVE  (a \o c)[i] = IF i < j THEN s[i] ELSE s[i + 1]
  <2>1. (a \o c)[i] = IF i < j THEN a[i] ELSE c[i - (j - 1)]
    BY <1>1, <1>2, <1>4
  <2>2. CASE i < j
    BY <1>1, <2>1, <2>2
  <2>3. CASE ~(i < j)
    <3>1. i - (j - 1) \in 1 .. Len(c) /\ j + (i - (j - 1)) = i + 1
      BY <1>2, <2>3
    <3>. QED
      BY <1>2, <2>1, <2>3, <3>1
  <2>. QED
    BY <2>2, <2>3
<1>. QED
  BY <1>3, <1>4, <1>5, <1>6

-----------------------------------------------------------------------------
(* The position InsertItem puts an item at: behind everything that is not  *)
(* greater, before something that is.                                      *)
LEMMA InsertItemShape ==
  ASSUME NEW T, NEW s \in Seq(T), NEW value \in [T -> Nat], NEW e \in T
  PROVE  /\ InsertItem(s, value, e) \in Seq(T)
         /\ Len(InsertItem(s, value, e)) = Len(s) + 1
         /\ \E j \in 1 .. Len(s) + 1 :
              /\ \A i \in 1 .. Len(s) + 1 :
                   InsertItem(s, value, e)[i] =
                     IF i < j THEN s[i] ELSE IF i = j THEN e ELSE s[i - 1]
              /\ \A i \in 1 .. j - 1 : value[s[i]] <= value[e]
              /\ j <= Len(s) => value[s[j]] > value[e]
<1> DEFINE I == {i \in 1 .. Len(s) : value[s[i]] > value[e]}
           r == InsertItem(s, value, e)
<1>1. r = IF I = {} THEN Append(s, e) ELSE InsertAt(s, Min(I), e)
  <2>1. I # {} => Min(I) \in 1 .. Len(s)
    BY FirstGreater
  <2>2. I # {} => Min(I) # 0
    BY <2>1
  <2>. QED
    BY <2>2, Zenon DEF InsertItem, FirstOf
<1>2. /\ I = {} => \A i \in 1 .. Len(s) : value[s[i]] <= value[e]
      /\ I # {} => /\ Min(I) \in 1 .. Len(s)
                   /\ value[s[Min(I)]] > value[e]
                   /\ \A i \in 1 .. Min(I) - 1 : value[s[i]] <= value[e]
  BY FirstGreater
<1> HIDE DEF I, r
<1>3. CASE I = {}
  <2>1. r = Append(s, e)
    BY <1>1, <1>3
  <2>2. r \in Seq(T) /\ Len(r) = Len(s) + 1 /\ Len(s) + 1 \in 1 .. Len(s) + 1
    BY <2>1
  <2>3. /\ \A i \in 1 .. Len(s) + 1 :
             r[i] = IF i < Len(s) + 1 THEN s[i]
                    ELSE IF i = Len(s) + 1 THEN e ELSE s[i - 1]
        /\ \A i \in 1 .. (Len(s) + 1) - 1 : value[s[i]] <= value[e]
        /\ ~(Len(s) + 1 <= Len(s))
    BY <1>2, <1>3, <2>1
  <2>. QED
    BY <2>2, <2>3, Zenon DEF r
<1>4. CASE I # {}
  <2>1. PICK j \in 1 .. Len(s) : j = Min(I)
    BY <1>2, <1>4
  <2>2. r = InsertAt(s, j, e)
    BY <1>1, <1>4, <2>1
  <2>3. value[s[j]] > value[e] /\ \A i \in 1 .. j - 1 : value[s[i]] <= value[e]
    BY <1>2, <1>4, <2>1
  <2>4. /\ r \in Seq(T) /\ Len(r) = Len(s) + 1
        /\ \A i \in 1 .. Len(s) + 1 :
             r[i] = IF i < j THEN s[i] ELSE IF i = j THEN e ELSE s[i - 1]
    <3>1. /\ InsertAt(s, j, e) \in Seq(T)
          /\ Len(InsertAt(s, j, e)) = Len(s) + 1
          /\ \A i \in 1 .. Len(s) + 1 :
               InsertAt(s, j, e)[i] = IF i < j THEN s[i]
                                      ELSE IF i = j THEN e ELSE s[i - 1]
      BY InsertAtIndex
    <3>. QED
      BY <2>2, <3>1, Zenon
  <2>5. j \in 1 .. Len(s) + 1
    OBVIOUS
  <2>. QED
    BY <2>3, <2>4, <2>5, Zenon DEF r
<1>. QED
  BY <1>3, <1>4

(* The values the items of a list are ordered by.                          *)
Values(value, T) == value \in [T -> Nat]

(* Inserting adds one item to the list, once, and keeps the order.         *)
LEMMA InsertItemProps ==
  ASSUME NEW T, NEW s \in Seq(T), NEW value, Values(value, T), NEW e \in T
  PROVE  /\ InsertItem(s, value, e) \in Seq(T)
         /\ Range(InsertItem(s, value, e)) = Range(s) \cup {e}
         /\ (IsInjective(s) /\ e \notin Range(s))
              => IsInjective(InsertItem(s, value, e))
         /\ Sorted(s, value) => Sorted(InsertItem(s, value, e), value)
<1> DEFINE r == InsertItem(s, value, e)
<1>1. PICK j \in 1 .. Len(s) + 1 :
        /\ r \in Seq(T) /\ Len(r) = Len(s) + 1
        /\ \A i \in 1 .. Len(s) + 1 :
             r[i] = IF i < j THEN s[i] ELSE IF i = j THEN e ELSE s[i - 1]
        /\ \A i \in 1 .. j - 1 : value[s[i]] <= value[e]
        /\ j <= Len(s) => value[s[j]] > value[e]
  BY InsertItemShape DEF Values
<1> HIDE DEF r
<1>2. /\ DOMAIN s = 1 .. Len(s) /\ Len(s) \in Nat
      /\ DOMAIN r = 1 .. Len(s) + 1
      /\ \A i \in 1 .. Len(s) : s[i] \in T
  BY <1>1
<1>2a. \A i \in 1 .. Len(s) + 1 :
        /\ i < j => r[i] = s[i] /\ i \in 1 .. Len(s)
        /\ i = j => r[i] = e
        /\ i > j => r[i] = s[i - 1] /\ i - 1 \in 1 .. Len(s)
  BY <1>1, <1>2
<1>3. Range(r) = Range(s) \cup {e}
  <2>1. ASSUME NEW i \in 1 .. Len(s) + 1 PROVE r[i] \in Range(s) \cup {e}
    <3>1. (\E k \in 1 .. Len(s) : r[i] = s[k]) \/ r[i] = e
      BY <1>2a
    <3>. QED
      BY <1>2, <3>1, Zenon DEF Range
  <2>2. ASSUME NEW i \in 1 .. Len(s) PROVE s[i] \in Range(r)
    <3>1. CASE i < j
      <4>1. r[i] = s[i] /\ i \in DOMAIN r
        BY <1>1, <1>2, <3>1
      <4>. QED
        BY <4>1, Zenon DEF Range
    <3>2. CASE ~(i < j)
      <4>1. r[i + 1] = s[i] /\ i + 1 \in DOMAIN r
        BY <1>1, <1>2, <3>2
      <4>. QED
        BY <4>1, Zenon DEF Range
    <3>. QED
      BY <3>1, <3>2
  <2>3. e \in Range(r)
    <3>1. r[j] = e /\ j \in DOMAIN r
      BY <1>1, <1>2
    <3>. QED
      BY <3>1, Zenon DEF Range
  <2>4. Range(r) \subseteq Range(s) \cup {e}
    BY <1>2, <2>1, Zenon DEF Range
  <2>5. Range(s) \subseteq Range(r)
    BY <1>2, <2>2, Zenon DEF Range
  <2>. QED
    BY <2>3, <2>4, <2>5, Zenon
<1>4. ASSUME IsInjective(s), e \notin Range(s) PROVE IsInjective(r)
  <2>1. /\ \A a, b \in 1 .. Len(s) : s[a] = s[b] => a = b
        /\ \A a \in 1 .. Len(s) : s[a] # e
    BY <1>2, <1>4, Zenon DEF IsInjective, Range
  <2>2. ASSUME NEW a \in 1 .. Len(s) + 1, NEW b \in 1 .. Len(s) + 1, a < b
        PROVE  r[a] # r[b]
    <3>1. CASE b < j
      BY <1>2a, <2>1, <2>2, <3>1
    <3>2. CASE b = j
      BY <1>2a, <2>1, <2>2, <3>2
    <3>3. CASE b > j /\ a < j
      <4>1. a # b - 1 /\ a \in 1 .. Len(s) /\ r[a] = s[a]
            /\ b - 1 \in 1 .. Len(s) /\ r[b] = s[b - 1]
        BY <1>2a, <2>2, <3>3
      <4>. QED
        BY <2>1, <4>1, Zenon
    <3>4. CASE b > j /\ a = j
      BY <1>2a, <2>1, <2>2, <3>4
    <3>5. CASE a > j
      <4>1. a - 1 # b - 1 /\ a - 1 \in 1 .. Len(s) /\ r[a] = s[a - 1]
            /\ b - 1 \in 1 .. Len(s) /\ r[b] = s[b - 1]
        BY <1>2a, <2>2, <3>5
      <4>. QED
        BY <2>1, <4>1, Zenon
    <3>. QED
      BY <2>2, <3>1, <3>2, <3>3, <3>4, <3>5
  <2>3. \A a, b \in 1 .. Len(s) + 1 : r[a] = r[b] => ~(a < b) /\ ~(b < a)
    BY <2>2
  <2>4. \A a, b \in 1 .. Len(s) + 1 : ~(a < b) /\ ~(b < a) => a = b
    BY <1>2
  <2>. QED
    BY <1>2, <2>3, <2>4, Zenon DEF IsInjective
<1>5. ASSUME Sorted(s, value) PROVE Sorted(r, value)
  <2>1. \A a, b \in 1 .. Len(s) : a < b => value[s[a]] <= value[s[b]]
    BY <1>5 DEF Sorted
  <2>2. value[e] \in Nat /\ \A a \in 1 .. Len(s) : value[s[a]] \in Nat
    BY <1>2 DEF Values
  <2>3. \A a \in 1 .. Len(s) : a >= j => value[e] <= value[s[a]]
    <3> SUFFICES ASSUME NEW a \in 1 .. Len(s), a >= j PROVE value[e] <= value[s[a]]
      OBVIOUS
    <3>1. j \in 1 .. Len(s) /\ value[s[j]] > value[e]
      BY <1>1
    <3>2. value[s[j]] <= value[s[a]]
      BY <2>1, <2>2, <3>1
    <3>. QED
      BY <2>2, <3>1, <3>2
  <2>4. ASSUME NEW a \in 1 .. Len(s) + 1, NEW b \in 1 .. Len(s) + 1, a < b
        PROVE  value[r[a]] <= value[r[b]]
    <3>1. CASE b < j
      BY <1>1, <1>2, <2>1, <2>4, <3>1
    <3>2. CASE b = j
      BY <1>1, <1>2, <2>1, <2>4, <3>2
    <3>3. CASE b > j /\ a < j
      <4>1. a < b - 1 /\ a \in 1 .. Len(s) /\ r[a] = s[a]
            /\ b - 1 \in 1 .. Len(s) /\ r[b] = s[b - 1]
        BY <1>2a, <2>4, <3>3
      <4>. QED
        BY <2>1, <4>1
    <3>4. CASE b > j /\ a = j
      <4>1. b - 1 >= j /\ r[a] = e /\ b - 1 \in 1 .. Len(s) /\ r[b] = s[b - 1]
        BY <1>2a, <2>4, <3>4
      <4>. QED
        BY <2>3, <4>1
    <3>5. CASE a > j
      <4>1. r[a] = s[a - 1] /\ r[b] = s[b - 1] /\ a - 1 \in 1 .. Len(s)
            /\ b - 1 \in 1 .. Len(s) /\ a - 1 < b - 1
        BY <1>1, <1>2, <2>4, <3>5
      <4>. QED
        BY <2>1, <4>1
    <3>. QED
      BY <2>4, <3>1, <3>2, <3>3, <3>4, <3>5
  <2>. QED
    BY <1>1, <2>4 DEF Sorted
<1>. QED
  BY <1>1, <1>3, <1>4, <1>5 DEF r

(* Deleting removes the item and nothing else, and keeps the order; an     *)
(* item that is on no list leaves the list alone.                          *)
LEMMA DeleteItemProps ==
  ASSUME NEW T, NEW s \in Seq(T), NEW e
  PROVE  /\ DeleteItem(s, e) \in Seq(T)
         /\ e \notin Range(s) => DeleteItem(s, e) = s
         /\ IsInjective(s) => /\ Range(DeleteItem(s, e)) = Range(s) \ {e}
                              /\ IsInjective(DeleteItem(s, e))
         /\ \A value : Sorted(s, value) => Sorted(DeleteItem(s, e), value)
<1> DEFINE I == {i \in 1 .. Len(s) : s[i] = e}
           r == DeleteItem(s, e)
<1>1. /\ I = {} <=> e \notin Range(s)
      /\ I # {} => Min(I) \in 1 .. Len(s) /\ s[Min(I)] = e
  BY IndexOfItem
<1>2. r = IF I = {} THEN s ELSE RemoveAt(s, Min(I))
  <2>1. I # {} => Min(I) > 0 /\ Min(I) # 0
    BY <1>1
  <2>2. ~(0 > 0)
    OBVIOUS
  <2>. QED
    BY <2>1, <2>2, Zenon DEF DeleteItem, IndexOf, FirstOf
<1>3. /\ DOMAIN s = 1 .. Len(s) /\ Len(s) \in Nat
      /\ \A i \in 1 .. Len(s) : s[i] \in T
  OBVIOUS
<1> HIDE DEF I, r
<1>4. CASE I = {}
  <2>1. r = s /\ e \notin Range(s)
    BY <1>1, <1>2, <1>4, Zenon
  <2>2. Range(s) = Range(s) \ {e}
    BY <2>1, Zenon
  <2>. QED
    BY <2>1, <2>2 DEF r
<1>5. CASE I # {}
  <2>1. PICK j \in 1 .. Len(s) : j = Min(I) /\ s[j] = e
    BY <1>1, <1>5
  <2>2. /\ r \in Seq(T) /\ Len(r) = Len(s) - 1
        /\ \A i \in 1 .. Len(s) - 1 : r[i] = IF i < j THEN s[i] ELSE s[i + 1]
    <3>1. r = RemoveAt(s, j)
      BY <1>2, <1>5, <2>1
    <3>2. /\ RemoveAt(s, j) \in Seq(T)
          /\ Len(RemoveAt(s, j)) = Len(s) - 1
          /\ \A i \in 1 .. Len(s) - 1 :
               RemoveAt(s, j)[i] = IF i < j THEN s[i] ELSE s[i + 1]
      BY RemoveAtIndex
    <3>. QED
      BY <3>1, <3>2, Zenon
  <2>3. /\ DOMAIN r = 1 .. Len(s) - 1
        /\ \A i \in 1 .. Len(s) - 1 :
             /\ i < j => r[i] = s[i] /\ i \in 1 .. Len(s)
             /\ ~(i < j) => r[i] = s[i + 1] /\ i + 1 \in 1 .. Len(s)
    BY <1>3, <2>2
  <2>4. ASSUME IsInjective(s) PROVE Range(r) = Range(s) \ {e} /\ IsInjective(r)
    <3>1. \A a, b \in 1 .. Len(s) : s[a] = s[b] => a = b
      BY <1>3, <2>4, Zenon DEF IsInjective
    <3>2. \A i \in 1 .. Len(s) - 1 : \E k \in 1 .. Len(s) : r[i] = s[k] /\ k # j
      BY <2>3
    <3>3. \A k \in 1 .. Len(s) : k # j => \E i \in 1 .. Len(s) - 1 : r[i] = s[k]
      <4> SUFFICES ASSUME NEW k \in 1 .. Len(s), k # j
                   PROVE  \E i \in 1 .. Len(s) - 1 : r[i] = s[k]
        OBVIOUS
      <4>1. CASE k < j
        <5>1. k \in 1 .. Len(s) - 1 /\ r[k] = s[k]
          BY <2>3, <4>1
        <5>. QED
          BY <5>1, Zenon
      <4>2. CASE k > j
        <5>1. k - 1 \in 1 .. Len(s) - 1 /\ r[k - 1] = s[k]
          BY <2>3, <4>2
        <5>. QED
          BY <5>1, Zenon
      <4>. QED
        BY <4>1, <4>2
    <3>4. Range(r) = Range(s) \ {e}
      <4>0. Range(r) = {r[i] : i \in 1 .. Len(s) - 1} /\ Range(s) = {s[i] : i \in 1 .. Len(s)}
        BY <1>3, <2>3, Zenon DEF Range
      <4>1. ASSUME NEW x \in Range(r) PROVE x \in Range(s) \ {e}
        <5>1. PICK i \in 1 .. Len(s) - 1 : x = r[i]
          BY <4>0, Zenon
        <5>2. PICK k \in 1 .. Len(s) : x = s[k] /\ k # j
          BY <3>2, <5>1, Zenon
        <5>3. s[k] # s[j]
          BY <3>1, <5>2, Zenon
        <5>. QED
          BY <2>1, <4>0, <5>2, <5>3, Zenon
      <4>2. ASSUME NEW x \in Range(s) \ {e} PROVE x \in Range(r)
        <5>1. PICK k \in 1 .. Len(s) : x = s[k]
          BY <4>0, Zenon
        <5>2. k # j
          BY <2>1, <5>1, Zenon
        <5>. QED
          BY <3>3, <4>0, <5>1, <5>2, Zenon
      <4>. QED
        BY <4>1, <4>2, Zenon
    <3>5. ASSUME NEW a \in 1 .. Len(s) - 1, NEW b \in 1 .. Len(s) - 1, a < b
          PROVE  r[a] # r[b]
      <4>1. CASE b < j
        BY <2>3, <3>1, <3>5, <4>1
      <4>2. CASE ~(b < j) /\ a < j
        <5>1. a # b + 1 /\ a \in 1 .. Len(s) /\ r[a] = s[a]
              /\ b + 1 \in 1 .. Len(s) /\ r[b] = s[b + 1]
          BY <2>3, <3>5, <4>2
        <5>. QED
          BY <3>1, <5>1, Zenon
      <4>3. CASE ~(a < j)
        <5>1. a + 1 # b + 1 /\ a + 1 \in 1 .. Len(s) /\ r[a] = s[a + 1]
              /\ b + 1 \in 1 .. Len(s) /\ r[b] = s[b + 1]
          BY <2>3, <3>5, <4>3
        <5>. QED
          BY <3>1, <5>1, Zenon
      <4>. QED
        BY <4>1, <4>2, <4>3
    <3>6. \A a, b \in 1 .. Len(s) - 1 : r[a] = r[b] => ~(a < b) /\ ~(b < a)
      BY <3>5
    <3>7. \A a, b \in 1 .. Len(s) - 1 : ~(a < b) /\ ~(b < a) => a = b
      BY <1>3
    <3>. QED
      BY <2>3, <3>4, <3>6, <3>7, Zenon DEF IsInjective
  <2>5. ASSUME NEW value, Sorted(s, value) PROVE Sorted(r, value)
    <3>1. \A a, b \in 1 .. Len(s) : a < b => value[s[a]] <= value[s[b]]
      BY <2>5 DEF Sorted
    <3>2. ASSUME NEW a \in 1 .. Len(s) - 1, NEW b \in 1 .. Len(s) - 1, a < b
          PROVE  value[r[a]] <= value[r[b]]
      <4>1. CASE b < j
        <5>1. a \in 1 .. Len(s) /\ r[a] = s[a] /\ b \in 1 .. Len(s) /\ r[b] = s[b]
          BY <2>3, <3>2, <4>1
        <5>. QED
          BY <3>1, <3>2, <5>1
      <4>2. CASE ~(b < j) /\ a < j
        <5>1. a < b + 1 /\ a \in 1 .. Len(s) /\ r[a] = s[a]
              /\ b + 1 \in 1 .. Len(s) /\ r[b] = s[b + 1]
          BY <2>3, <3>2, <4>2
        <5>. QED
          BY <3>1, <5>1
      <4>3. CASE ~(a < j)
        <5>1. a + 1 < b + 1 /\ a + 1 \in 1 .. Len(s) /\ r[a] = s[a + 1]
              /\ b + 1 \in 1 .. Len(s) /\ r[b] = s[b + 1]
          BY <2>3, <3>2, <4>3
        <5>. QED
          BY <3>1, <5>1
      <4>. QED
        BY <4>1, <4>2, <4>3
    <3>. QED
      BY <2>2, <3>2 DEF Sorted
  <2>6. e \in Range(s)
    BY <1>1, <1>5
  <2>. QED
    BY <2>2, <2>4, <2>5, <2>6 DEF r
<1>. QED
  BY <1>4, <1>5

(* The first item of a non-empty list, and the list without it.            *)
LEMMA HeadTailProps ==
  ASSUME NEW T, NEW s \in Seq(T), s # << >>
  PROVE  /\ Head(s) \in T /\ Head(s) \in Range(s) /\ Tail(s) \in Seq(T)
         /\ IsInjective(s) => /\ Range(Tail(s)) = Range(s) \ {Head(s)}
                              /\ IsInjective(Tail(s))
         /\ \A value : Sorted(s, value) => Sorted(Tail(s), value)
         /\ \A value : (Values(value, T) /\ Sorted(s, value)) =>
              \A x \in Range(s) : value[Head(s)] <= value[x]
<1> DEFINE r == Tail(s)
<1>1. /\ Len(s) \in Nat /\ Len(s) > 0 /\ DOMAIN s = 1 .. Len(s)
      /\ Head(s) = s[1] /\ 1 \in 1 .. Len(s)
      /\ r \in Seq(T) /\ DOMAIN r = 1 .. Len(s) - 1 /\ Len(r) = Len(s) - 1
      /\ \A i \in 1 .. Len(s) - 1 : r[i] = s[i + 1] /\ i + 1 \in 1 .. Len(s)
      /\ \A i \in 1 .. Len(s) : s[i] \in T
  OBVIOUS
<1> HIDE DEF r
<1>2. Range(r) = {r[i] : i \in 1 .. Len(s) - 1} /\ Range(s) = {s[i] : i \in 1 .. Len(s)}
  BY <1>1, Zenon DEF Range
<1>3. Head(s) \in T /\ Head(s) \in Range(s)
  BY <1>1, <1>2, Zenon
<1>4. ASSUME IsInjective(s) PROVE Range(r) = Range(s) \ {Head(s)} /\ IsInjective(r)
  <2>1. \A a, b \in 1 .. Len(s) : s[a] = s[b] => a = b
    BY <1>1, <1>4, Zenon DEF IsInjective
  <2>2. ASSUME NEW x \in Range(r) PROVE x \in Range(s) \ {Head(s)}
    <3>1. PICK i \in 1 .. Len(s) - 1 : x = r[i]
      BY <1>2, Zenon
    <3>2. x = s[i + 1] /\ i + 1 \in 1 .. Len(s) /\ i + 1 # 1
      BY <1>1, <3>1
    <3>. QED
      BY <1>1, <1>2, <2>1, <3>2, Zenon
  <2>3. ASSUME NEW x \in Range(s) \ {Head(s)} PROVE x \in Range(r)
    <3>1. PICK k \in 1 .. Len(s) : x = s[k] /\ k # 1
      BY <1>1, <1>2, Zenon
    <3>2. k - 1 \in 1 .. Len(s) - 1 /\ r[k - 1] = s[k]
      BY <1>1, <3>1
    <3>. QED
      BY <1>2, <3>1, <3>2, Zenon
  <2>4. ASSUME NEW a \in 1 .. Len(s) - 1, NEW b \in 1 .. Len(s) - 1, r[a] = r[b]
        PROVE  a = b
    <3>1. a + 1 \in 1 .. Len(s) /\ b + 1 \in 1 .. Len(s) /\ s[a + 1] = s[b + 1]
      BY <1>1, <2>4
    <3>2. a + 1 = b + 1
      BY <2>1, <3>1, Zenon
    <3>. QED
      BY <3>2
  <2>. QED
    BY <1>1, <2>2, <2>3, <2>4, Zenon DEF IsInjective
<1>5. ASSUME NEW value, Sorted(s, value)
      PROVE  /\ Sorted(r, value)
             /\ Values(value, T) => \A x \in Range(s) : value[Head(s)] <= value[x]
  <2>1. \A a, b \in 1 .. Len(s) : a < b => value[s[a]] <= value[s[b]]
    BY <1>5 DEF Sorted
  <2>2. ASSUME NEW a \in 1 .. Len(s) - 1, NEW b \in 1 .. Len(s) - 1, a < b
        PROVE  value[r[a]] <= value[r[b]]
    <3>1. a + 1 < b + 1 /\ a + 1 \in 1 .. Len(s) /\ r[a] = s[a + 1]
          /\ b + 1 \in 1 .. Len(s) /\ r[b] = s[b + 1]
      BY <1>1, <2>2
    <3>. QED
      BY <2>1, <3>1
  <2>3. ASSUME Values(value, T), NEW k \in 1 .. Len(s) PROVE value[s[1]] <= value[s[k]]
    <3>1. value[s[1]] \in Nat
      BY <1>1, <2>3 DEF Values
    <3>. QED
      BY <1>1, <2>1, <3>1
  <2>. QED
    BY <1>1, <1>2, <2>2, <2>3 DEF Sorted
<1>. QED
  BY <1>1, <1>3, <1>4, <1>5 DEF r

(* A list is empty exactly when no item is on it.                         *)
LEMMA EmptyItems ==
  ASSUME NEW T, NEW s \in Seq(T)
  PROVE  /\ Range(s) \subseteq T
         /\ s = << >> <=> Range(s) = {}
<1>1. DOMAIN s = 1 .. Len(s) /\ \A i \in 1 .. Len(s) : s[i] \in T
  OBVIOUS
<1>2. ASSUME s # << >> PROVE Len(s) \in Nat /\ 1 \in DOMAIN s
  BY <1>2
<1>3. ASSUME s = << >> PROVE DOMAIN s = {}
  BY <1>3
<1>. QED
  BY <1>1, <1>2, <1>3, Zenon DEF Range

(* The order of a list depends on the values of its own items only.        *)
LEMMA SortedOther ==
  ASSUME NEW T, NEW s \in Seq(T), NEW value, NEW other,
         \A x \in Range(s) : other[x] = value[x], Sorted(s, value)
  PROVE  Sorted(s, other)
<1>1. \A i \in 1 .. Len(s) : s[i] \in Range(s)
  BY DEF Range
<1>. QED
  BY <1>1 DEF Sorted

-----------------------------------------------------------------------------
(* Lists with a cursor.                                                    *)
CursorList(T, End) == [items : Seq(T), task_item : T \cup {End}]

(* dos_task_item_insert leaves the cursor of the list where it is.         *)
LEMMA ListInsertProps ==
  ASSUME NEW T, NEW End, NEW l \in CursorList(T, End),
         NEW value, Values(value, T), NEW e \in T
  PROVE  /\ ListInsert(l, value, e) \in CursorList(T, End)
         /\ ListInsert(l, value, e).items = InsertItem(l.items, value, e)
<1>1. InsertItem(l.items, value, e) \in Seq(T)
  BY InsertItemProps DEF CursorList
<1>. QED
  BY <1>1 DEF ListInsert, CursorList

(* Deleting under the cursor leaves it on an item or on the end item.      *)
LEMMA ListDeleteProps ==
  ASSUME NEW T, NEW End, NEW l \in CursorList(T, End), NEW e
  PROVE  /\ ListDelete(l, e, End) \in CursorList(T, End)
         /\ ListDelete(l, e, End).items = DeleteItem(l.items, e)
<1> DEFINE I == {i \in 1 .. Len(l.items) : l.items[i] = e}
           k == IF I = {} THEN 0 ELSE Min(I)
           c == IF l.task_item # e THEN l.task_item
                ELSE IF k <= 1 THEN End ELSE l.items[k - 1]
<1>1. l.items \in Seq(T) /\ l.task_item \in T \cup {End}
  BY DEF CursorList
<1>2. I # {} => Min(I) \in 1 .. Len(l.items)
  BY <1>1, IndexOfItem, ZenonT(60)
<1>3. k \in Nat /\ k <= Len(l.items)
  BY <1>1, <1>2
<1>4. DeleteItem(l.items, e) \in Seq(T)
  BY <1>1, DeleteItemProps
<1>5. ListDelete(l, e, End) = [items |-> DeleteItem(l.items, e), task_item |-> c]
  BY Zenon DEF ListDelete, IndexOf, FirstOf
<1> HIDE DEF k
<1>6. c \in T \cup {End}
  BY <1>1, <1>3
<1> HIDE DEF c
<1>. QED
  BY <1>4, <1>5, <1>6 DEF CursorList

(* The rotation of dos_get_next_task stays on the list.                    *)
LEMMA NextItemProps ==
  ASSUME NEW T, NEW End, NEW l \in CursorList(T, End)
  PROVE  /\ NextItem(l, End) \in T \cup {End}
         /\ l.items # << >> => NextItem(l, End) \in Range(l.items)
         /\ l.items = << >> => NextItem(l, End) = End
<1> DEFINE I == {i \in 1 .. Len(l.items) : l.items[i] = l.task_item}
           k == IF I = {} THEN 0 ELSE Min(I)
<1>1. l.items \in Seq(T)
  BY DEF CursorList
<1>2. I # {} => Min(I) \in 1 .. Len(l.items)
  BY <1>1, IndexOfItem
<1>3. k \in Nat /\ k <= Len(l.items)
  BY <1>1, <1>2
<1>4. NextItem(l, End) = IF k < Len(l.items) THEN l.items[k + 1]
                         ELSE IF l.items = << >> THEN End ELSE Head(l.items)
  BY Zenon DEF NextItem, FirstItem, IndexOf, FirstOf
<1> HIDE DEF k
<1>5. CASE k < Len(l.items)
  <2>1. k + 1 \in DOMAIN l.items /\ l.items[k + 1] \in T /\ l.items # << >>
    BY <1>1, <1>3, <1>5
  <2>. QED
    BY <1>4, <1>5, <2>1, Zenon DEF Range
<1>6. CASE ~(k < Len(l.items)) /\ l.items # << >>
  BY <1>1, <1>4, <1>6, HeadTailProps
<1>7. CASE ~(k < Len(l.items)) /\ l.items = << >>
  BY <1>4, <1>7, Zenon
<1>. QED
  BY <1>5, <1>6, <1>7, Zenon
=============================================================================
