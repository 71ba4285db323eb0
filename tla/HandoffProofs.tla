--------------------------- MODULE HandoffProofs ---------------------------
(* Proofs about Condvar in the use of Handoff, for any waiters, notifiers    *)
(* and bounds: the types, that no sleeper loses its entry and its wakeup     *)
(* both, that notify_all loses no wakeup, and that notify_one wakes a waiter *)
(* for every item.                                                           *)
EXTENDS Handoff, FiniteSetTheorems, SequenceTheorems, WellFoundedInduction, TLAPS

(* ----------------------- lists of waiting entries ----------------------- *)

\* The list with a new entry has that entry and the old ones.
LEMMA ContainsAppend == ASSUME NEW S, NEW s \in Seq(S), NEW e \in S
  PROVE /\ Append(s, e) \in Seq(S) /\ Append(s, e) # <<>>
        /\ Contains(Append(s, e), e)
        /\ \A x : Contains(s, x) => Contains(Append(s, e), x)
        /\ \A x : Contains(Append(s, e), x) => x = e \/ Contains(s, x)
        /\ IsInjective(s) /\ ~Contains(s, e) => IsInjective(Append(s, e))
<1>1. /\ Append(s, e) \in Seq(S) /\ Len(Append(s, e)) = Len(s) + 1
      /\ \A i \in 1 .. Len(s) : Append(s, e)[i] = s[i]
      /\ Append(s, e)[Len(s) + 1] = e
  BY AppendProperties
<1>2. Len(s) \in Nat
  BY LenProperties
<1>3. Append(s, e) # <<>>
  BY <1>1, <1>2, EmptySeq
<1>4. Contains(Append(s, e), e)
  BY <1>1, <1>2 DEF Contains
<1>5. ASSUME NEW x, Contains(s, x) PROVE Contains(Append(s, e), x)
  <2>1. PICK i \in 1 .. Len(s) : s[i] = x
    BY <1>5 DEF Contains
  <2>2. i \in 1 .. Len(Append(s, e)) /\ Append(s, e)[i] = x
    BY <1>1, <1>2, <2>1
  <2>3. QED
    BY <2>2 DEF Contains
<1>6. ASSUME NEW x, Contains(Append(s, e), x), x # e PROVE Contains(s, x)
  <2>1. PICK i \in 1 .. Len(s) + 1 : Append(s, e)[i] = x
    BY <1>1, <1>6 DEF Contains
  <2>2. i \in 1 .. Len(s)
    BY <1>1, <1>2, <1>6, <2>1
  <2>3. QED
    BY <1>1, <2>1, <2>2 DEF Contains
<1>7. ASSUME IsInjective(s), ~Contains(s, e) PROVE IsInjective(Append(s, e))
  <2>1. DOMAIN s = 1 .. Len(s) /\ DOMAIN Append(s, e) = 1 .. Len(s) + 1
    BY <1>1, LenProperties
  <2>2. \A i \in 1 .. Len(s) + 1 : i \in 1 .. Len(s) \/ i = Len(s) + 1
    BY <1>2
  <2>3. /\ \A i, j \in 1 .. Len(s) : s[i] = s[j] => i = j
        /\ \A i \in 1 .. Len(s) : s[i] # e
    BY <1>7, <2>1 DEF IsInjective, Contains
  <2>4. QED
    BY <1>1, <2>1, <2>2, <2>3 DEF IsInjective
<1>8. QED
  BY <1>1, <1>3, <1>4, <1>5, <1>6, <1>7

\* Every entry of a list is its first one or in the rest.
LEMMA HeadOrTail == ASSUME NEW S, NEW s \in Seq(S), s # <<>>
  PROVE /\ Head(s) \in S /\ Tail(s) \in Seq(S)
        /\ \A x : Contains(s, x) => x = Head(s) \/ Contains(Tail(s), x)
<1>1. /\ Head(s) \in S /\ Tail(s) \in Seq(S) /\ Len(Tail(s)) = Len(s) - 1
      /\ \A i \in 1 .. Len(Tail(s)) : Tail(s)[i] = s[i + 1]
  BY HeadTailProperties
<1>2. Len(s) \in Nat /\ Head(s) = s[1]
  BY LenProperties
<1>3. ASSUME NEW x, Contains(s, x), x # Head(s) PROVE Contains(Tail(s), x)
  <2>1. PICK i \in 1 .. Len(s) : s[i] = x
    BY <1>3 DEF Contains
  <2>2. i - 1 \in 1 .. Len(Tail(s)) /\ (i - 1) + 1 = i
    BY <1>1, <1>2, <1>3, <2>1
  <2>3. QED
    BY <1>1, <2>1, <2>2 DEF Contains
<1>4. QED
  BY <1>1, <1>3

\* Front leaves out the last place.
LEMMA FrontShape == ASSUME NEW S, NEW s \in Seq(S), s # <<>>
  PROVE /\ Len(s) \in Nat \ {0} /\ Last(s) = s[Len(s)] /\ Last(s) \in S
        /\ Front(s) \in Seq(S) /\ Len(Front(s)) = Len(s) - 1
        /\ \A i \in 1 .. Len(s) - 1 : Front(s)[i] = s[i]
<1>1. Len(s) \in Nat \ {0} /\ \A i \in 1 .. Len(s) : s[i] \in S
  BY EmptySeq, ElementOfSeq
<1>2. /\ Front(s) \in Seq(S) /\ Len(Front(s)) = Len(s) - 1
      /\ \A i \in 1 .. Len(s) - 1 : Front(s)[i] = s[i]
  <2> DEFINE n == Len(s) - 1
  <2>1. 1 \in Int /\ n \in Nat /\ n \in Int /\ \A i \in 1 .. n : s[i] \in S
    BY <1>1
  <2>2. n - 1 + 1 = n /\ (IF 1 <= n THEN n - 1 + 1 ELSE 0) = n
    <3> HIDE DEF n
    <3>1. QED
      BY <2>1
  <2>3. /\ SubSeq(s, 1, n) \in Seq(S)
        /\ Len(SubSeq(s, 1, n)) = IF 1 <= n THEN n - 1 + 1 ELSE 0
        /\ \A i \in 1 .. n - 1 + 1 : SubSeq(s, 1, n)[i] = s[1 + i - 1]
    <3> HIDE DEF n
    <3>1. QED
      BY <2>1, SubSeqProperties
  <2>4. /\ SubSeq(s, 1, n) \in Seq(S) /\ Len(SubSeq(s, 1, n)) = n
        /\ \A i \in 1 .. n : SubSeq(s, 1, n)[i] = s[1 + i - 1]
    <3> HIDE DEF n
    <3>1. QED
      BY <2>2, <2>3
  <2>5. \A i \in 1 .. n : 1 + i - 1 = i
    OBVIOUS
  <2>6. \A i \in 1 .. n : SubSeq(s, 1, n)[i] = s[i]
    <3> HIDE DEF n
    <3>1. QED
      BY <2>4, <2>5
  <2>7. QED
    BY <2>4, <2>6 DEF Front
<1>3. QED
  BY <1>1, <1>2 DEF Last

\* Every entry of a list is its last one or before it.
LEMMA LastOrFront == ASSUME NEW S, NEW s \in Seq(S), s # <<>>
  PROVE /\ Last(s) \in S /\ Front(s) \in Seq(S) /\ <<Last(s)>> \in Seq(S)
        /\ Contains(<<Last(s)>>, Last(s)) /\ Contains(s, Last(s))
        /\ \A x : Contains(s, x) => x = Last(s) \/ Contains(Front(s), x)
        /\ \A x : Contains(Front(s), x) => Contains(s, x)
<1>1. /\ Len(s) \in Nat \ {0} /\ Last(s) = s[Len(s)] /\ Last(s) \in S
      /\ Front(s) \in Seq(S) /\ Len(Front(s)) = Len(s) - 1
      /\ \A i \in 1 .. Len(s) - 1 : Front(s)[i] = s[i]
  BY FrontShape
<1>2. <<Last(s)>> \in Seq(S) /\ Len(<<Last(s)>>) = 1 /\ <<Last(s)>>[1] = Last(s)
  BY <1>1
<1>3. Contains(<<Last(s)>>, Last(s))
  BY <1>2 DEF Contains
<1>4. Contains(s, Last(s))
  BY <1>1 DEF Contains
<1>5. ASSUME NEW x, Contains(s, x), x # Last(s) PROVE Contains(Front(s), x)
  <2>1. PICK i \in 1 .. Len(s) : s[i] = x
    BY <1>5 DEF Contains
  <2>2. i \in 1 .. Len(Front(s)) /\ Front(s)[i] = x
    BY <1>1, <1>5, <2>1
  <2>3. QED
    BY <2>2 DEF Contains
<1>6. ASSUME NEW x, Contains(Front(s), x) PROVE Contains(s, x)
  <2>1. PICK i \in 1 .. Len(Front(s)) : Front(s)[i] = x
    BY <1>6 DEF Contains
  <2>2. i \in 1 .. Len(s) /\ s[i] = x
    BY <1>1, <2>1
  <2>3. QED
    BY <2>2 DEF Contains
<1>7. QED
  BY <1>1, <1>2, <1>3, <1>4, <1>5, <1>6

\* A list in which nobody is twice: the last is not before the last.
LEMMA FrontOnce == ASSUME NEW S, NEW s \in Seq(S), s # <<>>, IsInjective(s)
  PROVE IsInjective(Front(s)) /\ ~Contains(Front(s), Last(s))
<1>1. /\ Len(s) \in Nat \ {0} /\ Last(s) = s[Len(s)] /\ Front(s) \in Seq(S)
      /\ Len(Front(s)) = Len(s) - 1 /\ \A i \in 1 .. Len(s) - 1 : Front(s)[i] = s[i]
  BY FrontShape
<1>2. DOMAIN s = 1 .. Len(s) /\ DOMAIN Front(s) = 1 .. Len(s) - 1
  BY <1>1, LenProperties
<1>3. \A i, j \in 1 .. Len(s) : s[i] = s[j] => i = j
  BY <1>2 DEF IsInjective
<1>4. IsInjective(Front(s))
  BY <1>1, <1>2, <1>3 DEF IsInjective
<1>5. ~Contains(Front(s), Last(s))
  <2>1. \A i \in 1 .. Len(s) - 1 : i \in 1 .. Len(s) /\ i # Len(s) /\ Len(s) \in 1 .. Len(s)
    BY <1>1
  <2>2. QED
    BY <1>1, <1>3, <2>1 DEF Contains
<1>6. QED
  BY <1>4, <1>5

NatLess == {p \in Nat \X Nat : p[1] < p[2]}

\* A set of numbers has a least one.
LEMMA MinExists == ASSUME NEW I, I \subseteq Nat, I # {}
  PROVE Min(I) \in I
<1>1. IsWellFoundedOn(NatLess, Nat)
  BY NatLessThanWellFounded DEF OpToRel, NatLess
<1>2. PICK x \in I : \A y \in I : ~(<<y, x>> \in NatLess)
  BY <1>1, WFMin
<1>3. \A y \in I : x <= y
  <2> TAKE y \in I
  <2>1. x \in Nat /\ y \in Nat /\ <<y, x>>[1] = y /\ <<y, x>>[2] = x
    OBVIOUS
  <2>2. ~(y < x)
    <3>1. ASSUME y < x PROVE <<y, x>> \in NatLess
      BY <2>1, <3>1 DEF NatLess
    <3>2. QED
      BY <1>2, <3>1
  <2>3. QED
    BY <2>1, <2>2
<1>4. QED
  BY <1>3 DEF Min

\* RemoveFirst finds a place of the entry, if the list has it.
LEMMA FirstPlace == ASSUME NEW S, NEW s \in Seq(S), NEW e, Contains(s, e)
  PROVE \E k \in 1 .. Len(s) :
          s[k] = e /\ RemoveFirst(s, e) = SubSeq(s, 1, k - 1) \o SubSeq(s, k + 1, Len(s))
<1> DEFINE I == {i \in 1 .. Len(s) : s[i] = e}
<1>1. I # {} /\ I \subseteq Nat
  BY DEF Contains
<1>2. Min(I) \in I
  <2> HIDE DEF I
  <2>1. QED
    BY <1>1, MinExists
<1>3. SelectInSeq(s, LAMBDA v : v = e) = Min(I)
  BY <1>1 DEF SelectInSeq
<1>4. RemoveFirst(s, e) = RemoveAt(s, Min(I))
  BY <1>3 DEF RemoveFirst, Contains
<1>5. QED
  BY <1>2, <1>4 DEF RemoveAt

\* RemoveFirst closes the gap at one place of the entry.
LEMMA RemoveShape == ASSUME NEW S, NEW s \in Seq(S), NEW e, Contains(s, e)
  PROVE \E k \in 1 .. Len(s) :
          /\ s[k] = e /\ RemoveFirst(s, e) \in Seq(S) /\ Len(RemoveFirst(s, e)) = Len(s) - 1
          /\ \A i \in 1 .. Len(s) - 1 :
               RemoveFirst(s, e)[i] = IF i < k THEN s[i] ELSE s[i + 1]
<1>1. PICK k \in 1 .. Len(s) :
        s[k] = e /\ RemoveFirst(s, e) = SubSeq(s, 1, k - 1) \o SubSeq(s, k + 1, Len(s))
  BY FirstPlace
<1> DEFINE a == SubSeq(s, 1, k - 1)
           b == SubSeq(s, k + 1, Len(s))
           n == Len(s)
<1>2. n \in Nat /\ k \in 1 .. n /\ k \in Int /\ \A i \in 1 .. n : s[i] \in S
  BY LenProperties, ElementOfSeq
<1> HIDE DEF n
<1>3. /\ a \in Seq(S) /\ Len(a) = k - 1
      /\ \A i \in 1 .. k - 1 : a[i] = s[i]
  <2>1. 1 \in Int /\ k - 1 \in Int /\ \A i \in 1 .. k - 1 : s[i] \in S
    BY <1>2
  <2>2. /\ a \in Seq(S)
        /\ Len(a) = IF 1 <= k - 1 THEN (k - 1) - 1 + 1 ELSE 0
        /\ \A i \in 1 .. (k - 1) - 1 + 1 : a[i] = s[1 + i - 1]
    BY <2>1, SubSeqProperties
  <2>3. (k - 1) - 1 + 1 = k - 1 /\ (IF 1 <= k - 1 THEN k - 1 ELSE 0) = k - 1
    BY <1>2
  <2>4. \A i \in 1 .. k - 1 : 1 + i - 1 = i
    OBVIOUS
  <2> HIDE DEF a
  <2>5. QED
    BY <2>2, <2>3, <2>4
<1>4. /\ b \in Seq(S) /\ Len(b) = n - k
      /\ \A i \in 1 .. n - k : b[i] = s[k + i]
  <2>1. k + 1 \in Int /\ n \in Int /\ \A i \in k + 1 .. n : s[i] \in S
    BY <1>2
  <2>2. /\ b \in Seq(S)
        /\ Len(b) = IF k + 1 <= n THEN n - (k + 1) + 1 ELSE 0
        /\ \A i \in 1 .. n - (k + 1) + 1 : b[i] = s[(k + 1) + i - 1]
    BY <2>1, SubSeqProperties DEF n
  <2>3. n - (k + 1) + 1 = n - k /\ (IF k + 1 <= n THEN n - k ELSE 0) = n - k
    BY <1>2
  <2>4. \A i \in 1 .. n - k : (k + 1) + i - 1 = k + i
    BY <1>2
  <2> HIDE DEF b
  <2>5. QED
    BY <2>2, <2>3, <2>4
<1> HIDE DEF a, b
<1>5. /\ a \o b \in Seq(S) /\ Len(a \o b) = n - 1
      /\ \A i \in 1 .. n - 1 : (a \o b)[i] = IF i <= k - 1 THEN a[i] ELSE b[i - (k - 1)]
  <2>1. Len(a) + Len(b) = n - 1
    BY <1>2, <1>3, <1>4
  <2>2. QED
    BY <1>3, <1>4, <2>1, ConcatProperties
<1>6. ASSUME NEW i \in 1 .. n - 1
      PROVE (a \o b)[i] = IF i < k THEN s[i] ELSE s[i + 1]
  <2>1. CASE i < k
    <3>1. i \in 1 .. k - 1 /\ i <= k - 1
      BY <1>2, <2>1
    <3>2. QED
      BY <1>3, <1>5, <2>1, <3>1
  <2>2. CASE ~(i < k)
    <3>1. i - (k - 1) \in 1 .. n - k /\ ~(i <= k - 1) /\ k + (i - (k - 1)) = i + 1
      BY <1>2, <2>2
    <3>2. QED
      BY <1>4, <1>5, <2>2, <3>1
  <2>3. QED
    BY <2>1, <2>2
<1>7. RemoveFirst(s, e) = a \o b
  BY <1>1 DEF a, b, n
<1>8. QED
  BY <1>1, <1>5, <1>6, <1>7 DEF n

\* RemoveFirst leaves the other entries in the list, and adds none.
LEMMA RemoveKeeps == ASSUME NEW S, NEW s \in Seq(S), NEW e
  PROVE /\ RemoveFirst(s, e) \in Seq(S)
        /\ \A x : x # e /\ Contains(s, x) => Contains(RemoveFirst(s, e), x)
        /\ \A x : Contains(RemoveFirst(s, e), x) => Contains(s, x)
        /\ ~Contains(s, e) => RemoveFirst(s, e) = s
        /\ s = <<>> => RemoveFirst(s, e) = <<>>
<1>1. CASE ~Contains(s, e)
  BY <1>1 DEF RemoveFirst, Contains
<1>2. CASE Contains(s, e)
  <2> DEFINE r == RemoveFirst(s, e)
             n == Len(s)
  <2>1. PICK k \in 1 .. n :
          /\ s[k] = e /\ r \in Seq(S) /\ Len(r) = n - 1
          /\ \A i \in 1 .. n - 1 : r[i] = IF i < k THEN s[i] ELSE s[i + 1]
    BY <1>2, RemoveShape
  <2>2. n \in Nat /\ k \in 1 .. n
    BY LenProperties
  <2> HIDE DEF r
  <2>3. ASSUME NEW x, x # e, Contains(s, x) PROVE Contains(r, x)
    <3>1. PICK i \in 1 .. n : s[i] = x
      BY <2>3 DEF Contains
    <3>2. i # k
      BY <2>1, <2>3, <3>1
    <3> HIDE DEF n
    <3>3. CASE i < k
      <4>1. i \in 1 .. n - 1
        BY <2>2, <3>3
      <4>2. r[i] = x
        BY <2>1, <3>1, <3>3, <4>1
      <4>3. QED
        BY <2>1, <4>1, <4>2 DEF Contains
    <3>4. CASE i > k
      <4>1. i - 1 \in 1 .. n - 1 /\ ~(i - 1 < k) /\ (i - 1) + 1 = i
        BY <2>2, <3>4
      <4>2. r[i - 1] = x
        BY <2>1, <3>1, <4>1
      <4>3. QED
        BY <2>1, <4>1, <4>2 DEF Contains
    <3>5. QED
      BY <2>2, <3>2, <3>3, <3>4
  <2>4. ASSUME NEW x, Contains(r, x) PROVE Contains(s, x)
    <3>1. PICK i \in 1 .. n - 1 : r[i] = x
      BY <2>1, <2>4 DEF Contains
    <3>2. i \in 1 .. n /\ i + 1 \in 1 .. n
      BY <2>2
    <3>3. QED
      BY <2>1, <3>1, <3>2 DEF Contains
  <2>5. s # <<>>
    BY <1>2, EmptySeq DEF Contains
  <2>6. QED
    BY <1>2, <2>1, <2>3, <2>4, <2>5 DEF r
<1>3. QED
  BY <1>1, <1>2

\* A list in which nobody is twice: without its first e, nobody is twice and e is gone.
LEMMA RemoveOnce == ASSUME NEW S, NEW s \in Seq(S), NEW e, IsInjective(s)
  PROVE IsInjective(RemoveFirst(s, e)) /\ ~Contains(RemoveFirst(s, e), e)
<1>1. CASE ~Contains(s, e)
  BY <1>1, RemoveKeeps
<1>2. CASE Contains(s, e)
  <2> DEFINE r == RemoveFirst(s, e)
             n == Len(s)
  <2>1. PICK k \in 1 .. n :
          /\ s[k] = e /\ r \in Seq(S) /\ Len(r) = n - 1
          /\ \A i \in 1 .. n - 1 : r[i] = IF i < k THEN s[i] ELSE s[i + 1]
    BY <1>2, RemoveShape
  <2>2. n \in Nat /\ k \in 1 .. n /\ DOMAIN s = 1 .. n /\ DOMAIN r = 1 .. n - 1
    BY <2>1, LenProperties
  <2> DEFINE from(i) == IF i < k THEN i ELSE i + 1
  <2> HIDE DEF r, n
  <2>3. \A i \in 1 .. n - 1 : from(i) \in 1 .. n /\ from(i) # k /\ r[i] = s[from(i)]
    BY <2>1, <2>2
  <2>4. \A i, j \in 1 .. n - 1 : from(i) = from(j) => i = j
    BY <2>2
  <2>5. \A i, j \in 1 .. n : s[i] = s[j] => i = j
    BY <2>2 DEF IsInjective
  <2> HIDE DEF from
  <2>6. \A i, j \in 1 .. n - 1 : r[i] = r[j] => i = j
    BY <2>3, <2>4, <2>5
  <2>7. \A i \in 1 .. n - 1 : r[i] # e
    BY <2>1, <2>3, <2>5
  <2>8. IsInjective(r) /\ ~Contains(r, e)
    BY <2>1, <2>2, <2>6, <2>7 DEF IsInjective, Contains
  <2>9. QED
    BY <2>8 DEF r
<1>3. QED
  BY <1>1, <1>2

\* ReplaceAll leaves the other entries in the list.
LEMMA ReplaceKeeps == ASSUME NEW S, NEW s \in Seq(S), NEW e, NEW d \in S
  PROVE /\ ReplaceAll(s, e, d) \in Seq(S)
        /\ \A x : x # e /\ Contains(s, x) => Contains(ReplaceAll(s, e, d), x)
        /\ s = <<>> => ReplaceAll(s, e, d) = <<>>
<1> DEFINE n == Len(s)
           r == ReplaceAll(s, e, d)
<1>1. n \in Nat /\ \A i \in 1 .. n : s[i] \in S
  BY LenProperties, ElementOfSeq
<1>2. r = [i \in 1 .. n |-> IF s[i] = e THEN d ELSE s[i]]
  BY DEF ReplaceAll
<1> HIDE DEF n, r
<1>3. r \in [1 .. n -> S]
  BY <1>1, <1>2
<1>4. r \in Seq(S) /\ Len(r) = n
  BY <1>1, <1>3, SeqDef
<1>5. ASSUME NEW x, x # e, Contains(s, x) PROVE Contains(r, x)
  <2>1. PICK i \in 1 .. n : s[i] = x
    BY <1>5 DEF Contains, n
  <2>2. r[i] = x
    BY <1>2, <1>5, <2>1
  <2>3. QED
    BY <1>4, <2>2 DEF Contains
<1>6. s = <<>> => r = <<>>
  BY <1>4, EmptySeq DEF n
<1>7. QED
  BY <1>4, <1>5, <1>6 DEF r

(* -------------------------------- types --------------------------------- *)

\* In Handoff every wait is of one of the three kinds, try_recv is not there.
Types == TypeOK /\ kind \in [Waiters -> AllKinds]

\* A notifier is not a waiter, and neither is the entry of a dropped future.
LEMMA Apart == ASSUME NEW t \in Waiters
  PROVE t \notin Notifiers /\ t \in Entries /\ t # Dropped
  BY ActorsAssumption, NamesAssumption DEF Entries, Actors

\* The lists a deadline, a late race and a dropped future leave have their types.
LEMMA ListTypes == ASSUME Types, NEW t \in Waiters, NEW k \in AllKinds
  PROVE /\ RemoveFirst(waiting[k], t) \in Seq(Entries)
        /\ ReplaceAll(waiting[k], t, Dropped) \in Seq(Entries)
        /\ Append(waiting[k], t) \in Seq(Entries)
<1>1. waiting[k] \in Seq(Entries) /\ t \in Entries /\ Dropped \in Entries
  BY DEF Types, TypeOK, CondvarTypes, Entries
<1>2. QED
  BY <1>1, RemoveKeeps, ReplaceKeeps, ContainsAppend

\* So have the hands of the notifiers.
LEMMA HandTypes == ASSUME Types, NEW t \in Waiters, Forget(t)
  PROVE hand' \in [Notifiers -> Seq(Entries)]
<1>1. \A n \in Notifiers : hand[n] \in Seq(Entries) /\ Dropped \in Entries
  BY DEF Types, TypeOK, CondvarTypes, Entries
<1>2. \A n \in Notifiers : ReplaceAll(hand[n], t, Dropped) \in Seq(Entries)
  BY <1>1, ReplaceKeeps
<1>3. QED
  BY <1>1, <1>2 DEF Forget

\* The program starts with every variable in its type.
LEMMA TypeInit == Init => Types
  BY EmptySeq, MaxItemsAssumption
  DEF Init, CondvarInit, Types, TypeOK, CondvarTypes, AllKinds, Places, Entries

\* Every step of a client keeps the types.
LEMMA ClientType == ASSUME Types, NEW t \in Waiters, ClientStep(t) \/ Begin(t)
  PROVE Types'
<1> USE DEF Types, TypeOK, CondvarTypes, Goto, call, notes
<1>1. ASSUME Leave(t), items' \in 0 .. MaxItems PROVE Types'
  BY <1>1 DEF Leave, Return, Actors, Nobody, Places, AllKinds
<1>2. CASE Take(t)
  <2>1. items' \in 0 .. MaxItems
    BY <1>2, MaxItemsAssumption DEF Take
  <2>2. QED
    BY <1>1, <1>2, <2>1 DEF Take
<1>3. CASE TimedOut(t)
  BY <1>1, <1>3 DEF TimedOut
<1>4. CASE Wait(t)
  <2>1. waiting' \in [AllKinds -> Seq(Entries)]
    BY <1>4, ListTypes DEF Wait, Register
  <2>2. woken' \in [AllKinds -> [Waiters -> BOOLEAN]]
    BY <1>4 DEF Wait, Register
  <2>3. QED
    BY <1>4, <2>1, <2>2 DEF Wait, Register, Places, Actors
<1>5. CASE Begin(t)
  <2>1. PICK k \in Kinds : ChooseWait(t, k) /\ ChooseDeadline(t, k)
    BY <1>5 DEF Begin, Call
  <2>2. kind' \in [Waiters -> AllKinds]
    BY <2>1, KindsAssumption DEF ChooseWait
  <2>3. deadline' \in [Waiters -> {"none", "ahead", "passed"}]
    BY <2>1 DEF ChooseDeadline
  <2>4. QED
    BY <1>5, <2>2, <2>3 DEF Begin, Call, Places, Actors
<1>6. QED
  BY <1>2, <1>3, <1>4, <1>5 DEF ClientStep

\* So does every step a waiter takes in its wait.
LEMMA WaiterType == ASSUME Types, NEW t \in Waiters, WaiterStep(t), UNCHANGED items
  PROVE Types'
<1> USE DEF Types, TypeOK, CondvarTypes, Goto, call, notes, Places, Actors
<1>1. kind[t] \in AllKinds
  OBVIOUS
<1>2. ASSUME RemoveOwn(t) PROVE waiting' \in [AllKinds -> Seq(Entries)]
  BY <1>1, <1>2, ListTypes DEF RemoveOwn
<1>3. CASE DropGuard(t)
  BY <1>3 DEF DropGuard, Nobody
<1>4. CASE Wake(t)
  <2>1. woken' \in [AllKinds -> [Waiters -> BOOLEAN]]
    BY <1>1, <1>4 DEF Wake
  <2>2. QED
    BY <1>4, <2>1 DEF Wake, Relock
<1>5. CASE LoopHead(t)
  <2>1. CASE deadline[t] = "passed"
    <3>1. Queued(t) \in BOOLEAN
      BY DEF Queued, Contains
    <3>2. QED
      BY <1>2, <1>5, <2>1, <3>1 DEF LoopHead, Relock
  <2>2. CASE deadline[t] # "passed"
    BY <1>5, <2>2 DEF LoopHead
  <2>3. QED
    BY <2>1, <2>2
<1>6. CASE ParkTimeout(t) \/ RaceLate(t)
  BY <1>6 DEF ParkTimeout, RaceLate
<1>7. CASE Check(t)
  BY <1>7 DEF Check, Relock
<1>8. CASE SpinLate(t)
  BY <1>2, <1>8 DEF SpinLate, Relock
<1>9. CASE AsyncLate(t)
  <2>1. woken' \in [AllKinds -> [Waiters -> BOOLEAN]]
    BY <1>9 DEF AsyncLate
  <2>2. hand' \in [Notifiers -> Seq(Entries)]
    BY <1>9, HandTypes DEF AsyncLate
  <2>3. QED
    BY <1>2, <1>9, <2>1, <2>2 DEF AsyncLate, Relock
<1>10. QED
  BY <1>3, <1>4, <1>5, <1>6, <1>7, <1>8, <1>9 DEF WaiterStep

\* So does every step of a notifier.
LEMMA NotifierType == ASSUME Types, NEW n \in Notifiers, NotifierStep(n), UNCHANGED items
  PROVE Types'
<1> USE DEF Types, TypeOK, CondvarTypes, Goto, call, notes, Places, Actors
<1>1. at[n] \in AllKinds /\ waiting[at[n]] \in Seq(Entries) /\ hand[n] \in Seq(Entries)
  OBVIOUS
<1>2. ASSUME NextList(n) PROVE pc' \in [Actors -> Places] /\ at' \in [Notifiers -> AllKinds]
  BY <1>2 DEF NextList, AllKinds
<1>3. CASE Pop(n)
  <2>1. CASE waiting[at[n]] = <<>>
    BY <1>2, <1>3, <2>1 DEF Pop
  <2>2. CASE waiting[at[n]] # <<>>
    <3>1. Front(waiting[at[n]]) \in Seq(Entries) /\ <<Last(waiting[at[n]])>> \in Seq(Entries)
      BY <1>1, <2>2, LastOrFront
    <3>2. QED
      BY <1>3, <2>2, <3>1 DEF Pop
  <2>3. QED
    BY <2>1, <2>2
<1>4. CASE TakeAll(n)
  BY <1>1, <1>4, EmptySeq DEF TakeAll
<1>5. CASE Deliver(n)
  <2>1. Tail(hand[n]) \in Seq(Entries) /\ Head(hand[n]) \in Entries
    BY <1>1, <1>5, HeadOrTail DEF Deliver
  <2>2. woken' \in [AllKinds -> [Waiters -> BOOLEAN]]
    BY <1>1, <1>5, <2>1 DEF Deliver, Entries
  <2>3. QED
    BY <1>5, <2>1, <2>2 DEF Deliver
<1>6. CASE Delivered(n)
  BY <1>2, <1>6 DEF Delivered
<1>7. QED
  BY <1>3, <1>4, <1>5, <1>6 DEF NotifierStep

\* Every step keeps the types.
LEMMA TypeStep == Types /\ [Next]_vars => Types'
<1> SUFFICES ASSUME Types, [Next]_vars PROVE Types'
  OBVIOUS
<1> USE DEF Types, TypeOK, CondvarTypes, Goto, call, notes, condvar, Actors
<1>1. ASSUME NEW n \in Notifiers, Produce(n) PROVE Types'
  <2>1. items' \in 0 .. MaxItems
    BY <1>1, MaxItemsAssumption DEF Produce
  <2>2. PICK h \in Notifies : Notify(n, h)
    BY <1>1 DEF Produce
  <2>3. how' \in [Notifiers -> {"one", "all"}] /\ at' \in [Notifiers -> AllKinds]
    BY <2>2, NotifiesAssumption DEF Notify, AllKinds
  <2>4. QED
    BY <1>1, <2>1, <2>2, <2>3 DEF Produce, Notify, Places
<1>2. ASSUME NEW t \in Waiters, UNCHANGED items, Lock(t) \/ DeadlinePasses(t) PROVE Types'
  BY <1>2 DEF Lock, DeadlinePasses, Places
<1>3. ASSUME NEW t \in Waiters, UNCHANGED items, LockParks(t) \/ StrayUnpark(t) PROVE Types'
  <2>1. PICK b \in BOOLEAN : woken' = [woken EXCEPT !["block"][t] = b]
    BY <1>3 DEF LockParks, StrayUnpark
  <2>2. woken' \in [AllKinds -> [Waiters -> BOOLEAN]]
    BY <2>1 DEF AllKinds
  <2>3. QED
    BY <1>3, <2>2 DEF LockParks, StrayUnpark
<1>4. ASSUME NEW t \in Waiters, UNCHANGED items, CancelAsync(t) PROVE Types'
  <2>1. waiting' \in [AllKinds -> Seq(Entries)] /\ hand' \in [Notifiers -> Seq(Entries)]
    BY <1>4, ListTypes, HandTypes DEF CancelAsync, AllKinds
  <2>2. woken' \in [AllKinds -> [Waiters -> BOOLEAN]]
    BY <1>4 DEF CancelAsync, AllKinds
  <2>3. kind' \in [Waiters -> AllKinds]
    BY <1>4 DEF CancelAsync, Return, AllKinds
  <2>4. QED
    BY <1>4, <2>1, <2>2, <2>3 DEF CancelAsync, Return, Places
<1>5. CASE UNCHANGED vars
  BY <1>5 DEF vars
<1>6. QED
  <2> HIDE DEF Types
  <2>1. QED
    BY <1>1, <1>2, <1>3, <1>4, <1>5, ClientType, WaiterType, NotifierType
    DEF Next, CondvarNext

\* Every variable has its type, for any waiters, notifiers and bounds.
THEOREM Typed == Spec => []TypeOK
<1>1. Types => TypeOK
  BY DEF Types
<1>2. QED
  BY TypeInit, TypeStep, <1>1, PTL DEF Spec

(* ------------------- no sleeper without its wakeup ---------------------- *)

\* Its entry is in its list or in a hand, or its wakeup is there.
Remembered(t) == Queued(t) \/ InHand(t) \/ woken[kind[t]][t]
Sleeping(t) == pc[t] \in {"registered", "head", "asleep"}

\* What the hand of notifier n does for waiter t, taken by itself.
HandOf(n, t) == pc[n] = "waking" /\ at[n] = kind[t] /\ Contains(hand[n], t)

\* A waiter stays remembered if nothing takes its entry, a hand's or its wakeup.
LEMMA StaysRemembered ==
  ASSUME NEW t \in Waiters, Remembered(t),
         Queued(t) => Remembered(t)',
         \A n \in Notifiers : HandOf(n, t) => Remembered(t)',
         woken[kind[t]][t] => Remembered(t)'
  PROVE Remembered(t)'
  BY DEF Remembered, InHand, HandOf

\* A waiter that did nothing loses nothing to the step of another one.
LEMMA OthersKeep ==
  ASSUME Types, NEW t \in Waiters, NEW u \in Waiters, t # u, Remembered(t),
         UNCHANGED <<kind[t], at>>,
         \A n \in Notifiers : pc'[n] = pc[n],
         UNCHANGED hand \/ Forget(u),
         waiting'[kind[t]] \in
           {waiting[kind[t]], Append(waiting[kind[t]], u),
            RemoveFirst(waiting[kind[t]], u), ReplaceAll(waiting[kind[t]], u, Dropped)},
         woken[kind[t]][t] => woken'[kind[t]][t]
  PROVE Remembered(t)'
<1>1. /\ kind[t] \in AllKinds /\ waiting[kind[t]] \in Seq(Entries)
      /\ u \in Entries /\ Dropped \in Entries /\ \A n \in Notifiers : hand[n] \in Seq(Entries)
  BY DEF Types, TypeOK, CondvarTypes, Entries
<1>2. ASSUME Queued(t) PROVE Remembered(t)'
  <2> DEFINE s == waiting[kind[t]]
  <2>1. Contains(s, t)
    BY <1>2 DEF Queued
  <2> HIDE DEF s
  <2>2. /\ Contains(Append(s, u), t) /\ Contains(RemoveFirst(s, u), t)
        /\ Contains(ReplaceAll(s, u, Dropped), t)
    <3>1. s \in Seq(Entries)
      BY <1>1 DEF s
    <3>2. Contains(Append(s, u), t)
      BY <1>1, <2>1, <3>1, ContainsAppend
    <3>3. Contains(RemoveFirst(s, u), t)
      BY <2>1, <3>1, RemoveKeeps
    <3>4. Contains(ReplaceAll(s, u, Dropped), t)
      BY <1>1, <2>1, <3>1, ReplaceKeeps
    <3>5. QED
      BY <3>2, <3>3, <3>4
  <2>3. Contains(waiting'[kind[t]], t)
    BY <2>1, <2>2 DEF s
  <2>4. QED
    BY <2>3 DEF Queued, Remembered
<1>3. ASSUME NEW n \in Notifiers, HandOf(n, t) PROVE Remembered(t)'
  <2>1. Contains(hand'[n], t)
    BY <1>1, <1>3, ReplaceKeeps DEF HandOf, Forget
  <2>2. QED
    BY <1>3, <2>1 DEF HandOf, Remembered, InHand
<1>4. woken[kind[t]][t] => Remembered(t)'
  BY DEF Remembered
<1>5. QED
  BY <1>2, <1>3, <1>4, StaysRemembered

\* A step that leaves the lists, the hands and the wakeups alone.
LEMMA SameKeeps ==
  ASSUME NEW t \in Waiters, Remembered(t), UNCHANGED <<waiting, hand, at, kind[t]>>,
         \A n \in Notifiers : pc'[n] = pc[n],
         woken[kind[t]][t] => woken'[kind[t]][t]
  PROVE Remembered(t)'
  BY DEF Remembered, Queued, InHand

\* A client that enters the wait is in the list; one that leaves is awake.
LEMMA ClientRegistered == ASSUME Types, Registered, NEW u \in Waiters, ClientStep(u) \/ Begin(u)
  PROVE Registered'
<1> SUFFICES ASSUME NEW t \in Waiters, Sleeping(t)' PROVE Remembered(t)'
  BY DEF Registered, Sleeping, Remembered
<1> USE DEF Goto, call, notes
<1>1. pc \in [Actors -> Places] /\ kind \in [Waiters -> AllKinds] /\ u \in Actors
  BY DEF Types, TypeOK, Actors
<1>2. \A n \in Notifiers : pc'[n] = pc[n]
  BY <1>1, Apart DEF Actors, ClientStep, Take, Wait, TimedOut, Begin, Leave, Return, Register, Call
<1>3. CASE t = u
  <2>1. pc'[u] \in {"idle", "locking"} \/ Wait(u)
    BY <1>1 DEF ClientStep, Take, TimedOut, Begin, Leave, Return, Call
  <2>2. Wait(u)
    BY <1>3, <2>1 DEF Sleeping
  <2>3. waiting \in [AllKinds -> Seq(Entries)] /\ u \in Entries
    BY Apart DEF Types, TypeOK, CondvarTypes
  <2>4. Contains(waiting'[kind[u]], u) /\ kind' = kind
    BY <1>1, <2>2, <2>3, ContainsAppend DEF Wait, Register
  <2>5. QED
    BY <1>3, <2>4 DEF Remembered, Queued
<1>4. CASE t # u
  <2>1. pc'[t] = pc[t] /\ kind'[t] = kind[t]
    BY <1>1, <1>4
    DEF Actors, ClientStep, Take, Wait, TimedOut, Begin, Leave, Return, Register, Call, ChooseWait
  <2>2. Remembered(t)
    BY <2>1 DEF Registered, Sleeping, Remembered
  <2>3. CASE Wait(u)
    <3>1. woken \in [AllKinds -> [Waiters -> BOOLEAN]] /\ waiting \in [AllKinds -> Seq(Entries)]
      BY DEF Types, TypeOK, CondvarTypes
    <3>2. woken[kind[t]][t] => woken'[kind[t]][t]
      BY <1>1, <1>4, <2>3, <3>1 DEF Wait, Register
    <3>3. waiting'[kind[t]] \in {waiting[kind[t]], Append(waiting[kind[t]], u)}
      BY <1>1, <2>3, <3>1 DEF Wait, Register
    <3>4. UNCHANGED <<at, hand>>
      BY <2>3 DEF Wait, Register
    <3>5. QED
      BY <1>2, <1>4, <2>1, <2>2, <3>2, <3>3, <3>4, OthersKeep
  <2>4. CASE ~Wait(u)
    <3>1. UNCHANGED <<waiting, woken, at, hand>>
      BY <2>4 DEF ClientStep, Take, TimedOut, Begin, Leave, Call
    <3>2. QED
      BY <1>2, <2>1, <2>2, <3>1, SameKeeps
  <2>5. QED
    BY <2>3, <2>4
<1>5. QED
  BY <1>3, <1>4

\* A waiter that wakes up, or comes too late, goes out of its own list only.
LEMMA WaiterRegistered == ASSUME Types, Registered, NEW u \in Waiters, WaiterStep(u)
  PROVE Registered'
<1> SUFFICES ASSUME NEW t \in Waiters, Sleeping(t)' PROVE Remembered(t)'
  BY DEF Registered, Sleeping, Remembered
<1> USE DEF Goto, call, notes
<1>1. /\ pc \in [Actors -> Places] /\ kind \in [Waiters -> AllKinds] /\ u \in Actors
      /\ woken \in [AllKinds -> [Waiters -> BOOLEAN]] /\ waiting \in [AllKinds -> Seq(Entries)]
  BY DEF Types, TypeOK, CondvarTypes, Actors
<1>2. \A n \in Notifiers : pc'[n] = pc[n]
  BY <1>1, Apart
  DEF Actors, WaiterStep, DropGuard, Wake, LoopHead, ParkTimeout, Check, SpinLate, RaceLate,
      AsyncLate, Relock
<1>3. UNCHANGED <<kind, at>>
  BY DEF WaiterStep, DropGuard, Wake, LoopHead, ParkTimeout, Check, SpinLate, RaceLate,
         AsyncLate, Relock
<1>4. CASE t = u
  <2>1. pc'[u] \in {"locking", "check", "popped", "late"} \/ UNCHANGED <<waiting, hand, woken>>
    BY <1>1 DEF WaiterStep, DropGuard, Wake, LoopHead, ParkTimeout, Check, SpinLate, RaceLate,
                AsyncLate, Relock
  <2>2. UNCHANGED <<waiting, hand, woken>>
    BY <1>4, <2>1 DEF Sleeping
  <2>3. Sleeping(u) \/ Check(u)
    BY <1>1, <1>4 DEF Sleeping, WaiterStep, DropGuard, Wake, LoopHead, ParkTimeout, SpinLate,
                      RaceLate, AsyncLate, Relock
  <2>4. Remembered(u)
    BY <1>1, <1>4, <2>3 DEF Registered, Sleeping, Remembered, Check, Relock
  <2>5. QED
    BY <1>2, <1>3, <1>4, <2>2, <2>4, SameKeeps
<1>5. CASE t # u
  <2>1. pc'[t] = pc[t]
    BY <1>1, <1>5
    DEF Actors, WaiterStep, DropGuard, Wake, LoopHead, ParkTimeout, Check, SpinLate, RaceLate,
        AsyncLate, Relock
  <2>2. Remembered(t)
    BY <2>1 DEF Registered, Sleeping, Remembered
  <2>3. waiting'[kind[t]] \in {waiting[kind[t]], RemoveFirst(waiting[kind[t]], u)}
    BY <1>1 DEF WaiterStep, DropGuard, Wake, LoopHead, ParkTimeout, Check, SpinLate, RaceLate,
                AsyncLate, RemoveOwn
  <2>4. woken[kind[t]][t] => woken'[kind[t]][t]
    <3>1. CASE Wake(u)
      <4>1. kind[u] \in AllKinds /\ woken' = [woken EXCEPT ![kind[u]][u] = FALSE]
        BY <1>1, <3>1 DEF Wake
      <4>2. QED
        BY <1>1, <1>5, <4>1
    <3>2. CASE AsyncLate(u)
      <4>1. woken' = [woken EXCEPT !["async"][u] = FALSE]
        BY <3>2 DEF AsyncLate
      <4>2. QED
        BY <1>1, <1>5, <4>1
    <3>3. CASE woken' = woken
      BY <3>3
    <3>4. QED
      BY <3>1, <3>2, <3>3
      DEF WaiterStep, DropGuard, LoopHead, ParkTimeout, Check, SpinLate, RaceLate
  <2>5. UNCHANGED hand \/ Forget(u)
    BY DEF WaiterStep, DropGuard, Wake, LoopHead, ParkTimeout, Check, SpinLate, RaceLate, AsyncLate
  <2>6. QED
    BY <1>2, <1>3, <1>5, <2>1, <2>2, <2>3, <2>4, <2>5, OthersKeep
<1>6. QED
  BY <1>4, <1>5

\* A popped, taken or delivered entry is in a hand, or its wakeup is there.
LEMMA NotifierRegistered == ASSUME Types, Registered, NEW n \in Notifiers, NotifierStep(n)
  PROVE Registered'
<1> SUFFICES ASSUME NEW t \in Waiters, Sleeping(t)' PROVE Remembered(t)'
  BY DEF Registered, Sleeping, Remembered
<1> USE DEF Goto, call, notes
<1>1. /\ pc \in [Actors -> Places] /\ kind \in [Waiters -> AllKinds] /\ n \in Actors
      /\ t \in Actors /\ t # n /\ kind[t] \in AllKinds /\ at \in [Notifiers -> AllKinds]
      /\ hand \in [Notifiers -> Seq(Entries)] /\ waiting \in [AllKinds -> Seq(Entries)]
      /\ woken \in [AllKinds -> [Waiters -> BOOLEAN]]
  BY Apart DEF Types, TypeOK, CondvarTypes, Actors
<1>2. /\ kind' = kind /\ \A a \in Actors \ {n} : pc'[a] = pc[a]
      /\ \A m \in Notifiers \ {n} : pc'[m] = pc[m] /\ at'[m] = at[m] /\ hand'[m] = hand[m]
  BY <1>1 DEF NotifierStep, Pop, TakeAll, Deliver, Delivered, NextList, Actors
<1>3. Remembered(t)
  BY <1>1, <1>2 DEF Registered, Sleeping, Remembered
<1>4. ASSUME NEW m \in Notifiers, m # n, HandOf(m, t) PROVE Remembered(t)'
  BY <1>2, <1>4 DEF HandOf, Remembered, InHand
<1>5. ASSUME woken' = woken, woken[kind[t]][t] PROVE Remembered(t)'
  BY <1>2, <1>5 DEF Remembered
<1>6. ASSUME waiting'[kind[t]] = waiting[kind[t]], Queued(t) PROVE Remembered(t)'
  BY <1>2, <1>6 DEF Remembered, Queued
<1>7. ASSUME pc'[n] = "waking", at'[n] = kind[t], Contains(hand'[n], t) PROVE Remembered(t)'
  BY <1>2, <1>7 DEF Remembered, InHand
<1>8. CASE Pop(n)
  <2>1. woken' = woken /\ ~HandOf(n, t)
    BY <1>8 DEF Pop, HandOf
  <2>2. ASSUME Queued(t) PROVE Remembered(t)'
    <3>1. CASE waiting' = waiting
      BY <1>6, <2>2, <3>1
    <3>2. CASE waiting[at[n]] # <<>> /\ at[n] # kind[t]
      BY <1>1, <1>6, <1>8, <2>2, <3>2 DEF Pop
    <3>3. CASE waiting[at[n]] # <<>> /\ at[n] = kind[t]
      <4> DEFINE s == waiting[at[n]]
      <4>1. /\ pc'[n] = "waking" /\ at'[n] = kind[t] /\ hand'[n] = <<Last(s)>>
            /\ waiting'[kind[t]] = Front(s)
        BY <1>1, <1>8, <3>3 DEF Pop
      <4>2. Contains(s, t) /\ s \in Seq(Entries)
        BY <1>1, <2>2, <3>3 DEF Queued
      <4>3. CASE t = Last(s)
        <5>1. Contains(<<Last(s)>>, t)
          BY <3>3, <4>2, <4>3, LastOrFront
        <5>2. QED
          BY <1>7, <4>1, <5>1
      <4>4. CASE Contains(Front(s), t)
        BY <1>2, <4>1, <4>4 DEF Remembered, Queued
      <4>5. QED
        BY <3>3, <4>2, <4>3, <4>4, LastOrFront
    <3>4. QED
      BY <1>8, <3>1, <3>2, <3>3 DEF Pop
  <2>3. QED
    BY <1>3, <1>4, <1>5, <2>1, <2>2, StaysRemembered
<1>9. CASE TakeAll(n)
  <2>1. woken' = woken /\ ~HandOf(n, t)
    BY <1>9 DEF TakeAll, HandOf
  <2>2. ASSUME Queued(t) PROVE Remembered(t)'
    <3>1. CASE at[n] # kind[t]
      BY <1>1, <1>6, <1>9, <2>2, <3>1 DEF TakeAll
    <3>2. CASE at[n] = kind[t]
      <4>1. pc'[n] = "waking" /\ at'[n] = kind[t] /\ hand'[n] = waiting[kind[t]]
        BY <1>1, <1>9, <3>2 DEF TakeAll
      <4>2. QED
        BY <1>7, <2>2, <4>1 DEF Queued
    <3>3. QED
      BY <3>1, <3>2
  <2>3. QED
    BY <1>3, <1>4, <1>5, <2>1, <2>2, StaysRemembered
<1>10. CASE Deliver(n)
  <2> DEFINE s == hand[n]
  <2>1. /\ s \in Seq(Entries) /\ s # <<>> /\ pc[n] = "waking" /\ pc' = pc /\ at' = at
        /\ waiting' = waiting /\ hand'[n] = Tail(s)
    BY <1>1, <1>10 DEF Deliver
  <2>2. ASSUME HandOf(n, t) PROVE Remembered(t)'
    <3>1. CASE t = Head(s)
      <4>1. t # Dropped /\ at[n] = kind[t] /\ woken' = [woken EXCEPT ![at[n]][t] = TRUE]
        BY <1>10, <2>2, <3>1, Apart DEF Deliver, HandOf
      <4>2. woken'[kind'[t]][t]
        BY <1>1, <1>2, <4>1
      <4>3. QED
        BY <4>2 DEF Remembered
    <3>2. CASE Contains(Tail(s), t)
      BY <1>7, <2>1, <2>2, <3>2 DEF HandOf
    <3>3. QED
      BY <2>1, <2>2, <3>1, <3>2, HeadOrTail DEF HandOf
  <2>3. ASSUME woken[kind[t]][t] PROVE Remembered(t)'
    <3>1. woken'[kind[t]][t]
      <4>1. CASE Head(s) = Dropped
        BY <1>10, <2>3, <4>1 DEF Deliver
      <4>2. CASE Head(s) # Dropped
        <5>1. woken' = [woken EXCEPT ![at[n]][Head(s)] = TRUE] /\ at[n] \in AllKinds
          BY <1>1, <1>10, <4>2 DEF Deliver
        <5>2. QED
          BY <1>1, <2>3, <5>1
      <4>3. QED
        BY <4>1, <4>2
    <3>2. QED
      BY <1>2, <3>1 DEF Remembered
  <2>4. QED
    BY <1>3, <1>4, <1>6, <2>1, <2>2, <2>3, StaysRemembered
<1>11. CASE Delivered(n)
  <2>1. waiting' = waiting /\ woken' = woken /\ hand[n] = <<>>
    BY <1>11 DEF Delivered
  <2>2. ~HandOf(n, t)
    BY <2>1 DEF HandOf, Contains
  <2>3. QED
    BY <1>3, <1>4, <1>5, <1>6, <2>1, <2>2, StaysRemembered
<1>12. QED
  BY <1>8, <1>9, <1>10, <1>11 DEF NotifierStep

\* Locks, deadlines and stray wakeups take no entry; a dropped future only its own.
LEMMA OtherRegistered ==
  ASSUME Types, Registered, NEW u \in Waiters,
         Lock(u) \/ LockParks(u) \/ DeadlinePasses(u) \/ CancelAsync(u) \/ StrayUnpark(u)
  PROVE Registered'
<1> SUFFICES ASSUME NEW t \in Waiters, Sleeping(t)' PROVE Remembered(t)'
  BY DEF Registered, Sleeping, Remembered
<1> USE DEF Goto, call, notes
<1>1. /\ pc \in [Actors -> Places] /\ kind \in [Waiters -> AllKinds] /\ u \in Actors
      /\ woken \in [AllKinds -> [Waiters -> BOOLEAN]] /\ waiting \in [AllKinds -> Seq(Entries)]
      /\ at' = at
  BY DEF Types, TypeOK, CondvarTypes, Actors, Lock, LockParks, DeadlinePasses, CancelAsync,
         StrayUnpark
<1>2. \A n \in Notifiers : pc'[n] = pc[n]
  BY <1>1, Apart
  DEF Actors, Lock, LockParks, DeadlinePasses, CancelAsync, StrayUnpark, Return
<1>3. \/ UNCHANGED pc
      \/ ~Sleeping(u)' /\ \A x \in Waiters \ {u} : pc'[x] = pc[x]
  BY <1>1 DEF Actors, Lock, LockParks, DeadlinePasses, CancelAsync, StrayUnpark, Return, Sleeping
<1>4. Remembered(t)
  BY <1>3 DEF Registered, Sleeping, Remembered
<1>5. CASE CancelAsync(u)
  <2>1. t # u /\ kind'[t] = kind[t]
    BY <1>1, <1>5 DEF CancelAsync, Return, Sleeping, Actors
  <2>2. waiting'[kind[t]] \in {waiting[kind[t]], ReplaceAll(waiting[kind[t]], u, Dropped)}
    BY <1>1, <1>5 DEF CancelAsync
  <2>3. woken' = [woken EXCEPT !["async"][u] = FALSE]
    BY <1>5 DEF CancelAsync
  <2>4. woken[kind[t]][t] => woken'[kind[t]][t]
    BY <1>1, <2>1, <2>3
  <2>5. Forget(u)
    BY <1>5 DEF CancelAsync
  <2>6. QED
    BY <1>1, <1>2, <1>4, <2>1, <2>2, <2>4, <2>5, OthersKeep
<1>6. CASE LockParks(u)
  <2>1. UNCHANGED <<waiting, hand, kind, pc>> /\ ~Sleeping(u)
    BY <1>6 DEF LockParks, Sleeping
  <2>2. t # u
    BY <2>1 DEF Sleeping
  <2>3. woken' = [woken EXCEPT !["block"][u] = FALSE]
    BY <1>6 DEF LockParks
  <2>4. woken[kind[t]][t] => woken'[kind[t]][t]
    BY <1>1, <2>2, <2>3
  <2>5. QED
    BY <1>1, <1>2, <1>4, <2>1, <2>4, SameKeeps
<1>7. CASE StrayUnpark(u)
  <2>1. UNCHANGED <<waiting, hand, kind>> /\ woken' = [woken EXCEPT !["block"][u] = TRUE]
    BY <1>7 DEF StrayUnpark
  <2>2. woken[kind[t]][t] => woken'[kind[t]][t]
    BY <1>1, <2>1
  <2>3. QED
    BY <1>1, <1>2, <1>4, <2>1, <2>2, SameKeeps
<1>8. CASE Lock(u) \/ DeadlinePasses(u)
  <2>1. UNCHANGED <<waiting, hand, kind, woken>>
    BY <1>8 DEF Lock, DeadlinePasses
  <2>2. QED
    BY <1>1, <1>2, <1>4, <2>1, SameKeeps
<1>9. QED
  BY <1>5, <1>6, <1>7, <1>8

\* A notification begins with no entry in the hand.
LEMMA ProduceRegistered == ASSUME Types, Registered, NEW n \in Notifiers, Produce(n)
  PROVE Registered'
<1> SUFFICES ASSUME NEW t \in Waiters, Sleeping(t)' PROVE Remembered(t)'
  BY DEF Registered, Sleeping, Remembered
<1>1. /\ pc \in [Actors -> Places] /\ n \in Actors /\ t \in Actors /\ t # n
      /\ at \in [Notifiers -> AllKinds]
  BY Apart DEF Types, TypeOK, CondvarTypes, Actors
<1>2. /\ pc[n] = "idle" /\ UNCHANGED <<waiting, woken, kind, hand>>
      /\ pc' = [pc EXCEPT ![n] = "taking"] /\ at' = [at EXCEPT ![n] = "spin"]
  BY DEF Produce, Notify, Goto, call
<1>3. Remembered(t)
  BY <1>1, <1>2 DEF Registered, Sleeping, Remembered
<1>4. InHand(t) => InHand(t)'
  <2>1. \A m \in Notifiers : pc[m] = "waking" =>
          pc'[m] = pc[m] /\ at'[m] = at[m] /\ hand'[m] = hand[m] /\ kind'[t] = kind[t]
    BY <1>1, <1>2 DEF Actors
  <2>2. QED
    BY <2>1 DEF InHand
<1>5. QED
  BY <1>2, <1>3, <1>4 DEF Remembered, Queued

\* Every step keeps the entries of the sleepers.
LEMMA RegisteredStep == Types /\ Registered /\ [Next]_vars => Registered'
<1> SUFFICES ASSUME Types, Registered, [Next]_vars PROVE Registered'
  OBVIOUS
<1>1. CASE UNCHANGED vars
  BY <1>1 DEF vars, condvar, call, notes, Registered, Queued, InHand
<1>2. QED
  BY <1>1, ClientRegistered, WaiterRegistered, NotifierRegistered, OtherRegistered,
     ProduceRegistered
  DEF Next, CondvarNext

\* A sleeper has its wakeup, or somebody has its entry, whatever the deadlines, the
\* dropped futures and the stale handles of the wait_* calls do.
THEOREM NobodyForgotten == Spec => []Registered
<1>1. Init => Registered
  BY DEF Init, CondvarInit, Registered, Actors
<1>2. QED
  BY TypeInit, TypeStep, <1>1, RegisteredStep, PTL DEF Spec

(* ---------------- notify_all: no lost wakeup ---------------------------- *)

\* While there is an item, notify_all is still coming to every list that has entries:
\* NoLostWakeup for the lists instead of for their entries, which is inductive.
ListsCovered == \A k \in AllKinds : waiting[k] # <<>> /\ items > 0 => ComingTo(k)
AllOfThem == \A n \in Notifiers : how[n] = "all"

\* notify_all takes a list and goes on to those it has not been at.
LEMMA NotifierCovers ==
  ASSUME Types, AllOfThem, ListsCovered, NEW n \in Notifiers, NotifierStep(n), UNCHANGED items
  PROVE AllOfThem' /\ ListsCovered'
<1> USE DEF Goto, call, notes
<1>1. /\ pc \in [Actors -> Places] /\ n \in Actors /\ at \in [Notifiers -> AllKinds]
      /\ waiting \in [AllKinds -> Seq(Entries)] /\ at[n] \in AllKinds
  BY DEF Types, TypeOK, CondvarTypes, Actors
<1>2. how' = how /\ ~Pop(n)
  BY DEF AllOfThem, NotifierStep, Pop, TakeAll, Deliver, Delivered
<1>3. AllOfThem'
  BY <1>2 DEF AllOfThem
<1>4. \A m \in Notifiers \ {n} : pc'[m] = pc[m] /\ at'[m] = at[m]
  BY <1>1, <1>2 DEF NotifierStep, TakeAll, Deliver, Delivered, NextList, Actors
<1>5. ASSUME NEW k \in AllKinds, waiting'[k] # <<>>, items' > 0 PROVE ComingTo(k)'
  <2>1. waiting[k] # <<>>
    BY <1>1, <1>2, <1>5 DEF NotifierStep, TakeAll, Deliver, Delivered
  <2>2. PICK m \in Notifiers :
          \/ pc[m] = "taking" /\ (at[m] = k \/ at[m] = "spin" \/ k = "async")
          \/ pc[m] = "waking" /\ at[m] # k /\ (at[m] = "spin" \/ k = "async")
    BY <1>5, <2>1 DEF ListsCovered, ComingTo
  <2>3. CASE m # n
    BY <1>4, <2>2, <2>3 DEF ComingTo
  <2>4. CASE m = n
    <3>1. CASE TakeAll(n)
      <4>1. pc'[n] = "waking" /\ at' = at /\ pc[n] = "taking"
        BY <1>1, <3>1 DEF TakeAll
      <4>2. at[n] # k
        BY <1>1, <1>5, <3>1 DEF TakeAll
      <4>3. QED
        BY <2>2, <2>4, <4>1, <4>2 DEF ComingTo
    <3>2. CASE Deliver(n)
      BY <2>2, <3>2 DEF Deliver, ComingTo
    <3>3. CASE Delivered(n)
      <4>1. pc[n] = "waking" /\ NextList(n)
        BY <3>3 DEF Delivered, AllOfThem
      <4>2. at[n] # k /\ (at[n] = "spin" \/ k = "async")
        BY <2>2, <2>4, <4>1
      <4>3. /\ pc'[n] = "taking" /\ at'[n] = IF at[n] = "spin" THEN "block" ELSE "async"
        BY <1>1, <4>1, <4>2 DEF NextList
      <4>4. at'[n] = k \/ k = "async"
        BY <4>2, <4>3 DEF AllKinds
      <4>5. QED
        BY <4>3, <4>4 DEF ComingTo
    <3>4. QED
      BY <1>2, <3>1, <3>2, <3>3 DEF NotifierStep
  <2>5. QED
    BY <2>3, <2>4
<1>6. QED
  BY <1>3, <1>5 DEF ListsCovered

\* A step after which every list that has entries had some before, with no new item and
\* no notifier in it.
LEMMA SameCovers ==
  ASSUME ListsCovered, AllOfThem, UNCHANGED <<how, at>>, items' > 0 => items > 0,
         \A n \in Notifiers : pc'[n] = pc[n],
         \A k \in AllKinds : waiting[k] = <<>> => waiting'[k] = <<>>
  PROVE AllOfThem' /\ ListsCovered'
  BY DEF ListsCovered, AllOfThem, ComingTo

\* A client enters a list only when there is no item.
LEMMA ClientCovers ==
  ASSUME Types, AllOfThem, ListsCovered, NEW u \in Waiters, ClientStep(u) \/ Begin(u)
  PROVE AllOfThem' /\ ListsCovered'
<1> USE DEF Goto, call, notes
<1>1. \A n \in Notifiers : pc'[n] = pc[n]
  BY Apart DEF Types, TypeOK, Actors, ClientStep, Take, Wait, TimedOut, Begin, Leave, Return,
               Register, Call
<1>2. UNCHANGED <<how, at>>
  BY DEF ClientStep, Take, Wait, TimedOut, Begin, Leave, Register, Call
<1>3. CASE Wait(u)
  <2>1. ~(items' > 0)
    BY <1>3 DEF Wait
  <2>2. QED
    BY <1>2, <2>1 DEF ListsCovered, AllOfThem
<1>4. CASE ~Wait(u)
  <2>1. waiting' = waiting /\ (items' > 0 => items > 0)
    BY <1>4 DEF ClientStep, Take, TimedOut, Begin, Leave, Call
  <2>2. QED
    BY <1>1, <1>2, <2>1, SameCovers
<1>5. QED
  BY <1>3, <1>4

\* A waiter in its wait, and whatever else happens, only takes entries away.
LEMMA OtherCovers ==
  ASSUME Types, AllOfThem, ListsCovered, NEW u \in Waiters, UNCHANGED items,
         \/ WaiterStep(u) \/ Lock(u) \/ LockParks(u) \/ DeadlinePasses(u) \/ CancelAsync(u)
         \/ StrayUnpark(u)
  PROVE AllOfThem' /\ ListsCovered'
<1> USE DEF Goto, call, notes
<1>1. /\ pc \in [Actors -> Places] /\ waiting \in [AllKinds -> Seq(Entries)]
      /\ Dropped \in Entries
  BY DEF Types, TypeOK, CondvarTypes, Entries
<1>2. \A n \in Notifiers : pc'[n] = pc[n]
  BY <1>1, Apart
  DEF Actors, WaiterStep, DropGuard, Wake, LoopHead, ParkTimeout, Check, SpinLate, RaceLate,
      AsyncLate, Relock, Lock, LockParks, DeadlinePasses, CancelAsync, StrayUnpark, Return
<1>3. UNCHANGED <<how, at>>
  BY DEF WaiterStep, DropGuard, Wake, LoopHead, ParkTimeout, Check, SpinLate, RaceLate,
         AsyncLate, Lock, LockParks, DeadlinePasses, CancelAsync, StrayUnpark
<1>4. ASSUME NEW k \in AllKinds, waiting[k] = <<>> PROVE waiting'[k] = <<>>
  <2>1. waiting'[k] \in
          {waiting[k], RemoveFirst(waiting[k], u), ReplaceAll(waiting[k], u, Dropped)}
    BY <1>1
    DEF WaiterStep, DropGuard, Wake, LoopHead, ParkTimeout, Check, SpinLate, RaceLate,
        AsyncLate, Lock, LockParks, DeadlinePasses, CancelAsync, StrayUnpark, RemoveOwn
  <2>2. RemoveFirst(waiting[k], u) = <<>> /\ ReplaceAll(waiting[k], u, Dropped) = <<>>
    BY <1>1, <1>4, RemoveKeeps, ReplaceKeeps
  <2>3. QED
    BY <1>4, <2>1, <2>2
<1>5. QED
  BY <1>2, <1>3, <1>4, SameCovers

\* A new item comes with a notification that is still to begin with the first list.
LEMMA ProduceCovers ==
  ASSUME Types, AllOfThem, Notifies = {"all"}, NEW n \in Notifiers, Produce(n)
  PROVE AllOfThem' /\ ListsCovered'
<1>1. /\ how' = [how EXCEPT ![n] = "all"] /\ at' = [at EXCEPT ![n] = "spin"]
      /\ pc' = [pc EXCEPT ![n] = "taking"]
  BY DEF Produce, Notify, Goto
<1>2. AllOfThem'
  BY <1>1 DEF AllOfThem, Types, TypeOK, CondvarTypes
<1>3. pc'[n] = "taking" /\ at'[n] = "spin"
  BY <1>1 DEF Types, TypeOK, CondvarTypes, Actors
<1>4. ListsCovered'
  BY <1>3 DEF ListsCovered, ComingTo
<1>5. QED
  BY <1>2, <1>4

\* Every step keeps the lists covered.
LEMMA CoveredStep ==
  ASSUME Notifies = {"all"}
  PROVE Types /\ AllOfThem /\ ListsCovered /\ [Next]_vars => AllOfThem' /\ ListsCovered'
<1> SUFFICES ASSUME Types, AllOfThem, ListsCovered, [Next]_vars
             PROVE AllOfThem' /\ ListsCovered'
  OBVIOUS
<1>1. CASE UNCHANGED vars
  BY <1>1 DEF vars, condvar, notes, AllOfThem, ListsCovered, ComingTo
<1>2. QED
  BY <1>1, ClientCovers, OtherCovers, NotifierCovers, ProduceCovers DEF Next, CondvarNext

\* With notify_all no wakeup is lost: no waiter sits in a list, unwoken, beside an item
\* no notifier is going to tell it about.
THEOREM AllAreTold == ASSUME Notifies = {"all"} PROVE Spec => []NoLostWakeup
<1>1. Init => AllOfThem /\ ListsCovered
  BY DEF Init, CondvarInit, AllOfThem, ListsCovered
<1>2. Types /\ ListsCovered => NoLostWakeup
  <2> SUFFICES ASSUME Types, ListsCovered, NEW t \in Waiters, Forgotten(t), items > 0
               PROVE ComingTo(kind[t])
    BY DEF NoLostWakeup
  <2>1. kind[t] \in AllKinds /\ Contains(waiting[kind[t]], t)
    BY DEF Types, Forgotten, Queued
  <2>2. waiting[kind[t]] # <<>>
    BY <2>1 DEF Contains
  <2>3. QED
    BY <2>1, <2>2 DEF ListsCovered
<1>3. Types /\ AllOfThem /\ ListsCovered /\ [Next]_vars => AllOfThem' /\ ListsCovered'
  BY CoveredStep
<1>4. QED
  BY TypeInit, TypeStep, <1>1, <1>2, <1>3, PTL DEF Spec

(* ---------------- notify_one: a wakeup for every item ------------------- *)

\* What the promise of notify_one needs: nobody leaves a list, and no token comes, but
\* by a notification or by the deadline of a wait_spin_timeout.
OneByOne == Notifies \subseteq {"one"} /\ Timed \subseteq {"spin"} /\ ~MayCancel /\ ~MayStray

WaiterPlace(t) ==
  /\ pc[t] \in {"idle", "locking", "inside", "registered", "asleep", "popped"}
  /\ deadline[t] # "none" => kind[t] = "spin"
  /\ timed_out[t] => pc[t] \in {"locking", "inside"}
NotifierPlace(n) ==
  /\ pc[n] \in {"idle", "taking", "waking"}
  /\ pc[n] # "idle" => how[n] = "one"
  /\ pc[n] # "waking" => hand[n] = <<>>
Placed == (\A t \in Waiters : WaiterPlace(t)) /\ (\A n \in Notifiers : NotifierPlace(n))

\* Each waiter is in one list once, or in one hand, or woken, or in none of these, and
\* only while it waits: there are no stale entries, handles or tokens.
Waits(t, k) == t \in Waiters /\ InWait(t) /\ kind[t] = k
ListOwned(k) == IsInjective(waiting[k]) /\ \A e : Contains(waiting[k], e) => Waits(e, k)
HandOwned(n) == hand[n] # <<>> =>
  \E t \in Waiters : hand[n] = <<t>> /\ Waits(t, at[n]) /\ ~Queued(t) /\ ~woken[kind[t]][t]
HandsApart == \A m, n \in Notifiers : hand[m] = hand[n] => m = n \/ hand[n] = <<>>
WokenOwned == \A k \in AllKinds, t \in Waiters : woken[k][t] => Waits(t, k) /\ ~Queued(t)
Owned == /\ \A k \in AllKinds : ListOwned(k)
         /\ \A n \in Notifiers : HandOwned(n)
         /\ HandsApart /\ WokenOwned

\* The steps that are left.
WaiterMove(u) == /\ Lock(u) \/ DeadlinePasses(u) \/ DropGuard(u) \/ Wake(u) \/ SpinLate(u)
                 /\ UNCHANGED items
NotifierMove(n) == (Pop(n) \/ Deliver(n) \/ Delivered(n)) /\ UNCHANGED items

\* Nobody is in the loops of the other timed waits, and nobody takes whole lists.
LEMMA OneSteps == ASSUME OneByOne, Placed, WokenOwned, [Next]_vars
  PROVE \/ \E u \in Waiters : ClientStep(u) \/ Begin(u) \/ WaiterMove(u)
        \/ \E n \in Notifiers : Produce(n) \/ NotifierMove(n)
        \/ UNCHANGED vars
<1>1. ASSUME NEW u \in Waiters PROVE ~LockParks(u)
  <2>1. "block" \in AllKinds
    BY DEF AllKinds
  <2>2. QED
    BY <2>1 DEF LockParks, WokenOwned, Waits, InWait
<1>2. ASSUME NEW u \in Waiters
      PROVE ~LoopHead(u) /\ ~ParkTimeout(u) /\ ~Check(u) /\ ~RaceLate(u) /\ ~AsyncLate(u)
  BY DEF Placed, WaiterPlace, LoopHead, ParkTimeout, Check, RaceLate, AsyncLate
<1>3. ASSUME NEW u \in Waiters PROVE ~CancelAsync(u) /\ ~StrayUnpark(u)
  BY DEF OneByOne, CancelAsync, StrayUnpark
<1>4. ASSUME NEW n \in Notifiers PROVE ~TakeAll(n)
  BY DEF Placed, NotifierPlace, TakeAll
<1>5. QED
  BY <1>1, <1>2, <1>3, <1>4
  DEF Next, CondvarNext, WaiterStep, NotifierStep, WaiterMove, NotifierMove

\* A step that moves no entry and no wakeup, and takes nobody out of a wait.
LEMMA SameOwned ==
  ASSUME Owned, UNCHANGED <<waiting, woken, hand>>,
         \A n \in Notifiers : at'[n] = at[n] \/ hand[n] = <<>>,
         \A t \in Waiters : InWait(t) => InWait(t)' /\ kind'[t] = kind[t]
  PROVE Owned'
<1>1. ASSUME NEW t, NEW k, Waits(t, k) PROVE Waits(t, k)'
  BY <1>1 DEF Waits
<1>2. ASSUME NEW t \in Waiters, InWait(t) PROVE Queued(t)' = Queued(t) /\ kind'[t] = kind[t]
  BY <1>2 DEF Queued
<1>3. \A k \in AllKinds : ListOwned(k)'
  BY <1>1 DEF Owned, ListOwned
<1>4. ASSUME NEW n \in Notifiers PROVE HandOwned(n)'
  <2>1. SUFFICES ASSUME hand[n] # <<>> PROVE HandOwned(n)'
    BY DEF HandOwned
  <2>2. PICK t \in Waiters :
          hand[n] = <<t>> /\ Waits(t, at[n]) /\ ~Queued(t) /\ ~woken[kind[t]][t]
    BY <2>1 DEF Owned, HandOwned
  <2>3. InWait(t)' /\ kind'[t] = at'[n] /\ ~Queued(t)' /\ ~woken'[kind'[t]][t] /\ hand'[n] = <<t>>
    BY <1>1, <1>2, <2>1, <2>2 DEF Waits
  <2>4. QED
    BY <2>3 DEF HandOwned, Waits
<1>5. HandsApart'
  BY DEF Owned, HandsApart
<1>6. WokenOwned'
  BY <1>1, <1>2 DEF Owned, WokenOwned, Waits
<1>7. QED
  BY <1>3, <1>4, <1>5, <1>6 DEF Owned

\* Every step leaves the waiters and the notifiers in their places.
LEMMA PlacedStep == ASSUME OneByOne, Types, Placed, WokenOwned, [Next]_vars
  PROVE Placed'
<1> USE DEF Goto, call, notes
<1>1. /\ pc \in [Actors -> Places] /\ kind \in [Waiters -> AllKinds]
      /\ deadline \in [Waiters -> {"none", "ahead", "passed"}]
      /\ timed_out \in [Waiters -> BOOLEAN] /\ how \in [Notifiers -> {"one", "all"}]
      /\ hand \in [Notifiers -> Seq(Entries)]
      /\ \A t \in Waiters : t \in Actors /\ t \notin Notifiers
      /\ \A n \in Notifiers : n \in Actors
      /\ \A t \in Waiters : WaiterPlace(t)
      /\ \A n \in Notifiers : NotifierPlace(n)
  BY Apart DEF Types, TypeOK, CondvarTypes, Actors, Placed
<1>2. ASSUME NEW u \in Waiters, ClientStep(u) \/ Begin(u) \/ WaiterMove(u)
      PROVE Placed'
  <2>1. UNCHANGED <<how, hand>> /\ \A n \in Notifiers : pc'[n] = pc[n]
    BY <1>1, <1>2
    DEF ClientStep, Take, Wait, TimedOut, Begin, Leave, Return, Register, Call, WaiterMove,
        Lock, DeadlinePasses, DropGuard, Wake, SpinLate, Relock
  <2>2. \A t \in Waiters \ {u} : /\ pc'[t] = pc[t] /\ kind'[t] = kind[t]
                                /\ deadline'[t] = deadline[t] /\ timed_out'[t] = timed_out[t]
    BY <1>1, <1>2
    DEF ClientStep, Take, Wait, TimedOut, Begin, Leave, Return, Register, Call, WaiterMove,
        Lock, DeadlinePasses, DropGuard, Wake, SpinLate, Relock, ChooseWait, ChooseDeadline
  <2>3. WaiterPlace(u)'
    <3>1. CASE Begin(u)
      <4>1. PICK k \in Kinds : ChooseWait(u, k) /\ ChooseDeadline(u, k)
        BY <3>1 DEF Begin, Call
      <4>2. kind'[u] = k /\ (deadline'[u] # "none" => k = "spin")
        BY <1>1, <4>1 DEF ChooseWait, ChooseDeadline, OneByOne
      <4>3. pc'[u] = "locking" /\ timed_out' = timed_out
        BY <1>1, <3>1 DEF Begin, Call
      <4>4. QED
        BY <4>2, <4>3 DEF WaiterPlace
    <3>2. CASE Take(u) \/ TimedOut(u)
      BY <1>1, <3>2 DEF Take, TimedOut, Leave, Return, WaiterPlace
    <3>3. CASE Wait(u)
      BY <1>1, <3>3 DEF Wait, Register, WaiterPlace
    <3>4. CASE WaiterMove(u)
      BY <1>1, <3>4
      DEF WaiterMove, Lock, DeadlinePasses, DropGuard, Wake, SpinLate, Relock, WaiterPlace
    <3>5. QED
      BY <1>2, <3>1, <3>2, <3>3, <3>4 DEF ClientStep
  <2>4. QED
    BY <1>1, <2>1, <2>2, <2>3 DEF Placed, WaiterPlace, NotifierPlace
<1>3. ASSUME NEW m \in Notifiers, Produce(m) \/ NotifierMove(m) PROVE Placed'
  <2>1. UNCHANGED <<kind, deadline, timed_out>> /\ \A a \in Actors \ {m} : pc'[a] = pc[a]
    BY <1>1, <1>3
    DEF Produce, Notify, NotifierMove, Pop, Deliver, Delivered, NextList
  <2>2. \A n \in Notifiers \ {m} : how'[n] = how[n] /\ hand'[n] = hand[n]
    BY <1>1, <1>3
    DEF Produce, Notify, NotifierMove, Pop, Deliver, Delivered, NextList
  <2>3. NotifierPlace(m)'
    <3>1. CASE Produce(m)
      BY <1>1, <3>1 DEF Produce, Notify, NotifierPlace, OneByOne
    <3>2. CASE NotifierMove(m)
      BY <1>1, <3>2 DEF NotifierMove, Pop, Deliver, Delivered, NextList, NotifierPlace
    <3>3. QED
      BY <1>3, <3>1, <3>2
  <2>4. \A t \in Waiters : pc'[t] = pc[t]
    BY <1>1, <2>1
  <2>5. \A t \in Waiters : WaiterPlace(t)'
    BY <1>1, <2>1, <2>4 DEF WaiterPlace
  <2>6. \A n \in Notifiers : NotifierPlace(n)'
    BY <1>1, <2>1, <2>2, <2>3 DEF NotifierPlace
  <2>7. QED
    BY <2>5, <2>6 DEF Placed
<1>4. CASE UNCHANGED vars
  BY <1>4 DEF vars, condvar, Placed, WaiterPlace, NotifierPlace
<1>5. QED
  BY <1>2, <1>3, <1>4, OneSteps

\* A new entry is the only one of its waiter.
LEMMA WaitOwned == ASSUME Types, Owned, NEW u \in Waiters, Wait(u) PROVE Owned'
<1> DEFINE q == kind[u]
           s == waiting[q]
<1> USE DEF Goto, call, notes
<1>1. /\ pc \in [Actors -> Places] /\ q \in AllKinds /\ u \in Actors
      /\ woken \in [AllKinds -> [Waiters -> BOOLEAN]] /\ waiting \in [AllKinds -> Seq(Entries)]
      /\ s \in Seq(Entries) /\ u \in Entries
  BY Apart DEF Types, TypeOK, CondvarTypes, Actors
<1>2. /\ pc[u] = "inside" /\ pc' = [pc EXCEPT ![u] = "registered"] /\ UNCHANGED <<kind, hand, at>>
      /\ waiting' = [waiting EXCEPT ![q] = Append(s, u)]
  BY DEF Wait, Register
<1>3. ~InWait(u) /\ \A k \in AllKinds : ~Contains(waiting[k], u) /\ ~woken[k][u]
  BY <1>2 DEF InWait, Owned, ListOwned, WokenOwned, Waits
<1>4. woken' = woken
  <2>1. woken' = woken \/ woken' = [woken EXCEPT ![q][u] = FALSE]
    BY DEF Wait, Register
  <2>2. CASE woken' = [woken EXCEPT ![q][u] = FALSE]
    <3>1. woken[q] \in [Waiters -> BOOLEAN] /\ woken[q][u] = FALSE
      BY <1>1, <1>3
    <3>2. [woken[q] EXCEPT ![u] = FALSE] = woken[q]
      <4> DEFINE w == woken[q]
      <4> HIDE DEF w
      <4>1. w \in [Waiters -> BOOLEAN] /\ w[u] = FALSE
        BY <3>1 DEF w
      <4>2. [w EXCEPT ![u] = FALSE] = w
        BY <4>1
      <4>3. QED
        BY <4>2 DEF w
    <3>3. QED
      BY <1>1, <2>2, <3>2
  <2>3. QED
    BY <2>1, <2>2
<1>5. \A t \in Waiters : InWait(t)' = (InWait(t) \/ t = u)
  BY <1>1, <1>2 DEF InWait, Actors
<1>6. ASSUME NEW t \in Waiters, InWait(t) PROVE Queued(t)' = Queued(t)
  <2>1. kind[t] \in AllKinds /\ t # u
    BY <1>3, <1>6 DEF Types
  <2>2. CASE kind[t] = q
    <3>1. Contains(Append(s, u), t) = Contains(s, t)
      BY <1>1, <2>1, ContainsAppend DEF Contains
    <3>2. QED
      BY <1>1, <1>2, <2>2, <3>1 DEF Queued
  <2>3. CASE kind[t] # q
    BY <1>1, <1>2, <2>1, <2>3 DEF Queued
  <2>4. QED
    BY <2>2, <2>3
<1>7. ASSUME NEW k \in AllKinds PROVE ListOwned(k)'
  <2>1. CASE k = q
    <3>1. IsInjective(Append(s, u)) /\ \A x : Contains(Append(s, u), x) => x = u \/ Contains(s, x)
      BY <1>1, <1>3, ContainsAppend DEF Owned, ListOwned
    <3>2. waiting'[k] = Append(s, u)
      BY <1>1, <1>2, <2>1
    <3>3. \A x : Contains(s, x) => Waits(x, k)'
      BY <1>1, <1>2, <1>5, <2>1 DEF Owned, ListOwned, Waits
    <3>4. Waits(u, k)'
      BY <1>2, <1>5, <2>1 DEF Waits
    <3>5. \A x : Contains(Append(s, u), x) => Waits(x, k)'
      BY <2>1, <3>1, <3>3, <3>4
    <3>6. QED
      BY <3>1, <3>2, <3>5 DEF ListOwned
  <2>2. CASE k # q
    <3>1. waiting'[k] = waiting[k]
      BY <1>1, <1>2, <2>2
    <3>2. QED
      BY <1>2, <1>5, <3>1 DEF Owned, ListOwned, Waits
  <2>3. QED
    BY <2>1, <2>2
<1>8. \A n \in Notifiers : HandOwned(n)'
  BY <1>2, <1>4, <1>5, <1>6 DEF Owned, HandOwned, Waits
<1>9. WokenOwned'
  BY <1>2, <1>4, <1>5, <1>6 DEF Owned, WokenOwned, Waits
<1>10. QED
  BY <1>2, <1>7, <1>8, <1>9 DEF Owned, HandsApart

\* A waiter ends its wait, out of its list, of the hands and of the wakeups.
LEMMA LeaveOwned ==
  ASSUME Types, Owned, NEW u \in Waiters, UNCHANGED <<kind, hand, at>>, ~InWait(u)',
         \A t \in Waiters \ {u} : pc'[t] = pc[t],
         \A k \in AllKinds : waiting'[k] = RemoveFirst(waiting[k], u),
         \A k \in AllKinds : ~woken'[k][u] /\ \A t \in Waiters \ {u} : woken'[k][t] = woken[k][t],
         \A n \in Notifiers : hand[n] # <<u>>
  PROVE Owned'
<1>1. kind \in [Waiters -> AllKinds] /\ waiting \in [AllKinds -> Seq(Entries)]
  BY DEF Types, TypeOK, CondvarTypes
<1>2. ASSUME NEW t \in Waiters \ {u}
      PROVE /\ InWait(t)' = InWait(t) /\ Queued(t)' = Queued(t)
            /\ \A k \in AllKinds : Waits(t, k)' = Waits(t, k)
  <2>1. InWait(t)' = InWait(t)
    BY DEF InWait
  <2>2. kind[t] \in AllKinds /\ waiting[kind[t]] \in Seq(Entries)
    BY <1>1
  <2>3. Contains(RemoveFirst(waiting[kind[t]], u), t) <=> Contains(waiting[kind[t]], t)
    BY <1>2, <2>2, RemoveKeeps
  <2>4. Contains(RemoveFirst(waiting[kind[t]], u), t) = Contains(waiting[kind[t]], t)
    BY <2>3 DEF Contains
  <2>5. waiting'[kind[t]] = RemoveFirst(waiting[kind[t]], u)
    BY <2>2
  <2>6. Queued(t)' = Queued(t)
    BY <2>4, <2>5 DEF Queued
  <2>7. QED
    BY <2>1, <2>6 DEF Waits
<1>3. ASSUME NEW k \in AllKinds PROVE ListOwned(k)'
  <2> DEFINE s == waiting[k]
             r == RemoveFirst(s, u)
  <2>1. s \in Seq(Entries) /\ IsInjective(s) /\ \A e : Contains(s, e) => Waits(e, k)
    BY <1>1 DEF Owned, ListOwned
  <2>2. IsInjective(r) /\ ~Contains(r, u) /\ \A e : Contains(r, e) => Contains(s, e)
    BY <2>1, RemoveOnce, RemoveKeeps
  <2>3. ASSUME NEW e, Contains(r, e) PROVE Waits(e, k)'
    <3>1. e \in Waiters \ {u} /\ Waits(e, k)
      BY <2>1, <2>2, <2>3 DEF Waits
    <3>2. QED
      BY <1>2, <3>1
  <2>4. waiting'[k] = r
    OBVIOUS
  <2>5. QED
    BY <2>2, <2>3, <2>4 DEF ListOwned
<1>4. ASSUME NEW n \in Notifiers, hand[n] # <<>> PROVE HandOwned(n)'
  <2>1. PICK t \in Waiters :
          hand[n] = <<t>> /\ Waits(t, at[n]) /\ ~Queued(t) /\ ~woken[kind[t]][t]
    BY <1>4 DEF Owned, HandOwned
  <2>2. t \in Waiters \ {u} /\ kind[t] \in AllKinds /\ at[n] = kind[t]
    BY <1>1, <2>1 DEF Waits
  <2>3. Waits(t, at[n])' /\ ~Queued(t)' /\ ~woken'[kind'[t]][t] /\ hand'[n] = <<t>>
    BY <1>2, <2>1, <2>2 DEF Waits
  <2>4. QED
    BY <2>2, <2>3 DEF HandOwned
<1>5. \A n \in Notifiers : HandOwned(n)'
  BY <1>4 DEF HandOwned
<1>6. HandsApart'
  BY DEF Owned, HandsApart
<1>7. WokenOwned'
  BY <1>2 DEF Owned, WokenOwned
<1>8. QED
  BY <1>3, <1>5, <1>6, <1>7 DEF Owned

\* A waiter that wakes up is in no list and in no hand; one whose deadline has passed is
\* in its list, or is about to be woken.
LEMMA WakeOwned == ASSUME Types, Placed, Owned, NEW u \in Waiters, Wake(u) \/ SpinLate(u)
  PROVE Owned'
<1> DEFINE q == kind[u]
<1> USE DEF Goto, call, notes
<1>1. /\ pc \in [Actors -> Places] /\ q \in AllKinds /\ u \in Actors /\ Waiters \subseteq Actors
      /\ woken \in [AllKinds -> [Waiters -> BOOLEAN]] /\ waiting \in [AllKinds -> Seq(Entries)]
  BY DEF Types, TypeOK, CondvarTypes, Actors
<1>2. InWait(u)
  BY DEF Wake, SpinLate, InWait
<1>3. \A k \in AllKinds \ {q} : ~Contains(waiting[k], u) /\ ~woken[k][u]
  BY DEF Owned, ListOwned, WokenOwned, Waits
<1>4. \A k \in AllKinds : ~Contains(waiting[k], u) => RemoveFirst(waiting[k], u) = waiting[k]
  BY <1>1, RemoveKeeps
<1>5. \A n \in Notifiers : hand[n] = <<u>> => ~Queued(u) /\ ~woken[q][u]
  BY DEF Owned, HandOwned
<1>6. CASE Wake(u)
  <2>1. woken[q][u] /\ ~Queued(u) /\ woken' = [woken EXCEPT ![q][u] = FALSE]
    BY <1>1, <1>6 DEF Wake, Owned, WokenOwned
  <2>2. /\ UNCHANGED <<waiting, kind, hand, at>> /\ pc' = [pc EXCEPT ![u] = "locking"]
    BY <1>6 DEF Wake, Relock, Placed, WaiterPlace
  <2>3. \A k \in AllKinds : waiting'[k] = RemoveFirst(waiting[k], u)
    BY <1>3, <1>4, <2>1, <2>2 DEF Queued
  <2>4. \A k \in AllKinds :
          ~woken'[k][u] /\ \A t \in Waiters \ {u} : woken'[k][t] = woken[k][t]
    BY <1>1, <1>3, <2>1
  <2>5. ~InWait(u)' /\ \A t \in Waiters \ {u} : pc'[t] = pc[t]
    BY <1>1, <2>2 DEF InWait
  <2>6. \A n \in Notifiers : hand[n] # <<u>>
    BY <1>5, <2>1
  <2>7. QED
    BY <2>2, <2>3, <2>4, <2>5, <2>6, LeaveOwned
<1>7. CASE SpinLate(u) /\ Queued(u)
  <2>1. /\ waiting' = [waiting EXCEPT ![q] = RemoveFirst(@, u)]
        /\ UNCHANGED <<woken, kind, hand, at>> /\ pc' = [pc EXCEPT ![u] = "locking"]
    BY <1>7 DEF SpinLate, RemoveOwn, Relock
  <2>2. ~woken[q][u]
    BY <1>1, <1>7 DEF Owned, WokenOwned
  <2>3. \A k \in AllKinds : waiting'[k] = RemoveFirst(waiting[k], u)
    BY <1>1, <1>3, <1>4, <2>1
  <2>4. \A k \in AllKinds :
          ~woken'[k][u] /\ \A t \in Waiters \ {u} : woken'[k][t] = woken[k][t]
    BY <1>3, <2>1, <2>2
  <2>5. ~InWait(u)' /\ \A t \in Waiters \ {u} : pc'[t] = pc[t]
    BY <1>1, <2>1 DEF InWait
  <2>6. \A n \in Notifiers : hand[n] # <<u>>
    BY <1>5, <1>7
  <2>7. QED
    BY <2>1, <2>3, <2>4, <2>5, <2>6, LeaveOwned
<1>8. CASE SpinLate(u) /\ ~Queued(u)
  <2>1. /\ waiting' = [waiting EXCEPT ![q] = RemoveFirst(@, u)]
        /\ UNCHANGED <<woken, kind, hand, at>> /\ pc' = [pc EXCEPT ![u] = "popped"]
    BY <1>8 DEF SpinLate, RemoveOwn
  <2>2. waiting' = waiting
    <3>1. RemoveFirst(waiting[q], u) = waiting[q]
      BY <1>1, <1>4, <1>8 DEF Queued
    <3>2. QED
      BY <1>1, <2>1, <3>1
  <2>3. \A t \in Waiters : InWait(t) => InWait(t)'
    BY <1>1, <2>1 DEF InWait
  <2>4. QED
    BY <2>1, <2>2, <2>3, SameOwned
<1>9. QED
  BY <1>6, <1>7, <1>8

\* notify_one moves the youngest entry of a list into its empty hand.
LEMMA PopOwned == ASSUME Types, Placed, Owned, NEW n \in Notifiers, Pop(n) PROVE Owned'
<1> DEFINE q == at[n]
           s == waiting[q]
<1> USE DEF Goto, call, notes
<1>1. /\ pc \in [Actors -> Places] /\ q \in AllKinds /\ n \in Actors /\ Waiters \subseteq Actors
      /\ waiting \in [AllKinds -> Seq(Entries)] /\ hand \in [Notifiers -> Seq(Entries)]
      /\ at \in [Notifiers -> AllKinds] /\ s \in Seq(Entries) /\ n \notin Waiters
  BY Apart DEF Types, TypeOK, CondvarTypes, Actors
<1>2. pc[n] = "taking" /\ hand[n] = <<>> /\ UNCHANGED <<woken, kind>>
  BY DEF Pop, Placed, NotifierPlace
<1>3. \A t \in Waiters : pc'[t] = pc[t]
  BY <1>1 DEF Pop, NextList
<1>4. \A t \in Waiters : InWait(t)' = InWait(t) /\ \A k \in AllKinds : Waits(t, k)' = Waits(t, k)
  BY <1>2, <1>3 DEF Waits, InWait
<1>5. CASE s = <<>>
  <2>1. UNCHANGED <<waiting, woken, hand, kind>> /\ \A m \in Notifiers \ {n} : at'[m] = at[m]
    BY <1>1, <1>2, <1>5 DEF Pop, NextList
  <2>2. QED
    BY <1>2, <1>4, <2>1, SameOwned
<1>6. CASE s # <<>>
  <2> PICK e : e = Last(s)
    OBVIOUS
  <2>1. /\ hand' = [hand EXCEPT ![n] = <<e>>] /\ waiting' = [waiting EXCEPT ![q] = Front(s)]
        /\ at' = at
    BY <1>6 DEF Pop
  <2>2. IsInjective(s) /\ \A x : Contains(s, x) => Waits(x, q)
    BY <1>1 DEF Owned, ListOwned
  <2>3. /\ IsInjective(Front(s)) /\ ~Contains(Front(s), e) /\ Contains(s, e)
        /\ \A x : Contains(Front(s), x) => Contains(s, x)
    BY <1>1, <1>6, <2>2, FrontOnce, LastOrFront
  <2>4. e \in Waiters /\ Waits(e, q) /\ kind[e] = q /\ Queued(e)
    BY <2>2, <2>3 DEF Waits, Queued
  <2>5. waiting'[q] = Front(s) /\ \A k \in AllKinds \ {q} : waiting'[k] = waiting[k]
    BY <1>1, <2>1
  <2> HIDE DEF s, q
  <2>6. ASSUME NEW t \in Waiters, ~Queued(t), kind[t] \in AllKinds PROVE ~Queued(t)'
    BY <1>2, <2>3, <2>5, <2>6 DEF Queued, s
  <2>7. ASSUME NEW k \in AllKinds PROVE ListOwned(k)'
    <3>1. CASE k = q
      <4>1. ASSUME NEW x, Contains(Front(s), x) PROVE Waits(x, k)'
        <5>1. x \in Waiters /\ Waits(x, k)
          BY <2>2, <2>3, <3>1, <4>1 DEF Waits
        <5>2. QED
          BY <1>4, <5>1
      <4>2. QED
        BY <2>3, <2>5, <3>1, <4>1 DEF ListOwned
    <3>2. CASE k # q
      <4>1. ASSUME NEW x, Contains(waiting[k], x) PROVE Waits(x, k)'
        <5>1. x \in Waiters /\ Waits(x, k)
          BY <4>1 DEF Owned, ListOwned, Waits
        <5>2. QED
          BY <1>4, <5>1
      <4>2. IsInjective(waiting[k]) /\ waiting'[k] = waiting[k]
        BY <2>5, <3>2 DEF Owned, ListOwned
      <4>3. QED
        BY <4>1, <4>2 DEF ListOwned
    <3>3. QED
      BY <3>1, <3>2
  <2>8. ASSUME NEW m \in Notifiers PROVE HandOwned(m)'
    <3>1. CASE m = n
      <4>1. hand'[m] = <<e>> /\ at'[m] = q
        BY <1>1, <2>1, <3>1 DEF q
      <4>2. Waits(e, at[n])' /\ ~Queued(e)'
        BY <1>1, <1>2, <1>4, <2>1, <2>3, <2>4, <2>5 DEF Queued, Waits, q
      <4>3. ~woken'[kind'[e]][e]
        BY <1>1, <1>2, <2>4 DEF Owned, WokenOwned
      <4>4. Waits(e, at[m])'
        BY <3>1, <4>2
      <4>5. QED
        BY <2>4, <4>1, <4>2, <4>3, <4>4 DEF HandOwned
    <3>2. CASE m # n
      <4>1. hand'[m] = hand[m] /\ at' = at
        BY <1>1, <2>1, <3>2
      <4>2. SUFFICES ASSUME hand[m] # <<>> PROVE HandOwned(m)'
        BY <4>1 DEF HandOwned
      <4>3. PICK t \in Waiters :
              hand[m] = <<t>> /\ Waits(t, at[m]) /\ ~Queued(t) /\ ~woken[kind[t]][t]
        BY <4>2 DEF Owned, HandOwned
      <4>4. kind[t] \in AllKinds /\ at[m] \in AllKinds
        BY <1>1, <4>3 DEF Waits
      <4>5. Waits(t, at[m])' /\ ~Queued(t)' /\ ~woken'[kind'[t]][t]
        BY <1>2, <1>4, <2>6, <4>1, <4>3, <4>4 DEF Waits
      <4>6. QED
        BY <4>1, <4>3, <4>5 DEF HandOwned
    <3>3. QED
      BY <3>1, <3>2
  <2>9. HandsApart'
    <3>1. ASSUME NEW m \in Notifiers PROVE hand[m] # <<e>>
      <4>1. hand[m] # <<>> => \E t \in Waiters : hand[m] = <<t>> /\ ~Queued(t)
        BY DEF Owned, HandOwned
      <4>2. <<e>> # <<>> /\ \A t : <<t>> = <<e>> => t = e
        OBVIOUS
      <4>3. QED
        BY <2>4, <4>1, <4>2
    <3>2. hand'[n] = <<e>> /\ \A m \in Notifiers \ {n} : hand'[m] = hand[m]
      BY <1>1, <2>1
    <3>3. QED
      BY <3>1, <3>2 DEF Owned, HandsApart
  <2>10. WokenOwned'
    <3> SUFFICES ASSUME NEW k \in AllKinds, NEW t \in Waiters, woken[k][t]
                 PROVE Waits(t, k)' /\ ~Queued(t)'
      BY <1>2 DEF WokenOwned
    <3>1. Waits(t, k) /\ ~Queued(t) /\ kind[t] \in AllKinds
      BY DEF Owned, WokenOwned, Waits
    <3>2. QED
      BY <1>4, <2>6, <3>1
  <2>11. QED
    BY <2>7, <2>8, <2>9, <2>10 DEF Owned
<1>7. QED
  BY <1>5, <1>6

\* The wakeup comes to the one waiter that was in the hand.
LEMMA DeliverOwned == ASSUME Types, Owned, NEW n \in Notifiers, Deliver(n) PROVE Owned'
<1> DEFINE q == at[n]
<1> USE DEF Goto, call, notes
<1>1. /\ q \in AllKinds /\ hand \in [Notifiers -> Seq(Entries)]
      /\ woken \in [AllKinds -> [Waiters -> BOOLEAN]]
  BY DEF Types, TypeOK, CondvarTypes
<1>2. PICK u \in Waiters : hand[n] = <<u>> /\ Waits(u, q) /\ ~Queued(u)
  BY DEF Deliver, Owned, HandOwned
<1>3. Head(hand[n]) = u /\ Tail(hand[n]) = <<>> /\ u # Dropped
  BY <1>2, Apart
<1>4. /\ UNCHANGED <<waiting, pc, kind, at>> /\ hand' = [hand EXCEPT ![n] = <<>>]
      /\ woken' = [woken EXCEPT ![q][u] = TRUE]
  BY <1>3 DEF Deliver
<1>5. /\ \A k \in AllKinds, t \in Waiters : woken'[k][t] => woken[k][t] \/ (k = q /\ t = u)
      /\ \A k \in AllKinds, t \in Waiters : t # u => woken'[k][t] = woken[k][t]
  BY <1>1, <1>4
<1>6. /\ \A t \in Waiters : Queued(t)' = Queued(t)
      /\ \A t, k : Waits(t, k)' = Waits(t, k)
  BY <1>4 DEF Queued, Waits, InWait
<1>7. \A k \in AllKinds : ListOwned(k)'
  BY <1>4, <1>6 DEF Owned, ListOwned
<1>8. ASSUME NEW m \in Notifiers PROVE HandOwned(m)'
  <2>1. CASE m = n
    BY <1>1, <1>4, <2>1 DEF HandOwned
  <2>2. CASE m # n
    <3>1. hand'[m] = hand[m]
      BY <1>1, <1>4, <2>2
    <3>2. SUFFICES ASSUME hand[m] # <<>> PROVE HandOwned(m)'
      BY <3>1 DEF HandOwned
    <3>3. PICK t \in Waiters :
            hand[m] = <<t>> /\ Waits(t, at[m]) /\ ~Queued(t) /\ ~woken[kind[t]][t]
      BY <3>2 DEF Owned, HandOwned
    <3>4. t # u
      BY <1>2, <2>2, <3>2, <3>3 DEF Owned, HandsApart
    <3>5. at[m] \in AllKinds /\ kind[t] = at[m]
      BY <3>3 DEF Types, TypeOK, CondvarTypes, Waits
    <3>6. Waits(t, at[m])' /\ ~Queued(t)' /\ ~woken'[kind'[t]][t] /\ hand'[m] = <<t>>
      BY <1>4, <1>5, <1>6, <3>1, <3>3, <3>4, <3>5 DEF Waits
    <3>7. QED
      BY <3>6 DEF HandOwned
  <2>3. QED
    BY <2>1, <2>2
<1>9. HandsApart'
  BY <1>1, <1>4 DEF Owned, HandsApart
<1>10. WokenOwned'
  BY <1>2, <1>5, <1>6 DEF Owned, WokenOwned
<1>11. QED
  BY <1>7, <1>8, <1>9, <1>10 DEF Owned

\* Every step keeps the entries with those they belong to.
LEMMA OwnedStep == ASSUME OneByOne, Types, Placed, Owned, [Next]_vars PROVE Owned'
<1> USE DEF Goto, call, notes
<1>1. /\ pc \in [Actors -> Places] /\ kind \in [Waiters -> AllKinds]
      /\ Waiters \subseteq Actors /\ Notifiers \subseteq Actors
      /\ \A n \in Notifiers : n \notin Waiters
  BY Apart DEF Types, TypeOK, CondvarTypes, Actors
<1>2. ASSUME NEW u \in Waiters,
             Begin(u) \/ Take(u) \/ TimedOut(u) \/ Lock(u) \/ DeadlinePasses(u) \/ DropGuard(u)
      PROVE Owned'
  <2>1. UNCHANGED <<waiting, woken, hand, at>>
    BY <1>2 DEF Begin, Call, Take, TimedOut, Leave, Lock, DeadlinePasses, DropGuard
  <2>2. \/ UNCHANGED pc
        \/ \E l \in Places : pc' = [pc EXCEPT ![u] = l] /\ (InWait(u) => l \in {"head", "asleep"})
    BY <1>1, <1>2
    DEF Begin, Call, Take, TimedOut, Leave, Return, Lock, DeadlinePasses, DropGuard, InWait, Places
  <2>3. \A t \in Waiters : InWait(t) => InWait(t)'
    BY <1>1, <2>2 DEF InWait
  <2>4. \A t \in Waiters : InWait(t) => kind'[t] = kind[t]
    BY <1>1, <1>2
    DEF Begin, Call, ChooseWait, Take, TimedOut, Leave, Return, Lock, DeadlinePasses, DropGuard,
        InWait
  <2>5. QED
    BY <2>1, <2>3, <2>4, SameOwned
<1>3. ASSUME NEW n \in Notifiers, Produce(n) \/ (Delivered(n) /\ UNCHANGED items) PROVE Owned'
  <2>1. UNCHANGED <<waiting, woken, hand, kind>> /\ \A t \in Waiters : pc'[t] = pc[t]
    BY <1>1, <1>3 DEF Produce, Notify, Delivered, NextList
  <2>2. \A m \in Notifiers : at'[m] = at[m] \/ hand[m] = <<>>
    BY <1>3
    DEF Produce, Notify, Delivered, NextList, Types, TypeOK, CondvarTypes, Placed, NotifierPlace
  <2>3. QED
    BY <2>1, <2>2, SameOwned DEF InWait
<1>4. CASE UNCHANGED vars
  BY <1>4, SameOwned DEF vars, condvar, InWait
<1>5. QED
  BY <1>2, <1>3, <1>4, OneSteps, WaitOwned, WakeOwned, PopOwned, DeliverOwned
  DEF Owned, ClientStep, WaiterMove, NotifierMove

\* The waiters that will come for an item: woken, about to be, or on the way to look.
Useful == {t \in Waiters : \/ InWait(t) /\ ~Queued(t)
                           \/ pc[t] \in {"locking", "inside"} /\ ~timed_out[t]}

\* The notifiers that have yet to come to the list of kind k, if those before it are empty.
Ahead(k) == {n \in Notifiers :
  pc[n] = "taking" /\ (at[n] = k \/ at[n] = "spin" \/ k = "async")}

\* EnoughWakeups, list by list, with the waiters and notifiers counted that really help.
Enough == \A k \in AllKinds :
  waiting[k] # <<>> => items <= Cardinality(Useful) + Cardinality(Ahead(k))
Finite == IsFiniteSet(Waiters) /\ IsFiniteSet(Notifiers)

\* Cardinalities grow with their sets, and lose at most one with one element.
LEMMA Counts == ASSUME NEW T, IsFiniteSet(T), NEW S, NEW x
  PROVE /\ Cardinality(T) \in Nat
        /\ S \subseteq T => Cardinality(S) \in Nat /\ Cardinality(S) <= Cardinality(T)
        /\ S \ {x} \subseteq T /\ IsFiniteSet(S) => Cardinality(S) <= Cardinality(T) + 1
        /\ S \subseteq T /\ x \in T \ S => Cardinality(S) + 1 <= Cardinality(T)
<1>1. Cardinality(T) \in Nat
  BY FS_CardinalityType
<1>2. ASSUME NEW R, R \subseteq T PROVE /\ IsFiniteSet(R) /\ Cardinality(R) \in Nat
                                        /\ Cardinality(R) <= Cardinality(T)
  BY <1>2, FS_Subset, FS_CardinalityType
<1>3. ASSUME S \ {x} \subseteq T, IsFiniteSet(S) PROVE Cardinality(S) <= Cardinality(T) + 1
  <2>1. Cardinality(S) \in Nat /\ Cardinality(S \ {x}) \in Nat
        /\ Cardinality(S \ {x}) <= Cardinality(T)
    BY <1>2, <1>3, FS_CardinalityType
  <2>2. Cardinality(S \ {x}) = IF x \in S THEN Cardinality(S) - 1 ELSE Cardinality(S)
    BY <1>3, FS_RemoveElement
  <2>3. QED
    BY <1>1, <2>1, <2>2
<1>4. ASSUME S \subseteq T, x \in T \ S PROVE Cardinality(S) + 1 <= Cardinality(T)
  <2>1. IsFiniteSet(S) /\ Cardinality(S) \in Nat
    BY <1>2, <1>4
  <2>2. Cardinality(S \cup {x}) = Cardinality(S) + 1
    BY <1>4, <2>1, FS_AddElement
  <2>3. S \cup {x} \subseteq T
    BY <1>4
  <2>4. QED
    BY <1>2, <2>2, <2>3
<1>5. QED
  BY <1>1, <1>2, <1>3, <1>4

\* The sets that are counted are finite, before and after a step.
LEMMA CountedSets == ASSUME Finite
  PROVE /\ IsFiniteSet(Useful) /\ IsFiniteSet(Useful')
        /\ Cardinality(Useful) \in Nat /\ Cardinality(Useful') \in Nat
        /\ \A k : /\ IsFiniteSet(Ahead(k)) /\ IsFiniteSet(Ahead(k)')
                  /\ Cardinality(Ahead(k)) \in Nat /\ Cardinality(Ahead(k)') \in Nat
<1>1. /\ Useful \subseteq Waiters /\ Useful' \subseteq Waiters
      /\ \A k : Ahead(k) \subseteq Notifiers /\ Ahead(k)' \subseteq Notifiers
  BY DEF Useful, Ahead
<1>2. QED
  BY <1>1, FS_Subset, FS_CardinalityType DEF Finite

\* A step that takes away neither help nor items.
LEMMA EnoughKept ==
  ASSUME Types, Finite, Enough, items' = items, Useful \subseteq Useful',
         \A k \in AllKinds : waiting'[k] # <<>> =>
           waiting[k] # <<>> /\ Ahead(k) \subseteq Ahead(k)'
  PROVE Enough'
<1> SUFFICES ASSUME NEW k \in AllKinds, waiting'[k] # <<>>
             PROVE items' <= Cardinality(Useful') + Cardinality(Ahead(k)')
  BY DEF Enough
<1>1. items \in Nat /\ items <= Cardinality(Useful) + Cardinality(Ahead(k))
  BY MaxItemsAssumption DEF Types, TypeOK, Enough
<1>2. Cardinality(Useful) <= Cardinality(Useful')
  BY CountedSets, Counts
<1>3. Cardinality(Ahead(k)) <= Cardinality(Ahead(k)')
  BY CountedSets, Counts
<1>4. QED
  BY <1>1, <1>2, <1>3, CountedSets

\* What the steps of a waiter do to the counts: it may go itself, but nobody else does.
LEMMA WaiterCounts ==
  ASSUME Types, Placed, Owned, NEW u \in Waiters,
         Begin(u) \/ Take(u) \/ TimedOut(u) \/ WaiterMove(u)
  PROVE /\ u \in Useful /\ ~Take(u) => u \in Useful'
        /\ Useful \ {u} \subseteq Useful'
        /\ \A k \in AllKinds : waiting'[k] # <<>> => waiting[k] # <<>>
        /\ \A k : Ahead(k)' = Ahead(k)
<1> USE DEF Goto, call, notes
<1>1. /\ pc \in [Actors -> Places] /\ kind \in [Waiters -> AllKinds]
      /\ timed_out \in [Waiters -> BOOLEAN] /\ waiting \in [AllKinds -> Seq(Entries)]
      /\ Waiters \subseteq Actors /\ Notifiers \subseteq Actors
      /\ \A n \in Notifiers : n \notin Waiters
  BY Apart DEF Types, TypeOK, CondvarTypes, Actors
<1>2. /\ \A a \in Actors \ {u} : pc'[a] = pc[a]
      /\ \A t \in Waiters \ {u} : kind'[t] = kind[t] /\ timed_out'[t] = timed_out[t]
      /\ at' = at
  BY <1>1
  DEF Begin, Call, ChooseWait, Take, TimedOut, Leave, Return, WaiterMove, Lock, DeadlinePasses,
      DropGuard, Wake, SpinLate, Relock
<1>3. \A k \in AllKinds : waiting'[k] \in {waiting[k], RemoveFirst(waiting[k], u)}
  BY <1>1
  DEF Begin, Call, Take, TimedOut, Leave, WaiterMove, Lock, DeadlinePasses, DropGuard, Wake,
      SpinLate, RemoveOwn
<1>4. ASSUME NEW k \in AllKinds
      PROVE /\ \A x : Contains(waiting'[k], x) => Contains(waiting[k], x)
            /\ waiting'[k] # <<>> => waiting[k] # <<>>
  BY <1>1, <1>3, RemoveKeeps
<1>5. ASSUME NEW t \in Useful \ {u} PROVE t \in Useful'
  <2>1. /\ t \in Waiters /\ pc'[t] = pc[t] /\ kind'[t] = kind[t] /\ timed_out'[t] = timed_out[t]
        /\ kind[t] \in AllKinds
    BY <1>1, <1>2 DEF Useful
  <2>2. ~Queued(t) => ~Queued(t)'
    BY <1>4, <2>1 DEF Queued
  <2>3. QED
    BY <2>1, <2>2 DEF Useful, InWait
<1>6. ASSUME NEW k PROVE Ahead(k)' = Ahead(k)
  BY <1>1, <1>2 DEF Ahead
<1>7. ASSUME u \in Useful, ~Take(u) PROVE u \in Useful'
  <2>1. kind[u] \in AllKinds
    BY <1>1
  <2>2. kind'[u] = kind[u] => (~Queued(u) => ~Queued(u)')
    BY <1>4, <2>1 DEF Queued
  <2>3. CASE Begin(u)
    BY <1>1, <1>7, <2>3 DEF Begin, Call, Useful, InWait
  <2>4. CASE TimedOut(u)
    BY <1>1, <1>7, <2>4 DEF TimedOut, Useful, InWait
  <2>5. CASE WaiterMove(u)
    <3>1. kind' = kind
      BY <2>5
      DEF WaiterMove, Lock, DeadlinePasses, DropGuard, Wake, SpinLate, Relock
    <3>2. CASE Lock(u) \/ DeadlinePasses(u) \/ DropGuard(u)
      BY <1>1, <1>7, <2>2, <3>1, <3>2 DEF Lock, DeadlinePasses, DropGuard, Useful, InWait
    <3>3. CASE Wake(u)
      BY <1>1, <3>3 DEF Wake, Relock, Placed, WaiterPlace, Useful
    <3>4. CASE SpinLate(u)
      BY <1>1, <1>7, <2>2, <3>1, <3>4 DEF SpinLate, Useful, InWait
    <3>5. QED
      BY <2>5, <3>2, <3>3, <3>4 DEF WaiterMove
  <2>6. QED
    BY <1>7, <2>3, <2>4, <2>5
<1>8. QED
  BY <1>4, <1>5, <1>6, <1>7

\* A waiter takes itself from the useful ones only with the item it takes, and comes to a
\* list only when there is none.
LEMMA EnoughWaiter ==
  ASSUME Types, Placed, Owned, Finite, Enough, NEW u \in Waiters,
         ClientStep(u) \/ Begin(u) \/ WaiterMove(u)
  PROVE Enough'
<1>1. /\ items \in Nat /\ IsFiniteSet(Useful) /\ IsFiniteSet(Useful')
      /\ Cardinality(Useful) \in Nat /\ Cardinality(Useful') \in Nat
      /\ \A k : Cardinality(Ahead(k)) \in Nat /\ Cardinality(Ahead(k)') \in Nat
  BY MaxItemsAssumption, CountedSets DEF Types, TypeOK
<1>2. CASE Wait(u)
  BY <1>1, <1>2 DEF Wait, Enough
<1>3. CASE Take(u)
  <2>1. items' = items - 1 /\ Useful \ {u} \subseteq Useful' /\ \A k : Ahead(k)' = Ahead(k)
    BY <1>3, WaiterCounts DEF Take
  <2>2. Cardinality(Useful) <= Cardinality(Useful') + 1
    BY <1>1, <2>1, Counts
  <2>3. SUFFICES ASSUME NEW k \in AllKinds, waiting'[k] # <<>>
                 PROVE items' <= Cardinality(Useful') + Cardinality(Ahead(k)')
    BY DEF Enough
  <2>4. items <= Cardinality(Useful) + Cardinality(Ahead(k))
    BY <1>3, <2>3, WaiterCounts DEF Enough
  <2>5. QED
    BY <1>1, <2>1, <2>2, <2>4
<1>4. CASE Begin(u) \/ TimedOut(u) \/ WaiterMove(u)
  <2>1. items' = items
    BY <1>4 DEF Begin, TimedOut, WaiterMove
  <2>2. ~Take(u)
    BY <1>1, <2>1 DEF Take
  <2>3. Useful \subseteq Useful'
    BY <1>4, <2>2, WaiterCounts
  <2>4. QED
    BY <1>4, <2>1, <2>3, WaiterCounts, EnoughKept
<1>5. QED
  BY <1>2, <1>3, <1>4 DEF ClientStep

\* A new item comes with a notifier, which then turns into a useful waiter.
LEMMA EnoughNotifier ==
  ASSUME OneByOne, Types, Placed, Owned, Finite, Enough, NEW n \in Notifiers,
         Produce(n) \/ NotifierMove(n)
  PROVE Enough'
<1> USE DEF Goto, call, notes
<1>1. /\ pc \in [Actors -> Places] /\ kind \in [Waiters -> AllKinds] /\ items \in Nat
      /\ waiting \in [AllKinds -> Seq(Entries)] /\ at \in [Notifiers -> AllKinds]
      /\ Waiters \subseteq Actors /\ Notifiers \subseteq Actors
      /\ \A m \in Notifiers : m \notin Waiters
  BY Apart, MaxItemsAssumption DEF Types, TypeOK, CondvarTypes, Actors
<1>2. /\ IsFiniteSet(Useful) /\ IsFiniteSet(Useful')
      /\ Cardinality(Useful) \in Nat /\ Cardinality(Useful') \in Nat
      /\ \A k : /\ IsFiniteSet(Ahead(k)) /\ IsFiniteSet(Ahead(k)')
                /\ Cardinality(Ahead(k)) \in Nat /\ Cardinality(Ahead(k)') \in Nat
  BY CountedSets
<1>3. /\ UNCHANGED <<kind, timed_out>> /\ \A a \in Actors \ {n} : pc'[a] = pc[a]
      /\ \A m \in Notifiers \ {n} : at'[m] = at[m]
  BY <1>1 DEF Produce, Notify, NotifierMove, Pop, Deliver, Delivered, NextList
<1>4. \A t \in Waiters : pc'[t] = pc[t] /\ InWait(t)' = InWait(t)
  BY <1>1, <1>3 DEF InWait
<1>5. \A k : Ahead(k) \ {n} \subseteq Ahead(k)'
  BY <1>1, <1>3 DEF Ahead
<1>6. ASSUME \A k \in AllKinds, x \in Waiters : Contains(waiting'[k], x) => Contains(waiting[k], x)
      PROVE Useful \subseteq Useful'
  BY <1>1, <1>3, <1>4, <1>6 DEF Useful, Queued
<1>7. CASE Produce(n)
  <2>1. /\ items' = items + 1 /\ waiting' = waiting /\ pc[n] = "idle"
        /\ pc'[n] = "taking" /\ at'[n] = "spin"
    BY <1>1, <1>7 DEF Produce, Notify
  <2>2. Cardinality(Useful) <= Cardinality(Useful')
    BY <1>2, <1>6, <2>1, Counts
  <2>3. SUFFICES ASSUME NEW k \in AllKinds, waiting'[k] # <<>>
                 PROVE items' <= Cardinality(Useful') + Cardinality(Ahead(k)')
    BY DEF Enough
  <2>4. n \notin Ahead(k) /\ n \in Ahead(k)'
    BY <2>1 DEF Ahead
  <2>5. Ahead(k) \subseteq Ahead(k)'
    BY <1>5, <2>4
  <2>6. Cardinality(Ahead(k)) + 1 <= Cardinality(Ahead(k)')
    BY <1>2, <2>4, <2>5, Counts
  <2>7. items <= Cardinality(Useful) + Cardinality(Ahead(k))
    BY <2>1, <2>3 DEF Enough
  <2>8. QED
    BY <1>1, <1>2, <2>1, <2>2, <2>6, <2>7
<1>8. CASE Pop(n) /\ waiting[at[n]] = <<>> /\ items' = items
  <2>1. waiting' = waiting /\ pc[n] = "taking" /\ NextList(n)
    BY <1>8 DEF Pop
  <2>2. ASSUME NEW k \in AllKinds, waiting[k] # <<>>, n \in Ahead(k) PROVE n \in Ahead(k)'
    <3>1. at[n] # k /\ (at[n] = "spin" \/ k = "async")
      BY <1>8, <2>2 DEF Ahead
    <3>2. pc'[n] = "taking" /\ at'[n] = IF at[n] = "spin" THEN "block" ELSE "async"
      BY <1>1, <2>1, <3>1 DEF NextList
    <3>3. QED
      BY <3>1, <3>2 DEF Ahead, AllKinds
  <2>3. \A k \in AllKinds : waiting[k] # <<>> => Ahead(k) \subseteq Ahead(k)'
    BY <1>5, <2>2
  <2>4. QED
    BY <1>6, <1>8, <2>1, <2>3, EnoughKept
<1>9. CASE Pop(n) /\ waiting[at[n]] # <<>> /\ items' = items
  <2> DEFINE q == at[n]
             s == waiting[q]
  <2> PICK e : e = Last(s)
    OBVIOUS
  <2>1. waiting' = [waiting EXCEPT ![q] = Front(s)]
    BY <1>9 DEF Pop
  <2>2. q \in AllKinds /\ s \in Seq(Entries) /\ s # <<>>
    BY <1>1, <1>9
  <2>3. IsInjective(s) /\ \A x : Contains(s, x) => Waits(x, q)
    BY <2>2 DEF Owned, ListOwned
  <2>4. /\ ~Contains(Front(s), e) /\ Contains(s, e)
        /\ \A x : Contains(Front(s), x) => Contains(s, x)
    BY <2>2, <2>3, FrontOnce, LastOrFront
  <2>5. /\ waiting'[q] = Front(s) /\ \A k \in AllKinds \ {q} : waiting'[k] = waiting[k]
    BY <1>1, <2>1, <2>2
  <2>6. Useful \subseteq Useful'
    BY <1>6, <2>4, <2>5
  <2>7. e \in Waiters /\ InWait(e) /\ kind[e] = q
    BY <2>3, <2>4 DEF Waits
  <2>8. e \notin Useful
    BY <2>4, <2>7 DEF Useful, Queued, InWait
  <2>9. e \in Useful'
    BY <1>3, <1>4, <2>4, <2>5, <2>7 DEF Useful, Queued
  <2>10. Cardinality(Useful) + 1 <= Cardinality(Useful')
    BY <1>2, <2>6, <2>8, <2>9, Counts
  <2>11. SUFFICES ASSUME NEW k \in AllKinds, waiting'[k] # <<>>
                  PROVE items' <= Cardinality(Useful') + Cardinality(Ahead(k)')
    BY DEF Enough
  <2>12. waiting[k] # <<>>
    BY <1>9, <2>5, <2>11
  <2>13. Cardinality(Ahead(k)) <= Cardinality(Ahead(k)') + 1
    BY <1>2, <1>5, Counts
  <2>14. QED
    BY <1>1, <1>2, <1>9, <2>10, <2>12, <2>13 DEF Enough
<1>10. CASE (Deliver(n) \/ Delivered(n)) /\ items' = items
  <2>1. waiting' = waiting /\ pc[n] # "taking"
    BY <1>10 DEF Deliver, Delivered
  <2>2. \A k : n \notin Ahead(k)
    BY <2>1 DEF Ahead
  <2>3. \A k : Ahead(k) \subseteq Ahead(k)'
    BY <1>5, <2>2
  <2>4. QED
    BY <1>6, <1>10, <2>1, <2>3, EnoughKept
<1>11. QED
  BY <1>7, <1>8, <1>9, <1>10 DEF NotifierMove

\* What every step of notify_one and of its waiters keeps.
Promised == Types /\ Placed /\ Owned

\* The program starts with empty lists and hands, and with no wakeup.
LEMMA PromisedInit == Init => Promised /\ Enough
<1> SUFFICES ASSUME Init PROVE Promised /\ Enough
  OBVIOUS
<1>1. Types
  BY TypeInit
<1>2. Placed
  BY DEF Init, CondvarInit, Placed, WaiterPlace, NotifierPlace, Actors
<1>3. \A k \in AllKinds : waiting[k] = <<>> /\ \A t \in Waiters : ~woken[k][t]
  BY DEF Init, CondvarInit
<1>4. \A n \in Notifiers : hand[n] = <<>>
  BY DEF Init, CondvarInit
<1>5. IsInjective(<<>>) /\ \A e : ~Contains(<<>>, e)
  BY DEF IsInjective, Contains
<1>6. Owned
  BY <1>3, <1>4, <1>5 DEF Owned, ListOwned, HandOwned, HandsApart, WokenOwned
<1>7. QED
  BY <1>1, <1>2, <1>3, <1>6 DEF Promised, Enough

\* Every step keeps places and entries.
LEMMA PromisedStep == ASSUME OneByOne PROVE Promised /\ [Next]_vars => Promised'
<1> SUFFICES ASSUME Promised, [Next]_vars PROVE Promised'
  OBVIOUS
<1>1. Types /\ Placed /\ Owned /\ WokenOwned
  BY DEF Promised, Owned
<1>2. QED
  BY <1>1, TypeStep, PlacedStep, OwnedStep DEF Promised

\* Every step keeps enough waiters and notifiers on their way.
LEMMA EnoughStep == ASSUME OneByOne, Finite
  PROVE Promised /\ Enough /\ [Next]_vars => Enough'
<1> SUFFICES ASSUME Promised, Enough, [Next]_vars PROVE Enough'
  OBVIOUS
<1>1. Types /\ Placed /\ Owned /\ WokenOwned
  BY DEF Promised, Owned
<1>2. CASE UNCHANGED vars
  BY <1>2 DEF vars, condvar, call, notes, Enough, Useful, Ahead, InWait, Queued
<1>3. QED
  BY <1>1, <1>2, OneSteps, EnoughWaiter, EnoughNotifier

\* notify_one wakes enough waiters: beside a forgotten one there are never more items than
\* there are waiters and notifiers on their way, however the waits, the deadlines of the
\* spinning ones and the notifications interleave.
THEOREM OneForEach == ASSUME OneByOne, Finite PROVE Spec => []EnoughWakeups
<1>1. Promised /\ Enough => EnoughWakeups
  <2> SUFFICES ASSUME Promised, Enough, NEW u \in Waiters, Forgotten(u)
               PROVE items <= Cardinality(Coming) + Cardinality(Notifying)
    BY DEF EnoughWakeups
  <2> DEFINE k == kind[u]
  <2>1. k \in AllKinds /\ waiting[k] # <<>> /\ items \in Nat
    BY MaxItemsAssumption DEF Promised, Types, TypeOK, Forgotten, Queued, Contains
  <2>2. Useful \subseteq Coming /\ Ahead(k) \subseteq Notifying
    BY DEF Useful, Coming, Forgotten, Ahead, Notifying
  <2>3. IsFiniteSet(Coming) /\ IsFiniteSet(Notifying)
    BY FS_Subset DEF Finite, Coming, Notifying
  <2>4. /\ Cardinality(Coming) \in Nat /\ Cardinality(Notifying) \in Nat
        /\ Cardinality(Useful) \in Nat /\ Cardinality(Useful) <= Cardinality(Coming)
        /\ Cardinality(Ahead(k)) \in Nat /\ Cardinality(Ahead(k)) <= Cardinality(Notifying)
    BY <2>2, <2>3, Counts
  <2>5. items <= Cardinality(Useful) + Cardinality(Ahead(k))
    BY <2>1 DEF Enough
  <2>6. QED
    BY <2>1, <2>4, <2>5
<1>2. QED
  BY PromisedInit, PromisedStep, EnoughStep, <1>1, PTL DEF Spec

\* The entry notify_one pops is that of a waiter that is still in the wait it was made for.
THEOREM OnePops == ASSUME OneByOne PROVE Spec => OneIsWoken
<1> DEFINE Woken == \A n \in Notifiers :
      pc[n] = "taking" /\ how[n] = "one" /\ pc'[n] = "waking"
          /\ (\E t \in Waiters : Forgotten(t))
        => \E t \in Waiters : hand'[n] = <<t>> /\ InWait(t) /\ kind[t] = at[n]
<1>1. Promised /\ [Next]_vars => Woken
  <2> SUFFICES ASSUME Promised, [Next]_vars, NEW n \in Notifiers,
                      pc[n] = "taking", pc'[n] = "waking"
               PROVE \E t \in Waiters : hand'[n] = <<t>> /\ InWait(t) /\ kind[t] = at[n]
    OBVIOUS
  <2>1. /\ pc \in [Actors -> Places] /\ n \in Actors /\ n \notin Waiters
        /\ at[n] \in AllKinds /\ waiting \in [AllKinds -> Seq(Entries)]
        /\ hand \in [Notifiers -> Seq(Entries)]
    BY Apart DEF Promised, Types, TypeOK, CondvarTypes, Actors
  <2>2. ASSUME NEW u \in Waiters, ClientStep(u) \/ Begin(u) \/ WaiterMove(u) PROVE pc'[n] = pc[n]
    BY <2>1, <2>2
    DEF ClientStep, Take, Wait, TimedOut, Begin, Leave, Return, Register, Call, WaiterMove,
        Lock, DeadlinePasses, DropGuard, Wake, SpinLate, Relock, Goto, call, notes
  <2>3. ASSUME NEW m \in Notifiers, Produce(m) \/ NotifierMove(m)
        PROVE Pop(n) /\ waiting[at[n]] # <<>>
    BY <2>1, <2>3
    DEF Produce, Notify, NotifierMove, Pop, Deliver, Delivered, NextList, Goto, Actors
  <2>4. pc' = pc \/ (Pop(n) /\ waiting[at[n]] # <<>>) \/ pc'[n] = pc[n]
    BY <2>2, <2>3, OneSteps DEF Promised, Owned, vars, condvar
  <2>5. Pop(n) /\ waiting[at[n]] # <<>>
    BY <2>4
  <2> DEFINE s == waiting[at[n]]
  <2>6. hand'[n] = <<Last(s)>> /\ s \in Seq(Entries)
    BY <2>1, <2>5 DEF Pop
  <2>7. Contains(s, Last(s))
    BY <2>5, <2>6, LastOrFront
  <2>8. Waits(Last(s), at[n])
    BY <2>1, <2>7 DEF Promised, Owned, ListOwned
  <2>9. QED
    BY <2>6, <2>8 DEF Waits
<1>2. QED
  BY PromisedInit, PromisedStep, <1>1, PTL DEF Spec, OneIsWoken
=============================================================================
