-------------------------- MODULE TimerQueueProofs --------------------------
(***************************************************************************)
(* TimerQueue, for any number of clients and descriptors and any interval: *)
(* every client is watched until somebody closes it, a silent one is       *)
(* closed in bounded time, what T reads without the mutex is true, and no  *)
(* descriptor leaks though three threads may close one connection at once. *)
(***************************************************************************)
EXTENDS TimerQueue, NatInduction, FiniteSetTheorems, TLAPS


-----------------------------------------------------------------------------
(* What the operations on the multimap do to it.                           *)

Entry == [at : Nat, conn : Conns]

(* The types of what is on a queue.                                        *)
LEMMA EntryTypes ==
  ASSUME NEW q \in Seq(Entry), NEW i \in 1..Len(q)
  PROVE  q[i] \in Entry /\ q[i].at \in Nat /\ q[i].conn \in Conns
<1>1. q[i] \in Entry
  OBVIOUS
<1>2. QED
  BY <1>1 DEF Entry

(* Two queues, one behind the other, and three.                            *)
LEMMA ConcatTwo ==
  ASSUME NEW a \in Seq(Entry), NEW b \in Seq(Entry), NEW x \in Nat, NEW y \in Nat,
         Len(a) = x, Len(b) = y
  PROVE  /\ a \o b \in Seq(Entry) /\ Len(a \o b) = x + y
         /\ \A i \in 1..x : (a \o b)[i] = a[i]
         /\ \A i \in 1..y : (a \o b)[x + i] = b[i]
<1>1. a \o b \in Seq(Entry) /\ Len(a \o b) = x + y
  OBVIOUS
<1>2. \A i \in 1..x : (a \o b)[i] = a[i]
  OBVIOUS
<1>3. \A i \in 1..y : (a \o b)[x + i] = b[i]
  OBVIOUS
<1>4. QED
  BY <1>1, <1>2, <1>3

Joined(a, b, c, r) ==
  /\ r \in Seq(Entry) /\ Len(r) = Len(a) + Len(b) + Len(c)
  /\ \A i \in 1..Len(a) : r[i] = a[i]
  /\ \A i \in 1..Len(b) : r[Len(a) + i] = b[i]
  /\ \A i \in 1..Len(c) : r[Len(a) + Len(b) + i] = c[i]

LEMMA ConcatThree ==
  ASSUME NEW a \in Seq(Entry), NEW b \in Seq(Entry), NEW c \in Seq(Entry)
  PROVE  Joined(a, b, c, a \o b \o c)
<1>0. PICK x \in Nat, y \in Nat, z \in Nat : Len(a) = x /\ Len(b) = y /\ Len(c) = z
  OBVIOUS
<1>1. PICK s \in Seq(Entry) : s = a \o b
  <2>1. a \o b \in Seq(Entry)
    OBVIOUS
  <2>2. QED
    BY <2>1
<1>2. PICK u \in Nat : u = x + y
  OBVIOUS
<1>3. Len(s) = u
  BY <1>0, <1>1, <1>2, ConcatTwo
<1>4. (s \o c) \in Seq(Entry) /\ Len(s \o c) = u + z
  BY <1>0, <1>3, ConcatTwo
<1>5. \A i \in 1..u : (s \o c)[i] = s[i]
  BY <1>0, <1>3, ConcatTwo
<1>6. ASSUME NEW i \in 1..z PROVE (s \o c)[u + i] = c[i]
  BY <1>0, <1>3
<1>7. \A i \in 1..x : s[i] = a[i]
  BY <1>0, <1>1, ConcatTwo
<1>8. ASSUME NEW i \in 1..y PROVE s[x + i] = b[i]
  BY <1>0, <1>1
<1>9. PICK r : r = s \o c /\ r = a \o b \o c
  BY <1>1
<1>10. \A i \in 1..x : r[i] = a[i]
  <2>1. \A i \in 1..x : i \in 1..u
    BY <1>2
  <2>2. QED
    BY <1>5, <1>7, <1>9, <2>1
<1>11. \A i \in 1..y : r[x + i] = b[i]
  <2>1. \A i \in 1..y : x + i \in 1..u
    BY <1>2
  <2>2. QED
    BY <1>5, <1>8, <1>9, <2>1
<1>12. \A i \in 1..z : r[x + y + i] = c[i]
  BY <1>2, <1>6, <1>9
<1>13. QED
  BY <1>0, <1>2, <1>4, <1>9, <1>10, <1>11, <1>12 DEF Joined

(* The first k of a queue, and the rest.                                   *)
InFront(q, k, r) == r \in Seq(Entry) /\ Len(r) = k /\ \A i \in 1..k : r[i] = q[i]

LEMMA SubSeqFront ==
  ASSUME NEW q \in Seq(Entry), NEW k \in 0..Len(q)
  PROVE  InFront(q, k, SubSeq(q, 1, k))
<1>1. SubSeq(q, 1, k) \in Seq(Entry) /\ Len(SubSeq(q, 1, k)) = k
  OBVIOUS
<1>2. \A i \in 1..k : SubSeq(q, 1, k)[i] = q[i]
  OBVIOUS
<1>3. QED
  BY <1>1, <1>2 DEF InFront

Behind(q, k, r) ==
  /\ r \in Seq(Entry) /\ Len(r) = Len(q) - k
  /\ \A i \in 1..Len(q) - k : r[i] = q[k + i]

LEMMA SubSeqBehind ==
  ASSUME NEW q \in Seq(Entry), NEW k \in 0..Len(q)
  PROVE  Behind(q, k, SubSeq(q, k + 1, Len(q)))
<1>1. SubSeq(q, k + 1, Len(q)) \in Seq(Entry) /\ Len(SubSeq(q, k + 1, Len(q))) = Len(q) - k
  OBVIOUS
<1>2. \A i \in 1..Len(q) - k : SubSeq(q, k + 1, Len(q))[i] = q[k + i]
  OBVIOUS
<1>3. QED
  BY <1>1, <1>2 DEF Behind

(* UpperBound() splits the queue where it should.                          *)
LEMMA UpperBoundSplits ==
  ASSUME NEW q \in Seq(Entry), NEW at \in Nat
  PROVE  /\ UpperBound(q, at) \in 0..Len(q)
         /\ \A i \in 1..UpperBound(q, at) : q[i].at <= at
         /\ UpperBound(q, at) < Len(q) => q[UpperBound(q, at) + 1].at > at
<1> DEFINE X == {k \in 0..Len(q) : k < Len(q) => q[k + 1].at > at}
<1>1. \A i \in 1..Len(q) : q[i].at \in Nat
  BY EntryTypes
<1>2. Len(q) \in X /\ X \subseteq Nat
  OBVIOUS
<1>3. PICK k \in X : \A j \in X : k <= j
  BY <1>2, LeastElement
<1>4. ASSUME NEW i \in 1..k PROVE q[i].at <= at
  <2>1. i - 1 \in 0..Len(q) /\ i - 1 < k /\ i - 1 < Len(q) /\ i \in 1..Len(q)
    BY <1>3
  <2>2. i - 1 \notin X
    BY <1>3, <2>1
  <2>3. ~(q[(i - 1) + 1].at > at)
    BY <2>1, <2>2
  <2>4. QED
    BY <1>1, <2>1, <2>3
<1>5. QED
  BY <1>3, <1>4 DEF UpperBound

(* Behind an element that is later than at, in order, all are.             *)
LEMMA UpperBoundOrdered ==
  ASSUME NEW q \in Seq(Entry), NEW at \in Nat, Ordered(q)
  PROVE  \A i \in UpperBound(q, at) + 1..Len(q) : q[i].at > at
<1> DEFINE k == UpperBound(q, at)
<1>1. k \in 0..Len(q) /\ (k < Len(q) => q[k + 1].at > at)
  BY UpperBoundSplits
<1>2. ASSUME NEW i \in k + 1..Len(q) PROVE q[i].at > at
  <2>1. k + 1 \in 1..Len(q) /\ i \in 1..Len(q) /\ k + 1 <= i
    BY <1>1
  <2>2. q[k + 1].at <= q[i].at /\ q[k + 1].at \in Nat /\ q[i].at \in Nat
    BY <2>1, EntryTypes DEF Ordered
  <2>3. QED
    BY <1>1, <2>1, <2>2
<1>3. QED
  BY <1>2

(* What Insert() returns: the old timers, and one for each of cs.          *)
NewEntry(at, c) == [at |-> at, conn |-> c]

Placed(q, at, cs, k, n, m, r) ==
  /\ r \in Seq(Entry) /\ Len(r) = n + m /\ k <= n
  /\ \A i \in 1..k : r[i] = q[i]
  /\ \A i \in 1..m : r[k + i] = NewEntry(at, cs[i])
  /\ \A i \in k + 1..n : r[m + i] = q[i]

LEMMA InsertParts ==
  ASSUME NEW q \in Seq(Entry), NEW at \in Nat, NEW cs \in Seq(Conns)
  PROVE  Placed(q, at, cs, UpperBound(q, at), Len(q), Len(cs), Insert(q, at, cs))
<1>1. PICK k \in Nat, m \in Nat, z \in Nat :
        k = UpperBound(q, at) /\ m = Len(cs) /\ Len(q) = k + z
  <2>1. PICK k \in Nat : k = UpperBound(q, at) /\ k <= Len(q)
    BY UpperBoundSplits
  <2>2. Len(q) - k \in Nat /\ Len(cs) \in Nat /\ Len(q) = k + (Len(q) - k)
    BY <2>1
  <2>3. QED
    BY <2>1, <2>2
<1>2. PICK new \in Seq(Entry) :
        /\ new = [i \in 1..Len(cs) |-> [at |-> at, conn |-> cs[i]]]
        /\ Len(new) = m /\ \A i \in 1..m : new[i] = [at |-> at, conn |-> cs[i]]
  <2> DEFINE f == [i \in 1..Len(cs) |-> [at |-> at, conn |-> cs[i]]]
  <2>1. \A i \in 1..m : cs[i] \in Conns
    BY <1>1
  <2>2. f \in [1..m -> Entry]
    BY <1>1, <2>1 DEF Entry
  <2>3. f \in Seq(Entry) /\ Len(f) = m
    BY <1>1, <2>2
  <2>4. QED
    BY <1>1, <2>3
<1>3. PICK a \in Seq(Entry) :
        a = SubSeq(q, 1, k) /\ Len(a) = k /\ \A i \in 1..k : a[i] = q[i]
  <2>1. k \in 0..Len(q)
    BY <1>1
  <2>2. QED
    BY <2>1, SubSeqFront DEF InFront
<1>4. PICK b \in Seq(Entry) :
        b = SubSeq(q, k + 1, Len(q)) /\ Len(b) = z /\ \A i \in 1..z : b[i] = q[k + i]
  <2>1. Behind(q, k, SubSeq(q, k + 1, Len(q)))
    BY <1>1, SubSeqBehind
  <2>2. Len(q) - k = z
    BY <1>1
  <2>3. QED
    BY <2>1, <2>2 DEF Behind
<1>5. PICK r : r = Insert(q, at, cs) /\ r = a \o new \o b
  BY <1>1, <1>2, <1>3, <1>4 DEF Insert
<1>6. /\ r \in Seq(Entry) /\ Len(r) = k + m + z
      /\ \A i \in 1..k : r[i] = a[i]
      /\ \A i \in 1..m : r[k + i] = new[i]
      /\ \A i \in 1..z : r[k + m + i] = b[i]
  <2>1. Len(a) = k /\ Len(new) = m /\ Len(b) = z
    BY <1>2, <1>3, <1>4
  <2>2. Joined(a, new, b, a \o new \o b)
    BY ConcatThree
  <2>3. Joined(a, new, b, r)
    BY <1>5, <2>2
  <2>4. QED
    BY <2>1, <2>3 DEF Joined
<1>7. ASSUME NEW i \in k + 1..Len(q) PROVE r[m + i] = q[i]
  <2>1. PICK j \in 1..z : i = k + j
    <3>1. i - k \in 1..z /\ i = k + (i - k)
      BY <1>1
    <3>2. QED
      BY <3>1
  <2>2. m + i = k + m + j
    BY <2>1
  <2>3. QED
    BY <1>4, <1>6, <2>1, <2>2
<1>8. Len(r) = Len(q) + m
  BY <1>1, <1>6
<1>9. QED
  <2>1. \A i \in 1..m : r[k + i] = NewEntry(at, cs[i])
    BY <1>2, <1>6 DEF NewEntry
  <2>2. /\ r \in Seq(Entry) /\ Len(r) = Len(q) + m /\ k <= Len(q)
        /\ \A i \in 1..k : r[i] = q[i]
    <3>1. k <= Len(q)
      BY <1>1
    <3>2. QED
      BY <1>3, <1>6, <1>8, <3>1
  <2>3. Placed(q, at, cs, k, Len(q), m, r)
    BY <1>7, <2>1, <2>2 DEF Placed
  <2>4. QED
    BY <1>1, <1>5, <2>3

(* Where each timer of the result of Insert() comes from.                  *)
Origins(q, at, cs, k, n, m, r) ==
  \A i \in 1..Len(r) :
    \/ i \in 1..k /\ r[i] = q[i]
    \/ \E j \in 1..m : i = k + j /\ r[i] = NewEntry(at, cs[j])
    \/ \E j \in k + 1..n : i = m + j /\ r[i] = q[j]

LEMMA InsertOrigin ==
  ASSUME NEW q \in Seq(Entry), NEW at \in Nat, NEW cs \in Seq(Conns), NEW r,
         r = Insert(q, at, cs)
  PROVE  \E k, n, m \in Nat :
           /\ k = UpperBound(q, at) /\ n = Len(q) /\ m = Len(cs)
           /\ Placed(q, at, cs, k, n, m, r) /\ Origins(q, at, cs, k, n, m, r)
<1>0. PICK k \in Nat, n \in Nat, m \in Nat :
        k = UpperBound(q, at) /\ n = Len(q) /\ m = Len(cs)
  <2>1. UpperBound(q, at) \in 0..Len(q)
    BY UpperBoundSplits, Zenon
  <2>2. Len(q) \in Nat /\ Len(cs) \in Nat
    OBVIOUS
  <2>3. QED
    BY <2>1, <2>2
<1>1. /\ r \in Seq(Entry) /\ Len(r) = n + m
      /\ \A i \in 1..k : r[i] = q[i]
      /\ \A i \in 1..m : r[k + i] = NewEntry(at, cs[i])
      /\ \A i \in k + 1..n : r[m + i] = q[i]
  <2>1. Placed(q, at, cs, k, n, m, r)
    BY <1>0, InsertParts
  <2>2. QED
    BY <2>1 DEF Placed
<1>2. k <= n /\ Placed(q, at, cs, k, n, m, r)
  BY <1>0, InsertParts DEF Placed
<1>3. ASSUME NEW i \in 1..Len(r)
      PROVE  \/ i \in 1..k /\ r[i] = q[i]
             \/ \E j \in 1..m : i = k + j /\ r[i] = NewEntry(at, cs[j])
             \/ \E j \in k + 1..n : i = m + j /\ r[i] = q[j]
  <2>1. i \in 1..k \/ i - k \in 1..m \/ i - m \in k + 1..n
    BY <1>1, <1>2
  <2>2. CASE i \in 1..k
    BY <1>1, <2>2
  <2>3. CASE i - k \in 1..m
    <3>1. PICK j \in 1..m : i = k + j
      BY <2>3
    <3>2. QED
      BY <1>1, <3>1
  <2>4. CASE i - m \in k + 1..n
    <3>1. PICK j \in k + 1..n : i = m + j
      BY <2>4
    <3>2. QED
      BY <1>1, <3>1
  <2>5. QED
    BY <2>1, <2>2, <2>3, <2>4
<1>4. Origins(q, at, cs, k, n, m, r)
  BY <1>3 DEF Origins
<1>5. QED
  BY <1>0, <1>2, <1>4

Old(q, e) == \E j \in 1..Len(q) : e = q[j]
New(at, cs, e) == \E j \in 1..Len(cs) : e = NewEntry(at, cs[j])

(* Insert() keeps every timer and adds the new ones, and nothing else.     *)
LEMMA InsertMembers ==
  ASSUME NEW q \in Seq(Entry), NEW at \in Nat, NEW cs \in Seq(Conns), NEW r,
         r = Insert(q, at, cs)
  PROVE  /\ r \in Seq(Entry) /\ Len(r) = Len(q) + Len(cs)
         /\ \A e : Old(r, e) <=> Old(q, e) \/ New(at, cs, e)
<1>1. PICK k \in Nat, n \in Nat, m \in Nat :
        /\ k = UpperBound(q, at) /\ n = Len(q) /\ m = Len(cs)
        /\ Placed(q, at, cs, k, n, m, r) /\ Origins(q, at, cs, k, n, m, r)
  BY InsertOrigin
<1>2. /\ r \in Seq(Entry) /\ Len(r) = n + m /\ k <= n
      /\ \A i \in 1..k : r[i] = q[i]
      /\ \A i \in 1..m : r[k + i] = NewEntry(at, cs[i])
      /\ \A i \in k + 1..n : r[m + i] = q[i]
      /\ \A i \in 1..Len(r) :
           \/ i \in 1..k /\ r[i] = q[i]
           \/ \E j \in 1..m : i = k + j /\ r[i] = NewEntry(at, cs[j])
           \/ \E j \in k + 1..n : i = m + j /\ r[i] = q[j]
  BY <1>1 DEF Placed, Origins
<1>3. ASSUME NEW e, Old(r, e) PROVE Old(q, e) \/ New(at, cs, e)
  <2>1. PICK i \in 1..Len(r) : e = r[i]
    BY <1>3 DEF Old
  <2>2. CASE i \in 1..k /\ r[i] = q[i]
    <3>1. i \in 1..Len(q)
      BY <1>1, <1>2, <2>2
    <3>2. QED
      BY <2>1, <2>2, <3>1 DEF Old
  <2>3. CASE \E j \in 1..m : i = k + j /\ r[i] = NewEntry(at, cs[j])
    BY <1>1, <2>1, <2>3 DEF New
  <2>4. CASE \E j \in k + 1..n : i = m + j /\ r[i] = q[j]
    <3>1. \A j \in k + 1..n : j \in 1..Len(q)
      BY <1>1
    <3>2. QED
      BY <2>1, <2>4, <3>1 DEF Old
  <2>5. QED
    BY <1>2, <2>2, <2>3, <2>4
<1>4. ASSUME NEW e, Old(q, e) PROVE Old(r, e)
  <2>1. PICK j \in 1..n : e = q[j]
    BY <1>1, <1>4 DEF Old
  <2>2. CASE j <= k
    <3>1. j \in 1..k /\ j \in 1..Len(r)
      BY <1>2, <2>2
    <3>2. QED
      BY <1>2, <2>1, <3>1 DEF Old
  <2>3. CASE j > k
    <3>1. j \in k + 1..n /\ m + j \in 1..Len(r)
      BY <1>2, <2>3
    <3>2. QED
      BY <1>2, <2>1, <3>1 DEF Old
  <2>4. QED
    BY <2>2, <2>3
<1>5. ASSUME NEW e, New(at, cs, e) PROVE Old(r, e)
  <2>1. PICK j \in 1..m : e = NewEntry(at, cs[j])
    BY <1>1, <1>5 DEF New
  <2>2. k + j \in 1..Len(r)
    BY <1>2
  <2>3. QED
    BY <1>2, <2>1, <2>2 DEF Old
<1>6. QED
  BY <1>1, <1>2, <1>3, <1>4, <1>5

(* Insert() keeps the order of the queue.                                  *)
LEMMA InsertOrdered ==
  ASSUME NEW q \in Seq(Entry), NEW at \in Nat, NEW cs \in Seq(Conns), NEW r,
         r = Insert(q, at, cs), Ordered(q)
  PROVE  Ordered(r)
<1>1. PICK k \in Nat, n \in Nat, m \in Nat :
        /\ k = UpperBound(q, at) /\ n = Len(q) /\ m = Len(cs)
        /\ Placed(q, at, cs, k, n, m, r) /\ Origins(q, at, cs, k, n, m, r)
  BY InsertOrigin
<1>2. k <= n /\ \A i \in 1..Len(r) :
        \/ i \in 1..k /\ r[i] = q[i]
        \/ \E j \in 1..m : i = k + j /\ r[i] = NewEntry(at, cs[j])
        \/ \E j \in k + 1..n : i = m + j /\ r[i] = q[j]
  BY <1>1 DEF Placed, Origins
<1>3. /\ \A i \in 1..n : q[i].at \in Nat
      /\ \A i \in 1..k : q[i].at <= at
      /\ \A i \in k + 1..n : q[i].at > at
  BY <1>1, EntryTypes, UpperBoundSplits, UpperBoundOrdered
<1>4. \A i, j \in 1..n : i <= j => q[i].at <= q[j].at
  BY <1>1 DEF Ordered
<1>5. \A j : NewEntry(at, cs[j]).at = at
  BY DEF NewEntry
<1>6. ASSUME NEW i \in 1..Len(r), NEW j \in 1..Len(r), i <= j PROVE r[i].at <= r[j].at
  <2>1. CASE i \in 1..k /\ r[i] = q[i]
    <3>1. i \in 1..n /\ r[i].at <= at /\ r[i].at \in Nat
      BY <1>2, <1>3, <2>1
    <3>2. CASE j \in 1..k /\ r[j] = q[j]
      BY <1>2, <1>4, <1>6, <2>1, <3>1, <3>2
    <3>3. CASE \E l \in 1..m : j = k + l /\ r[j] = NewEntry(at, cs[l])
      BY <1>5, <3>1, <3>3
    <3>4. CASE \E l \in k + 1..n : j = m + l /\ r[j] = q[l]
      <4>1. PICK l \in k + 1..n : r[j] = q[l]
        BY <3>4
      <4>2. l \in 1..n /\ i <= l
        BY <2>1
      <4>3. QED
        BY <1>4, <2>1, <3>1, <4>1, <4>2
    <3>5. QED
      BY <1>2, <3>2, <3>3, <3>4
  <2>2. CASE \E l \in 1..m : i = k + l /\ r[i] = NewEntry(at, cs[l])
    <3>1. r[i].at = at /\ i > k
      BY <1>5, <2>2
    <3>2. CASE j \in 1..k /\ r[j] = q[j]
      BY <1>6, <3>1, <3>2
    <3>3. CASE \E l \in 1..m : j = k + l /\ r[j] = NewEntry(at, cs[l])
      BY <1>5, <3>1, <3>3
    <3>4. CASE \E l \in k + 1..n : j = m + l /\ r[j] = q[l]
      <4>1. PICK l \in k + 1..n : r[j] = q[l]
        BY <3>4
      <4>2. l \in 1..n /\ q[l].at > at /\ q[l].at \in Nat
        BY <1>3
      <4>3. QED
        BY <3>1, <4>1, <4>2
    <3>5. QED
      BY <1>2, <3>2, <3>3, <3>4
  <2>3. CASE \E l \in k + 1..n : i = m + l /\ r[i] = q[l]
    <3>1. PICK l \in k + 1..n : i = m + l /\ r[i] = q[l]
      BY <2>3
    <3>2. CASE j \in 1..k /\ r[j] = q[j]
      BY <1>6, <3>1, <3>2
    <3>3. CASE \E h \in 1..m : j = k + h /\ r[j] = NewEntry(at, cs[h])
      BY <1>6, <3>1, <3>3
    <3>4. CASE \E h \in k + 1..n : j = m + h /\ r[j] = q[h]
      <4>1. PICK h \in k + 1..n : j = m + h /\ r[j] = q[h]
        BY <3>4
      <4>2. l \in 1..n /\ h \in 1..n /\ l <= h
        BY <1>6, <3>1, <4>1
      <4>3. QED
        BY <1>4, <3>1, <4>1, <4>2
    <3>5. QED
      BY <1>2, <3>2, <3>3, <3>4
  <2>4. QED
    BY <1>2, <2>1, <2>2, <2>3
<1>7. QED
  BY <1>6 DEF Ordered


(* Insert() of clients that have no timer, each once, gives none a second. *)
LEMMA InsertDistinct ==
  ASSUME NEW q \in Seq(Entry), NEW at \in Nat, NEW cs \in Seq(Conns), NEW r,
         r = Insert(q, at, cs), Distinct(q),
         \A i, j \in 1..Len(cs) : cs[i] = cs[j] => i = j,
         \A c : Listed(cs, c) => ~HasTimer(q, c)
  PROVE  Distinct(r)
<1>1. PICK k \in Nat, n \in Nat, m \in Nat :
        /\ k = UpperBound(q, at) /\ n = Len(q) /\ m = Len(cs)
        /\ Placed(q, at, cs, k, n, m, r) /\ Origins(q, at, cs, k, n, m, r)
  BY InsertOrigin
<1>2. k <= n /\ \A i \in 1..Len(r) :
        \/ i \in 1..k /\ r[i] = q[i]
        \/ \E j \in 1..m : i = k + j /\ r[i] = NewEntry(at, cs[j])
        \/ \E j \in k + 1..n : i = m + j /\ r[i] = q[j]
  BY <1>1 DEF Placed, Origins
<1>3. \A i, j \in 1..n : q[i].conn = q[j].conn => i = j
  BY <1>1 DEF Distinct
<1>4. \A i \in 1..n, j \in 1..m : q[i].conn # cs[j]
  BY <1>1 DEF HasTimer, Listed
<1>5. \A i, j \in 1..m : cs[i] = cs[j] => i = j
  BY <1>1
<1>6. \A j : NewEntry(at, cs[j]).conn = cs[j]
  BY DEF NewEntry
<1>7. ASSUME NEW i \in 1..Len(r)
      PROVE  \/ \E l \in 1..n : r[i] = q[l] /\ i = (IF l <= k THEN l ELSE m + l)
             \/ \E l \in 1..m : r[i] = NewEntry(at, cs[l]) /\ i = k + l
  <2>1. CASE i \in 1..k /\ r[i] = q[i]
    <3>1. i \in 1..n /\ i <= k
      BY <1>2, <2>1
    <3>2. QED
      BY <2>1, <3>1
  <2>2. CASE \E j \in 1..m : i = k + j /\ r[i] = NewEntry(at, cs[j])
    BY <2>2
  <2>3. CASE \E j \in k + 1..n : i = m + j /\ r[i] = q[j]
    <3>1. PICK j \in k + 1..n : i = m + j /\ r[i] = q[j]
      BY <2>3
    <3>2. j \in 1..n /\ ~(j <= k)
      OBVIOUS
    <3>3. QED
      BY <3>1, <3>2
  <2>4. QED
    BY <1>2, <2>1, <2>2, <2>3
<1>8. ASSUME NEW i \in 1..Len(r), NEW j \in 1..Len(r), r[i].conn = r[j].conn PROVE i = j
  <2>1. CASE /\ \E l \in 1..n : r[i] = q[l] /\ i = (IF l <= k THEN l ELSE m + l)
             /\ \E l \in 1..n : r[j] = q[l] /\ j = (IF l <= k THEN l ELSE m + l)
    BY <1>3, <1>8, <2>1
  <2>2. CASE /\ \E l \in 1..m : r[i] = NewEntry(at, cs[l]) /\ i = k + l
             /\ \E l \in 1..m : r[j] = NewEntry(at, cs[l]) /\ j = k + l
    BY <1>5, <1>6, <1>8, <2>2
  <2>3. CASE /\ \E l \in 1..n : r[i] = q[l]
             /\ \E l \in 1..m : r[j] = NewEntry(at, cs[l])
    BY <1>4, <1>6, <1>8, <2>3
  <2>4. CASE /\ \E l \in 1..m : r[i] = NewEntry(at, cs[l])
             /\ \E l \in 1..n : r[j] = q[l]
    BY <1>4, <1>6, <1>8, <2>4
  <2>5. QED
    BY <1>7, <2>1, <2>2, <2>3, <2>4
<1>9. QED
  BY <1>8 DEF Distinct

-----------------------------------------------------------------------------
(* One pass of Without(), as a function of the timers looked at so far.    *)
Pass(q, c, f, i) ==
  IF i = 0 THEN <<>>
  ELSE IF q[i].conn = c THEN f[i - 1] ELSE Append(f[i - 1], q[i])

IsPass(q, c, n, f) == f = [i \in 0..n |-> Pass(q, c, f, i)]

(* The function by which Without() is defined exists.                      *)
LEMMA PassExists ==
  ASSUME NEW q, NEW c
  PROVE  \A n \in Nat : \E f : IsPass(q, c, n, f)
<1> DEFINE X == {n \in Nat : \E f : IsPass(q, c, n, f)}
<1>1. 0 \in X
  <2> DEFINE f == [i \in 0..0 |-> <<>>]
  <2>1. \A i \in 0..0 : Pass(q, c, f, i) = <<>>
    BY DEF Pass
  <2>2. IsPass(q, c, 0, f)
    BY <2>1 DEF IsPass
  <2>3. QED
    BY <2>2
<1>2. ASSUME NEW n \in Nat, n \in X PROVE n + 1 \in X
  <2>1. PICK f : IsPass(q, c, n, f)
    BY <1>2
  <2> DEFINE g == [i \in 0..n + 1 |-> IF i <= n THEN f[i] ELSE Pass(q, c, f, n + 1)]
  <2>2. ASSUME NEW i \in 0..n PROVE g[i] = Pass(q, c, g, i)
    <3>1. g[i] = f[i] /\ f[i] = Pass(q, c, f, i)
      BY <2>1 DEF IsPass
    <3>2. i # 0 => g[i - 1] = f[i - 1]
      OBVIOUS
    <3>3. QED
      BY <3>1, <3>2 DEF Pass
  <2>3. g[n + 1] = Pass(q, c, g, n + 1)
    <3>1. g[n + 1] = Pass(q, c, f, n + 1)
      OBVIOUS
    <3>2. (n + 1) - 1 = n /\ g[n] = f[n]
      OBVIOUS
    <3>3. QED
      BY <3>1, <3>2 DEF Pass
  <2>4. \A i \in 0..n + 1 : g[i] = Pass(q, c, g, i)
    <3>1. \A i \in 0..n + 1 : i \in 0..n \/ i = n + 1
      OBVIOUS
    <3> HIDE DEF g
    <3>2. QED
      BY <2>2, <2>3, <3>1
  <2>5. IsPass(q, c, n + 1, g)
    <3>1. g = [i \in 0..n + 1 |-> g[i]]
      OBVIOUS
    <3> HIDE DEF g
    <3>2. QED
      BY <2>4, <3>1 DEF IsPass
  <2>6. QED
    BY <2>5
<1> HIDE DEF X
<1>3. \A n \in Nat : n \in X
  BY <1>1, <1>2, Induction
<1>4. QED
  BY <1>3 DEF X

(* What is left of the first n timers when those of c are gone.            *)
Kept(q, c, n, r) ==
  /\ r \in Seq(Entry) /\ Len(r) <= n
  /\ \A i \in 1..Len(r) : \E j \in 1..n : r[i] = q[j] /\ q[j].conn # c
  /\ \A j \in 1..n : q[j].conn # c => \E i \in 1..Len(r) : r[i] = q[j]
  /\ Ordered(q) => Ordered(r)
  /\ Distinct(q) => Distinct(r)

(* One timer more.                                                         *)
LEMMA KeptOn ==
  ASSUME NEW q \in Seq(Entry), NEW c, NEW n \in Nat, n + 1 <= Len(q), NEW r,
         Kept(q, c, n, r)
  PROVE  Kept(q, c, n + 1, IF q[n + 1].conn = c THEN r ELSE Append(r, q[n + 1]))
<1>1. PICK k \in Nat : r \in Seq(Entry) /\ k = Len(r) /\ k <= n
  BY DEF Kept
<1>2. q[n + 1] \in Entry
  OBVIOUS
<1>3. \A j \in 1..n : j \in 1..n + 1 /\ j \in 1..Len(q)
  OBVIOUS
<1>4. n + 1 \in 1..n + 1 /\ n + 1 \in 1..Len(q)
  OBVIOUS
<1>5. \A j \in 1..n + 1 : j \in 1..n \/ j = n + 1
  OBVIOUS
<1>6. CASE q[n + 1].conn = c
  <2>1. Len(r) <= n + 1
    BY <1>1
  <2>2. Kept(q, c, n + 1, r)
    BY <1>3, <1>5, <1>6, <2>1 DEF Kept
  <2>3. QED
    BY <1>6, <2>2
<1>7. CASE q[n + 1].conn # c
  <2>1. PICK s : s = Append(r, q[n + 1])
    OBVIOUS
  <2>2. s \in Seq(Entry) /\ Len(s) = k + 1
    BY <1>1, <1>2, <2>1
  <2>3. (\A i \in 1..k : s[i] = r[i]) /\ s[k + 1] = q[n + 1]
    BY <1>1, <1>2, <2>1
  <2>4. \A i \in 1..k + 1 : i \in 1..k \/ i = k + 1
    OBVIOUS
  <2>5. k + 1 \in 1..k + 1 /\ \A i \in 1..k : i \in 1..k + 1
    OBVIOUS
  <2>6. /\ \A i \in 1..k : \E j \in 1..n : r[i] = q[j] /\ q[j].conn # c
        /\ \A j \in 1..n : q[j].conn # c => \E i \in 1..k : r[i] = q[j]
    BY <1>1 DEF Kept
  <2>7. \A i \in 1..k + 1 : \E j \in 1..n + 1 : s[i] = q[j] /\ q[j].conn # c
    <3>1. ASSUME NEW i \in 1..k PROVE \E j \in 1..n + 1 : s[i] = q[j] /\ q[j].conn # c
      <4>1. PICK j \in 1..n : r[i] = q[j] /\ q[j].conn # c
        BY <2>6
      <4>2. QED
        BY <1>3, <2>3, <4>1
    <3>2. \E j \in 1..n + 1 : s[k + 1] = q[j] /\ q[j].conn # c
      BY <1>4, <1>7, <2>3
    <3>3. QED
      BY <2>4, <3>1, <3>2
  <2>8. \A j \in 1..n + 1 : q[j].conn # c => \E i \in 1..k + 1 : s[i] = q[j]
    BY <1>5, <2>3, <2>5, <2>6
  <2>9. ASSUME Ordered(q) PROVE Ordered(s)
    <3>1. \A i \in 1..k : s[i].at <= s[k + 1].at
      <4>1. \A j \in 1..n : q[j].at <= q[n + 1].at
        BY <1>3, <1>4, <2>9 DEF Ordered
      <4>2. QED
        BY <2>3, <2>6, <4>1
    <3>2. \A i, j \in 1..k : i <= j => r[i].at <= r[j].at
      BY <1>1, <2>9 DEF Kept, Ordered
    <3>3. s[k + 1].at <= s[k + 1].at
      BY <1>2, <2>3 DEF Entry
    <3>4. \A i, j \in 1..k + 1 : i <= j => s[i].at <= s[j].at
      <4>1. \A i \in 1..k : ~(k + 1 <= i)
        OBVIOUS
      <4>2. QED
        BY <2>3, <2>4, <3>1, <3>2, <3>3, <4>1
    <3>5. QED
      BY <2>2, <3>4 DEF Ordered
  <2>10. ASSUME Distinct(q) PROVE Distinct(s)
    <3>1. ASSUME NEW i \in 1..k PROVE s[i].conn # s[k + 1].conn
      <4>1. \A j \in 1..n : q[j].conn # q[n + 1].conn
        <5>1. \A j \in 1..n : j # n + 1
          OBVIOUS
        <5>2. QED
          BY <1>3, <1>4, <2>10, <5>1 DEF Distinct
      <4>2. PICK j \in 1..n : r[i] = q[j]
        BY <2>6
      <4>3. QED
        BY <2>3, <4>1, <4>2
    <3>2. \A i, j \in 1..k : r[i].conn = r[j].conn => i = j
      BY <1>1, <2>10 DEF Kept, Distinct
    <3>3. \A i, j \in 1..k + 1 : s[i].conn = s[j].conn => i = j
      BY <2>3, <2>4, <3>1, <3>2
    <3>4. QED
      BY <2>2, <3>3 DEF Distinct
  <2>11. k + 1 <= n + 1
    BY <1>1
  <2>12. Kept(q, c, n + 1, s)
    BY <2>2, <2>7, <2>8, <2>9, <2>10, <2>11 DEF Kept
  <2>13. QED
    BY <1>7, <2>1, <2>12
<1>8. QED
  BY <1>6, <1>7

(* What Without() returns: the timers of the others, in their order.       *)
LEMMA WithoutKeeps ==
  ASSUME NEW q \in Seq(Entry), NEW c
  PROVE  Kept(q, c, Len(q), Without(q, c))
<1>1. Len(q) \in Nat
  OBVIOUS
<1>2. PICK f : f = [i \in 0..Len(q) |-> Pass(q, c, f, i)] /\ Without(q, c) = f[Len(q)]
  <2>1. PICK g : g = CHOOSE h : IsPass(q, c, Len(q), h)
    OBVIOUS
  <2>2. IsPass(q, c, Len(q), g)
    BY <1>1, <2>1, PassExists
  <2>3. Without(q, c) = g[Len(q)]
    BY <2>1 DEF Without, IsPass, Pass
  <2>4. QED
    BY <2>2, <2>3 DEF IsPass
<1> DEFINE X == {n \in Nat : n <= Len(q) => Kept(q, c, n, f[n])}
<1>3. 0 \in X
  <2>1. f[0] = <<>>
    BY <1>1, <1>2 DEF Pass
  <2>2. <<>> \in Seq(Entry) /\ Len(<<>>) = 0
    OBVIOUS
  <2>3. QED
    <3>1. Kept(q, c, 0, <<>>)
      <4>1. Len(<<>>) <= 0 /\ 1..Len(<<>>) = {} /\ 1..0 = {}
        BY <2>2
      <4>2. Ordered(<<>>) /\ Distinct(<<>>)
        BY <4>1 DEF Ordered, Distinct
      <4>3. QED
        BY <2>2, <4>1, <4>2 DEF Kept
    <3>2. QED
      BY <2>1, <3>1
<1>4. ASSUME NEW n \in Nat, n \in X PROVE n + 1 \in X
  <2>1. SUFFICES ASSUME n + 1 <= Len(q) PROVE Kept(q, c, n + 1, f[n + 1])
    OBVIOUS
  <2>2. n \in 0..Len(q) /\ n + 1 \in 0..Len(q) /\ n + 1 # 0 /\ (n + 1) - 1 = n
    BY <1>1, <2>1
  <2>3. f[n + 1] = IF q[n + 1].conn = c THEN f[n] ELSE Append(f[n], q[n + 1])
    BY <1>2, <2>2 DEF Pass
  <2>4. Kept(q, c, n, f[n])
    BY <1>1, <1>4, <2>1
  <2>5. QED
    BY <2>1, <2>3, <2>4, KeptOn
<1> HIDE DEF X
<1>5. \A n \in Nat : n \in X
  BY <1>3, <1>4, Induction
<1>6. QED
  BY <1>1, <1>2, <1>5 DEF X

-----------------------------------------------------------------------------
(* Descriptors.                                                            *)

(* At first no descriptor is open.                                         *)
LEMMA InitFd == Init => FdInv
BY TimerAssumption DEF TimerAssumption, Init, FdInv, SocketTypes, NoFdLeak, Shut, NoFd

(* A step leaves every closing thread with the descriptor that is open, or *)
(* with none.                                                              *)
LEMMA FdStep == FdInv /\ [Next]_vars => FdInv'
<1> SUFFICES ASSUME FdInv, [Next]_vars PROVE FdInv'
  OBVIOUS
<1> USE TimerAssumption DEF TimerAssumption, FdInv, SocketTypes, NoFdLeak, Shut,
         NoFd, Closers, clockVars, timerVars, sockVars, tVars, closeVars, Go
<1>1. ASSUME NEW c \in Conns, Accept(c) PROVE FdInv'
  BY <1>1 DEF Accept
<1>2. CASE AddToTimerQueue
  BY <1>2 DEF AddToTimerQueue, SetTimers
<1>3. ASSUME NEW c \in Conns, ReadClosed(c) PROVE FdInv'
  BY <1>3 DEF ReadClosed, BeginClose
<1>4. ASSUME NEW c \in Conns, CutOff(c) PROVE FdInv'
  BY <1>4 DEF CutOff, BeginClose
<1>5. ASSUME NEW t \in Closers, DeleteFromTimerQueue(t) PROVE FdInv'
  BY <1>5 DEF DeleteFromTimerQueue, DeleteTimers, SetTimers
<1>6. ASSUME NEW t \in Closers, TestFd(t) PROVE FdInv'
  BY <1>6, SMTT(40) DEF TestFd
<1>7. ASSUME NEW t \in Closers, LoadFd(t) PROVE FdInv'
  BY <1>7 DEF LoadFd
<1>8. ASSUME NEW t \in Closers, CloseFd(t) PROVE FdInv'
  BY <1>8 DEF CloseFd
<1>9. ASSUME NEW t \in Closers, ClearFd(t) PROVE FdInv'
  BY <1>9 DEF ClearFd
<1>10. ASSUME NEW t \in Closers, Park(t) PROVE FdInv'
  BY <1>10 DEF Park
<1>11. CASE TLook
  BY <1>11 DEF TLook
<1>12. CASE TCollect
  BY <1>12 DEF TCollect, CollectDue, SetTimers
<1>13. CASE TCheck
  BY <1>13 DEF TCheck, BeginClose
<1>14. CASE TSleep
  BY <1>14 DEF TSleep
<1>15. ASSUME NEW c \in Conns, Ping(c) PROVE FdInv'
  BY <1>15 DEF Ping
<1>16. CASE Tick
  BY <1>16 DEF Tick
<1>17. ASSUME NEW c \in Conns, STake(c) PROVE FdInv'
  BY <1>17 DEF STake
<1>18. CASE SSend
  BY <1>18 DEF SSend
<1>19. CASE UNCHANGED vars
  BY <1>19 DEF vars
<1>20. QED
    BY <1>1, <1>2, <1>3, <1>4, <1>5, <1>6, <1>7, <1>8, <1>9, <1>10, <1>11,
     <1>12, <1>13, <1>14, <1>15, <1>16, <1>17, <1>18, <1>19 DEF Next, CloseStep

(* What a thread in zdClosesocketProc() knows of the descriptor holds on   *)
(* to its last step.                                                       *)
THEOREM FdInvariant == Spec => []FdInv
BY InitFd, FdStep, PTL DEF Spec

(* However the threads that close connections interleave, every open       *)
(* socket belongs to a live connection whose fd names it.                  *)
THEOREM NoDescriptorLeaks == Spec => []NoFdLeak
<1>1. FdInv => NoFdLeak
  BY DEF FdInv
<1>2. QED
  BY <1>1, FdInvariant, PTL

-----------------------------------------------------------------------------
(* Timers and the clients they watch.                                      *)

(* Nobody has a timer that is on no queue.                                 *)
LEMMA OldTimer ==
  ASSUME NEW q, NEW c
  PROVE  HasTimer(q, c) <=> \E e : Old(q, e) /\ e.conn = c
BY DEF HasTimer, Old

QueueTypes ==
  timers \in Seq([at : Nat, conn : Conns]) /\ curSize \in Nat /\ timerValue \in Nat

(* The queue after SetTimers().                                            *)
LEMMA SetTimersEffect ==
  ASSUME WatchInv, NEW q \in Seq(Entry), NEW n, SetTimers(q, n), Ordered(q), Distinct(q),
         curSize + n = Len(q)
  PROVE  QueueInv' /\ QueueTypes' /\ timers' = q
<1>1. timers' = q /\ curSize' = Len(q)
  BY DEF SetTimers
<1>2. q # <<>> => Len(q) > 0
  OBVIOUS
<1>3. q # <<>> => timerValue' = q[1].at
  BY <1>1, <1>2 DEF SetTimers
<1>4. QueueInv'
  BY <1>1, <1>3 DEF QueueInv, Ordered, Distinct
<1>5. timers' \in Seq([at : Nat, conn : Conns]) /\ curSize' \in Nat
  BY <1>1 DEF Entry
<1>6. timerValue' \in Nat
  <2>1. timerValue \in Nat
    BY DEF WatchInv, TypeOK
  <2>2. timerValue' = IF curSize' > 0 THEN q[1].at ELSE timerValue
    BY DEF SetTimers
  <2>3. curSize' > 0 => q[1].at \in Nat
    <3>1. Len(q) > 0 => q[1] \in Entry
      OBVIOUS
    <3>2. QED
      BY <1>1, <3>1 DEF Entry
  <2>4. QED
    BY <2>1, <2>2, <2>3
<1>7. QED
  BY <1>1, <1>4, <1>5, <1>6 DEF QueueTypes

(* After a timer is added.                                                 *)
LEMMA AddEffect ==
  ASSUME WatchInv, AddToTimerQueue
  PROVE  QueueInv' /\ QueueTypes' /\ \A c : Timed(c)' <=> Timed(c) \/ c = newc
<1> DEFINE at == now + WaitTime
           cs == <<newc>>
           r == Insert(timers, at, cs)
<1>1. /\ timers \in Seq(Entry) /\ at \in Nat /\ newc \in Conns /\ ~Timed(newc)
      /\ curSize = Len(timers) /\ Ordered(timers) /\ Distinct(timers)
  BY TimerAssumption DEF WatchInv, TypeOK, QueueInv, NewInv, AddToTimerQueue, Entry,
                         TimerAssumption
<1>2. cs \in Seq(Conns) /\ Len(cs) = 1 /\ cs[1] = newc
  BY <1>1
<1>3. r \in Seq(Entry) /\ Len(r) = Len(timers) + 1
  BY <1>1, <1>2, InsertMembers
<1>4. \A e : Old(r, e) <=> Old(timers, e) \/ New(at, cs, e)
  BY <1>1, <1>2, InsertMembers
<1>5. \A e : New(at, cs, e) <=> e = NewEntry(at, newc)
  BY <1>2 DEF New
<1>6. Ordered(r)
  <2>1. r = Insert(timers, at, cs) /\ timers \in Seq(Entry) /\ at \in Nat /\ cs \in Seq(Conns)
    BY <1>1, <1>2
  <2> HIDE DEF at, cs, r
  <2>2. QED
    BY <1>1, <2>1, InsertOrdered
<1>7. Distinct(r)
  <2>1. \A i, j \in 1..Len(cs) : cs[i] = cs[j] => i = j
    BY <1>2
  <2>2. \A c : Listed(cs, c) => ~HasTimer(timers, c)
    BY <1>1, <1>2 DEF Listed, Timed
  <2> HIDE DEF cs
  <2>3. QED
    BY <1>1, <1>2, <2>1, <2>2, InsertDistinct
<1>8. SetTimers(r, 1)
  BY DEF AddToTimerQueue
<1> HIDE DEF at, cs, r
<1>9. QueueInv' /\ QueueTypes' /\ timers' = r
  BY <1>1, <1>3, <1>6, <1>7, <1>8, SetTimersEffect
<1>10. \A c : Timed(c)' <=> Timed(c) \/ c = newc
  <2>1. NewEntry(at, newc).conn = newc
    BY DEF NewEntry
  <2>2. \A c : HasTimer(r, c) <=> HasTimer(timers, c) \/ c = newc
    BY <1>4, <1>5, <2>1, OldTimer
  <2>3. QED
    BY <1>9, <2>2 DEF Timed, HasTimer
<1>11. QED
  BY <1>9, <1>10

(* After those of a connection are gone.                                   *)
LEMMA DeleteEffect ==
  ASSUME WatchInv, NEW t \in Closers, DeleteFromTimerQueue(t)
  PROVE  QueueInv' /\ QueueTypes' /\ \A c : Timed(c)' <=> Timed(c) /\ c # tgt[t]
<1>1. /\ timers \in Seq(Entry) /\ curSize = Len(timers)
      /\ Ordered(timers) /\ Distinct(timers)
  BY DEF WatchInv, TypeOK, QueueInv, Entry
<1>2. PICK d, r : d = tgt[t] /\ r = Without(timers, d)
  OBVIOUS
<1>3. Kept(timers, d, Len(timers), r)
  BY <1>1, <1>2, WithoutKeeps
<1>4. r \in Seq(Entry) /\ Ordered(r) /\ Distinct(r)
  BY <1>1, <1>3 DEF Kept
<1>5. SetTimers(r, Len(r) - Len(timers))
  BY <1>2 DEF DeleteFromTimerQueue, DeleteTimers
<1>6. Len(timers) + (Len(r) - Len(timers)) = Len(r)
  BY <1>1, <1>4
<1>7. QueueInv' /\ QueueTypes' /\ timers' = r
  BY <1>1, <1>4, <1>5, <1>6, SetTimersEffect
<1>8. \A c : HasTimer(r, c) <=> HasTimer(timers, c) /\ c # d
  BY <1>3 DEF Kept, HasTimer
<1>9. QED
  BY <1>2, <1>7, <1>8 DEF Timed, HasTimer

(* What T takes off the queue, and what it leaves there.                   *)
Due(q, n) == [i \in 1..n |-> q[i].conn]

Parted(q, n, due, rest) ==
  /\ due \in Seq(Conns) /\ Len(due) = n
  /\ rest \in Seq(Entry) /\ Len(rest) = Len(q) - n /\ Ordered(rest) /\ Distinct(rest)
  /\ \A i, j \in 1..n : due[i] = due[j] => i = j
  /\ \A c : Listed(due, c) => ~HasTimer(rest, c)
  /\ \A c : HasTimer(q, c) <=> HasTimer(rest, c) \/ Listed(due, c)

LEMMA DueParts ==
  ASSUME NEW q \in Seq(Entry), Ordered(q), Distinct(q), NEW n \in 0..Len(q), NEW s,
         s = SubSeq(q, n + 1, Len(q))
  PROVE  Parted(q, n, Due(q, n), s)
<1>1. PICK k \in Nat : k = Len(q) /\ n <= k
  OBVIOUS
<1>2. s \in Seq(Entry) /\ Len(s) = k - n /\ \A i \in 1..k - n : s[i] = q[n + i]
  BY <1>1, SubSeqBehind DEF Behind
<1>3. PICK d : d = Due(q, n)
  OBVIOUS
<1>4. d \in Seq(Conns) /\ Len(d) = n /\ \A i \in 1..n : d[i] = q[i].conn
  <2>1. \A i \in 1..n : i \in 1..Len(q)
    BY <1>1
  <2>2. \A i \in 1..n : q[i].conn \in Conns
    BY <2>1, EntryTypes
  <2>3. d \in [1..n -> Conns] /\ \A i \in 1..n : d[i] = q[i].conn
    BY <1>3, <2>2 DEF Due
  <2>4. QED
    BY <2>3
<1>5. \A i \in 1..k - n : n + i \in 1..k
  BY <1>1
<1>6. Ordered(s)
  <2>1. \A i, j \in 1..k - n : i <= j => q[n + i].at <= q[n + j].at
    BY <1>1, <1>5 DEF Ordered
  <2>2. QED
    BY <1>2, <2>1 DEF Ordered
<1>7. Distinct(s)
  <2>1. \A i, j \in 1..k - n : q[n + i].conn = q[n + j].conn => n + i = n + j
    BY <1>1, <1>5 DEF Distinct
  <2>2. \A i, j \in 1..k - n : n + i = n + j => i = j
    OBVIOUS
  <2>3. QED
    BY <1>2, <2>1, <2>2 DEF Distinct
<1>8. \A i \in 1..n : i \in 1..k
  BY <1>1
<1>9. \A i, j \in 1..n : d[i] = d[j] => i = j
  BY <1>1, <1>4, <1>8 DEF Distinct
<1>10. \A c : Listed(d, c) => ~HasTimer(s, c)
  <2>1. ASSUME NEW i \in 1..n, NEW j \in 1..k - n PROVE d[i] # s[j].conn
    <3>1. i \in 1..k /\ n + j \in 1..k /\ i # n + j
      BY <1>1
    <3>2. q[i].conn # q[n + j].conn
      BY <1>1, <3>1 DEF Distinct
    <3>3. QED
      BY <1>2, <1>4, <3>2
  <2>2. QED
    BY <1>2, <1>4, <2>1 DEF Listed, HasTimer
<1>11. ASSUME NEW c PROVE HasTimer(q, c) <=> HasTimer(s, c) \/ Listed(d, c)
  <2>1. \A i \in 1..k : i \in 1..n \/ (i - n \in 1..k - n /\ n + (i - n) = i)
    BY <1>1
  <2>2. ASSUME HasTimer(q, c) PROVE HasTimer(s, c) \/ Listed(d, c)
    <3>1. PICK i \in 1..k : q[i].conn = c
      BY <1>1, <2>2 DEF HasTimer
    <3>2. CASE i \in 1..n
      BY <1>4, <3>1, <3>2 DEF Listed
    <3>3. CASE i - n \in 1..k - n /\ n + (i - n) = i
      <4>1. PICK j \in 1..k - n : n + j = i
        BY <3>3
      <4>2. s[j].conn = c
        BY <1>2, <3>1, <4>1
      <4>3. QED
        BY <1>2, <4>2 DEF HasTimer
    <3>4. QED
      BY <2>1, <3>2, <3>3
  <2>3. ASSUME HasTimer(s, c) PROVE HasTimer(q, c)
    BY <1>1, <1>2, <1>5, <2>3 DEF HasTimer
  <2>4. ASSUME Listed(d, c) PROVE HasTimer(q, c)
    BY <1>1, <1>4, <1>8, <2>4 DEF HasTimer, Listed
  <2>5. QED
    BY <2>2, <2>3, <2>4
<1>12. QED
  BY <1>1, <1>2, <1>3, <1>4, <1>6, <1>7, <1>9, <1>10, <1>11 DEF Parted

(* And after T has been there: a client whose timer came off is on T's     *)
(* list, and has its timer again unless T closes it anyway.                *)
LEMMA CollectEffect ==
  ASSUME WatchInv, TCollect
  PROVE  /\ QueueInv' /\ QueueTypes' /\ idle' \in Seq(Conns)
         /\ \A c : InIdle(c)' => Timed(c)
         /\ \A c : Timed(c)' => Timed(c)
         /\ \A c : Timed(c) => Timed(c)' \/ (timeOutKick /\ InIdle(c)')
<1>1. /\ timers \in Seq(Entry) /\ curTime \in Nat /\ curTime + WaitTime \in Nat
      /\ curSize = Len(timers) /\ Ordered(timers) /\ Distinct(timers)
  BY TimerAssumption DEF WatchInv, TypeOK, QueueInv, Entry, TimerAssumption
<1>2. PICK n \in 0..Len(timers) : n = UpperBound(timers, curTime)
  BY <1>1, UpperBoundSplits
<1>3. PICK due, rest : due = Due(timers, n) /\ rest = SubSeq(timers, n + 1, Len(timers))
  OBVIOUS
<1>4. /\ due \in Seq(Conns) /\ Len(due) = n
      /\ rest \in Seq(Entry) /\ Len(rest) = Len(timers) - n /\ Ordered(rest) /\ Distinct(rest)
      /\ \A i, j \in 1..n : due[i] = due[j] => i = j
      /\ \A c : Listed(due, c) => ~HasTimer(rest, c)
      /\ \A c : HasTimer(timers, c) <=> HasTimer(rest, c) \/ Listed(due, c)
  <2>1. Parted(timers, n, due, rest)
    BY <1>1, <1>3, DueParts
  <2>2. QED
    BY <2>1 DEF Parted
<1>5. /\ idle' = due
      /\ timeOutKick => SetTimers(rest, -n)
      /\ ~timeOutKick => SetTimers(Insert(rest, curTime + WaitTime, due), 0)
  BY <1>2, <1>3 DEF TCollect, CollectDue, Due
<1>6. \A c : InIdle(c)' <=> Listed(due, c)
  BY <1>5 DEF InIdle, Listed
<1>7. CASE timeOutKick
  <2>1. curSize + -n = Len(rest)
    BY <1>1, <1>4
  <2>2. QueueInv' /\ QueueTypes' /\ timers' = rest
    BY <1>4, <1>5, <1>7, <2>1, SetTimersEffect
  <2>3. \A c : Timed(c)' <=> HasTimer(rest, c)
    BY <2>2 DEF Timed, HasTimer
  <2>4. QED
    BY <1>4, <1>5, <1>6, <1>7, <2>2, <2>3 DEF Timed
<1>8. CASE ~timeOutKick
  <2> DEFINE at == curTime + WaitTime
             r == Insert(rest, at, due)
  <2>1. at \in Nat /\ r = Insert(rest, at, due) /\ at = curTime + WaitTime
    BY <1>1
  <2> HIDE DEF at, r
  <2>2. r \in Seq(Entry) /\ Len(r) = Len(rest) + n
    BY <1>4, <2>1, InsertMembers
  <2>3. \A e : Old(r, e) <=> Old(rest, e) \/ New(at, due, e)
    BY <1>4, <2>1, InsertMembers
  <2>4. Ordered(r)
    BY <1>4, <2>1, InsertOrdered
  <2>5. Distinct(r)
    BY <1>4, <2>1, InsertDistinct
  <2>6. curSize + 0 = Len(r)
    BY <1>1, <1>4, <2>2
  <2>7. QueueInv' /\ QueueTypes' /\ timers' = r
    BY <1>5, <1>8, <2>1, <2>2, <2>4, <2>5, <2>6, SetTimersEffect
  <2>8. \A c : HasTimer(r, c) <=> HasTimer(rest, c) \/ Listed(due, c)
    <3>1. \A d : NewEntry(at, d).conn = d
      BY DEF NewEntry
    <3>2. ASSUME NEW c, NEW e, New(at, due, e), e.conn = c PROVE Listed(due, c)
      BY <3>1, <3>2 DEF New, Listed
    <3>3. ASSUME NEW c, Listed(due, c) PROVE \E e : New(at, due, e) /\ e.conn = c
      <4>1. New(at, due, NewEntry(at, c))
        BY <3>3 DEF New, Listed
      <4>2. QED
        BY <3>1, <4>1
    <3>4. QED
      BY <2>3, <3>2, <3>3, OldTimer
  <2>9. \A c : Timed(c)' <=> HasTimer(r, c)
    BY <2>7 DEF Timed, HasTimer
  <2>10. QED
    BY <1>4, <1>5, <1>6, <2>7, <2>8, <2>9 DEF Timed
<1>9. QED
  BY <1>7, <1>8

(* A step that leaves the queue, or the list, leaves who is on it.         *)
LEMMA SameTimers ==
  ASSUME QueueInv, UNCHANGED timerVars
  PROVE  QueueInv' /\ \A c : Timed(c)' <=> Timed(c)
BY DEF QueueInv, Ordered, Distinct, Timed, HasTimer, timerVars

LEMMA SameIdle ==
  ASSUME UNCHANGED idle
  PROVE  \A c : InIdle(c)' <=> InIdle(c)
BY DEF InIdle, Listed

(* Who is on the list but its first.                                       *)
LEMMA TailListed ==
  ASSUME NEW s \in Seq(Conns), s # <<>>
  PROVE  /\ s[1] \in Conns /\ Listed(s, s[1])
         /\ \A c : Listed(s, c) <=> c = s[1] \/ Listed(Tail(s), c)
<1>1. PICK n \in Nat : Len(s) = n /\ n # 0
  OBVIOUS
<1>2. Len(Tail(s)) = n - 1 /\ \A i \in 1..n - 1 : Tail(s)[i] = s[i + 1]
  BY <1>1
<1>3. 1 \in 1..n /\ \A i \in 1..n : i = 1 \/ (i - 1 \in 1..n - 1 /\ (i - 1) + 1 = i)
  BY <1>1
<1>4. \A i \in 1..n - 1 : i + 1 \in 1..n
  BY <1>1
<1>5. s[1] \in Conns /\ Listed(s, s[1])
  BY <1>1, <1>3 DEF Listed
<1>6. ASSUME NEW c, Listed(s, c) PROVE c = s[1] \/ Listed(Tail(s), c)
  BY <1>1, <1>2, <1>3, <1>6 DEF Listed
<1>7. ASSUME NEW c, Listed(Tail(s), c) PROVE Listed(s, c)
  BY <1>1, <1>2, <1>4, <1>7 DEF Listed
<1>8. QED
  BY <1>5, <1>6, <1>7

(* At first there are no timers, and nothing is on the list.               *)
LEMMA InitWatch == Init => WatchInv
<1> SUFFICES ASSUME Init PROVE WatchInv
  OBVIOUS
<1>1. FdInv
  BY InitFd
<1>2. TypeOK
  <2>1. <<>> \in Seq([at : Nat, conn : Conns]) /\ <<>> \in Seq(Conns)
    OBVIOUS
  <2>2. SocketTypes
    BY <1>1 DEF FdInv
  <2>3. QED
    <3>1. 0 \in 0..MaxNow /\ lastPing \in [Conns -> 0..MaxNow]
      BY TimerAssumption DEF Init, TimerAssumption
    <3>2. timers \in Seq([at : Nat, conn : Conns]) /\ idle \in Seq(Conns)
      BY <2>1 DEF Init
    <3>3. QED
      BY <2>2, <3>1, <3>2 DEF Init, TypeOK
<1>3. timers = <<>> /\ idle = <<>> /\ Len(<<>>) = 0 /\ 1..0 = {}
  BY DEF Init
<1>4. /\ \A c : ~Timed(c) /\ ~InIdle(c)
      /\ Ordered(timers) /\ Distinct(timers)
  BY <1>3 DEF Timed, InIdle, HasTimer, Listed, Ordered, Distinct
<1>5. QueueInv
  BY <1>3, <1>4 DEF Init, QueueInv
<1>6. NewInv /\ CloseInv /\ IdleInv /\ ClientInv
  BY <1>4, TimerAssumption
     DEF Init, NewInv, CloseInv, IdleInv, ClientInv, TimerAssumption, Closers
<1>7. QED
  BY <1>1, <1>2, <1>5, <1>6 DEF WatchInv

(* A step keeps the types.                                                 *)
LEMMA TypeStep ==
  ASSUME WatchInv, [Next]_vars, FdInv'
  PROVE  TypeOK'
<1>1. /\ TypeOK /\ MaxNow \in Nat /\ SocketTypes /\ SocketTypes' /\ NoFd \in 1..MaxFd \cup {NoFd}
  BY TimerAssumption DEF WatchInv, TypeOK, FdInv, TimerAssumption
<1> DEFINE Times == /\ now \in 0..MaxNow /\ timeOutKick \in BOOLEAN /\ curTime \in 0..MaxNow
                    /\ looked \in BOOLEAN /\ lastPing \in [Conns -> 0..MaxNow]
           Pcs == /\ pcE \in {"idle", "timer"} /\ newc \in Conns \cup {NoConn}
                  /\ pcT \in {"sleep", "collect", "check"}
           Sends == sConn \in Conns \cup {NoConn} /\ sFd \in 1..MaxFd \cup {NoFd}
           Idles == idle \in Seq(Conns)
<1>2. Times /\ Pcs /\ Sends /\ Idles /\ QueueTypes
  BY <1>1 DEF TypeOK, QueueTypes
<1>3. ASSUME UNCHANGED timerVars PROVE QueueTypes'
  BY <1>2, <1>3 DEF QueueTypes, timerVars
<1>4. QueueTypes'
  <2>1. CASE AddToTimerQueue
    BY <2>1, AddEffect
  <2>2. ASSUME NEW t \in Closers, DeleteFromTimerQueue(t) PROVE QueueTypes'
    BY <2>2, DeleteEffect
  <2>3. CASE TCollect
    BY <2>3, CollectEffect
  <2>4. CASE ~AddToTimerQueue /\ ~TCollect /\ \A t \in Closers : ~DeleteFromTimerQueue(t)
    <3>1. UNCHANGED timerVars
      BY <2>4 DEF Next, CloseStep, Accept, ReadClosed, CutOff, Ping, STake, TestFd, LoadFd,
           CloseFd, ClearFd, Park, TLook, TCheck, TSleep, Tick, SSend, vars, timerVars
    <3>2. QED
      BY <1>3, <3>1
  <2>5. QED
    BY <2>1, <2>2, <2>3, <2>4
<1>5. Idles'
  <2>1. CASE TCollect
    BY <2>1, CollectEffect
  <2>2. CASE TCheck
    <3>1. Tail(idle) \in Seq(Conns)
      BY <1>2, <2>2 DEF TCheck
    <3>2. QED
      BY <2>2, <3>1 DEF TCheck
  <2>3. CASE ~TCollect /\ ~TCheck
    <3>1. UNCHANGED idle
      BY <2>3 DEF Next, CloseStep, Accept, ReadClosed, CutOff, Ping, STake, TestFd, LoadFd,
           CloseFd, ClearFd, Park, TLook, TSleep, Tick, SSend, vars, tVars, AddToTimerQueue,
           DeleteFromTimerQueue, DeleteTimers
    <3>2. QED
      BY <1>2, <3>1
  <2>4. QED
    BY <2>1, <2>2, <2>3
<1>6. Times' /\ Pcs' /\ Sends'
  <2> USE <1>1, <1>2 DEF clockVars, sockVars, tVars, sendVars
  <2>1. ASSUME NEW c \in Conns, Accept(c) PROVE Times' /\ Pcs' /\ Sends'
    BY <2>1 DEF Accept
  <2>2. ASSUME NEW c \in Conns, ReadClosed(c) \/ CutOff(c) PROVE Times' /\ Pcs' /\ Sends'
    BY <2>2 DEF ReadClosed, CutOff
  <2>3. ASSUME NEW c \in Conns, Ping(c) \/ STake(c) PROVE Times' /\ Pcs' /\ Sends'
    BY <2>3 DEF Ping, STake, SocketTypes
  <2>4. ASSUME NEW t \in Closers, CloseStep(t) PROVE Times' /\ Pcs' /\ Sends'
    BY <2>4 DEF CloseStep, DeleteFromTimerQueue, DeleteTimers, TestFd, LoadFd, CloseFd,
                ClearFd, Park
  <2>5. ASSUME AddToTimerQueue PROVE Times' /\ Pcs' /\ Sends'
    BY <2>5 DEF AddToTimerQueue
  <2>6. ASSUME TLook \/ TSleep \/ TCheck PROVE Times' /\ Pcs' /\ Sends'
    BY <2>6 DEF TLook, TSleep, TCheck
  <2>7. ASSUME TCollect PROVE Times' /\ Pcs' /\ Sends'
    BY <2>7 DEF TCollect, CollectDue
  <2>8. ASSUME Tick \/ SSend PROVE Times' /\ Pcs' /\ Sends'
    <3>1. now < MaxNow => now + 1 \in 0..MaxNow
      OBVIOUS
    <3>2. CASE Tick
      BY <3>1, <3>2 DEF Tick
    <3>3. CASE SSend
      BY <3>3 DEF SSend
    <3>4. QED
      BY <2>8, <3>2, <3>3
  <2>9. ASSUME UNCHANGED vars PROVE Times' /\ Pcs' /\ Sends'
    BY <2>9 DEF vars
  <2>10. QED
    BY <2>1, <2>2, <2>3, <2>4, <2>5, <2>6, <2>7, <2>8, <2>9 DEF Next
<1>7. QED
  BY <1>1, <1>4, <1>5, <1>6 DEF TypeOK, QueueTypes

(* A step leaves nobody without a watch.                                   *)
LEMMA WatchStep == WatchInv /\ [Next]_vars => WatchInv'
<1> SUFFICES ASSUME WatchInv, [Next]_vars PROVE WatchInv'
  OBVIOUS
<1> DEFINE Rest == QueueInv /\ NewInv /\ CloseInv /\ IdleInv /\ ClientInv
<1>a. FdInv'
  BY FdStep DEF WatchInv
<1>b. /\ TypeOK /\ FdInv /\ QueueInv /\ NewInv /\ CloseInv /\ IdleInv /\ ClientInv
      /\ SocketTypes /\ NoFdLeak /\ NoConn \notin Conns /\ newc \in Conns \cup {NoConn}
      /\ idle \in Seq(Conns)
      /\ \A t \in Closers : pc[t] # "none" => tgt[t] \in Conns /\ state[tgt[t]] # "unused"
  BY TimerAssumption DEF WatchInv, TimerAssumption, TypeOK, FdInv
<1>c. ASSUME UNCHANGED timerVars PROVE QueueInv' /\ \A c : Timed(c)' <=> Timed(c)
  BY <1>b, <1>c, SameTimers
<1>d. ASSUME UNCHANGED idle PROVE \A c : InIdle(c)' <=> InIdle(c)
  BY <1>d, SameIdle
<1>1. ASSUME NEW c \in Conns, Accept(c) PROVE Rest'
  <2>1. QueueInv' /\ \A d : (Timed(d)' <=> Timed(d)) /\ (InIdle(d)' <=> InIdle(d))
    BY <1>1, <1>c, <1>d DEF Accept, timerVars, tVars
  <2>2. newc = NoConn /\ ~Closing(c) /\ ~Timed(c) /\ ~InIdle(c)
    BY <1>1, <1>b DEF Accept, NewInv, Closing, CloseInv, ClientInv, IdleInv
  <2>3. NewInv' /\ CloseInv'
    BY <1>1, <1>b, <2>1, <2>2 DEF Accept, NewInv, CloseInv, Closing, SocketTypes, closeVars
  <2>4. IdleInv' /\ ClientInv'
    BY <1>1, <1>b, <2>1, <2>2
       DEF Accept, IdleInv, ClientInv, Closing, SocketTypes, closeVars, tVars, clockVars
  <2>5. QED
    BY <2>1, <2>3, <2>4
<1>2. ASSUME AddToTimerQueue PROVE Rest'
  <2>1. QueueInv' /\ \A c : (Timed(c)' <=> Timed(c) \/ c = newc) /\ (InIdle(c)' <=> InIdle(c))
    BY <1>2, <1>b, <1>d, AddEffect DEF AddToTimerQueue, tVars, WatchInv
  <2>2. NewInv' /\ CloseInv'
    BY <1>2, <1>b, <2>1 DEF AddToTimerQueue, NewInv, CloseInv, Closing, sockVars, closeVars
  <2>3. IdleInv' /\ ClientInv'
    BY <1>2, <1>b, <2>1 DEF AddToTimerQueue, NewInv, IdleInv, ClientInv, Closing, sockVars,
                              closeVars, tVars, clockVars
  <2>4. QED
    BY <2>1, <2>2, <2>3
<1>3. ASSUME NEW c \in Conns, NEW t \in Closers, BeginClose(t, c),
             UNCHANGED <<timerVars, sockVars, pcE, newc, clockVars>>, newc # c, state[c] # "unused",
             pcT' = pcT, pcT # "check" => idle' = idle, \A d : InIdle(d)' => InIdle(d),
             \A d : InIdle(d) => InIdle(d)' \/ d = c
      PROVE Rest'
  <2>1. QueueInv' /\ \A d : Timed(d)' <=> Timed(d)
    BY <1>3, <1>c
  <2>2. NewInv' /\ CloseInv'
    BY <1>3, <1>b, <2>1 DEF BeginClose, NewInv, CloseInv, Closing, SocketTypes, sockVars
  <2>3. IdleInv'
    BY <1>3, <1>b DEF IdleInv, sockVars
  <2>4. ClientInv'
    <3>1. Closing(c)' /\ \A d \in Conns : Closing(d) => Closing(d)'
      BY <1>3, <1>b DEF BeginClose, Closing, CloseInv, SocketTypes
    <3>2. QED
      BY <1>3, <1>b, <2>1, <3>1 DEF ClientInv, sockVars, clockVars
  <2>5. QED
    BY <2>1, <2>2, <2>3, <2>4
<1>4. ASSUME NEW c \in Conns, ReadClosed(c) PROVE Rest'
  <2>1. newc # c /\ state[c] = "live"
    BY <1>4, <1>b DEF ReadClosed, NewInv, NoFdLeak
  <2>2. "E" \in Closers /\ \A d : InIdle(d)' <=> InIdle(d)
    BY <1>4, <1>d DEF ReadClosed, tVars, Closers
  <2>3. QED
    BY <1>3, <1>4, <2>1, <2>2 DEF ReadClosed, tVars
<1>5. ASSUME NEW c \in Conns, CutOff(c) PROVE Rest'
  <2>1. "W" \in Closers /\ \A d : InIdle(d)' <=> InIdle(d)
    BY <1>5, <1>d DEF CutOff, tVars, Closers
  <2>2. QED
    BY <1>3, <1>5, <2>1 DEF CutOff, tVars
<1>6. ASSUME NEW t \in Closers, DeleteFromTimerQueue(t) PROVE Rest'
  <2>1. QueueInv' /\ \A c : (Timed(c)' <=> Timed(c) /\ c # tgt[t]) /\ (InIdle(c)' <=> InIdle(c))
    BY <1>6, <1>b, <1>d, DeleteEffect DEF DeleteFromTimerQueue, DeleteTimers, tVars,
       WatchInv
  <2>2. NewInv' /\ CloseInv'
    BY <1>6, <1>b, <2>1 DEF DeleteFromTimerQueue, DeleteTimers, Go, NewInv, CloseInv,
       Closing,
                              SocketTypes, sockVars
  <2>3. IdleInv' /\ ClientInv'
    BY <1>6, <1>b, <2>1 DEF DeleteFromTimerQueue, DeleteTimers, IdleInv, ClientInv, Closing,
                              sockVars, tVars, clockVars
  <2>4. QED
    BY <2>1, <2>2, <2>3
<1>7. ASSUME NEW t \in Closers, NEW to \in {"load", "close", "clear", "park"},
             pc[t] \notin {"none", "del"}, pc' = [pc EXCEPT ![t] = to],
             UNCHANGED <<timerVars, state, pcE, newc, clockVars, tVars, tgt>>
      PROVE  Rest'
  <2>1. QueueInv' /\ \A c : (Timed(c)' <=> Timed(c)) /\ (InIdle(c)' <=> InIdle(c))
    BY <1>7, <1>c, <1>d DEF tVars
  <2>2. NewInv' /\ CloseInv'
    BY <1>7, <1>b, <2>1 DEF NewInv, CloseInv, Closing, SocketTypes
  <2>3. IdleInv' /\ ClientInv'
    BY <1>7, <1>b, <2>1 DEF IdleInv, ClientInv, Closing, tVars, clockVars
  <2>4. QED
    BY <2>1, <2>2, <2>3
<1>8. ASSUME NEW t \in Closers, TestFd(t) PROVE Rest'
  BY <1>7, <1>8 DEF TestFd, Go, sockVars
<1>9. ASSUME NEW t \in Closers, LoadFd(t) PROVE Rest'
  BY <1>7, <1>9 DEF LoadFd, Go, sockVars
<1>10. ASSUME NEW t \in Closers, CloseFd(t) PROVE Rest'
  BY <1>7, <1>10 DEF CloseFd, Go
<1>11. ASSUME NEW t \in Closers, ClearFd(t) PROVE Rest'
  BY <1>7, <1>11 DEF ClearFd, Go
<1>12. ASSUME NEW t \in Closers, Park(t) PROVE Rest'
  <2>1. QueueInv' /\ \A c : (Timed(c)' <=> Timed(c)) /\ (InIdle(c)' <=> InIdle(c))
    BY <1>12, <1>c, <1>d DEF Park, tVars
  <2>2. tgt[t] \in Conns /\ ~Timed(tgt[t]) /\ newc # tgt[t] /\ pc[t] = "park"
    BY <1>12, <1>b DEF Park, Go, NewInv, CloseInv, Closing
  <2>3. NewInv' /\ CloseInv'
    BY <1>12, <1>b, <2>1, <2>2 DEF Park, Go, NewInv, CloseInv, Closing, SocketTypes
  <2>4. IdleInv' /\ ClientInv'
    BY <1>12, <1>b, <2>1, <2>2 DEF Park, Go, IdleInv, ClientInv, Closing, SocketTypes,
       tVars, clockVars
  <2>5. QED
    BY <2>1, <2>3, <2>4
<1>13. ASSUME TLook PROVE Rest'
  <2>1. QueueInv' /\ \A c : (Timed(c)' <=> Timed(c)) /\ (InIdle(c)' <=> InIdle(c))
    BY <1>13, <1>c, <1>d DEF TLook
  <2>2. NewInv' /\ CloseInv'
    BY <1>13, <1>b, <2>1 DEF TLook, NewInv, CloseInv, Closing, sockVars, closeVars
  <2>3. IdleInv' /\ ClientInv'
    BY <1>13, <1>b, <2>1 DEF TLook, IdleInv, ClientInv, Closing, sockVars, closeVars,
       clockVars
  <2>4. QED
    BY <2>1, <2>2, <2>3
<1>14. ASSUME TCollect PROVE Rest'
  <2>1. /\ QueueInv' /\ \A c : (Timed(c)' \/ InIdle(c)') => Timed(c)
        /\ \A c : Timed(c) => Timed(c)' \/ (timeOutKick /\ InIdle(c)')
    BY <1>14, CollectEffect
  <2>2. /\ UNCHANGED <<clockVars, sockVars, pcE, newc, closeVars>>
        /\ pcT = "collect" /\ pcT' = "check" /\ idle = <<>> /\ \A c : ~InIdle(c)
    BY <1>14, <1>b DEF TCollect, CollectDue, IdleInv, InIdle, Listed
  <2>3. NewInv' /\ CloseInv'
    BY <1>b, <2>1, <2>2 DEF NewInv, CloseInv, Closing, sockVars, closeVars
  <2>4. IdleInv' /\ ClientInv'
    BY <1>b, <2>1, <2>2 DEF NewInv, IdleInv, ClientInv, Closing, sockVars, closeVars,
       clockVars
  <2>5. QED
    BY <2>1, <2>3, <2>4
<1>15. ASSUME TCheck PROVE Rest'
  <2>1. PICK c \in Conns :
          /\ c = idle[1]
          /\ IF state[c] = "live" /\ (timeOutKick \/ Silent(c))
             THEN BeginClose("T", c)
             ELSE UNCHANGED closeVars
    BY <1>15 DEF TCheck
  <2>2. InIdle(c) /\ \A d : InIdle(d) <=> d = c \/ InIdle(d)'
    BY <1>15, <1>b, <2>1, TailListed DEF TCheck, InIdle
  <2>3. newc # c /\ state[c] # "unused" /\ pcT = "check" /\ pcT' = pcT
    BY <1>15, <1>b, <2>2 DEF IdleInv, TCheck
  <2>4. ASSUME BeginClose("T", c) PROVE Rest'
    <3>1. "T" \in Closers
      BY DEF Closers
    <3>2. QED
      BY <1>3, <1>15, <2>2, <2>3, <2>4, <3>1 DEF TCheck
  <2>5. ASSUME UNCHANGED closeVars, ~(state[c] = "live" /\ timeOutKick) PROVE Rest'
    <3>1. QueueInv' /\ \A d : Timed(d)' <=> Timed(d)
      BY <1>15, <1>c DEF TCheck
    <3>2. NewInv' /\ CloseInv'
      BY <1>15, <1>b, <2>5, <3>1 DEF TCheck, NewInv, CloseInv, Closing, sockVars, closeVars
    <3>3. IdleInv' /\ ClientInv'
      BY <1>15, <1>b, <2>2, <2>3, <2>5, <3>1
         DEF TCheck, IdleInv, ClientInv, Closing, sockVars, closeVars, clockVars
    <3>4. QED
      BY <3>1, <3>2, <3>3
  <2>6. QED
    BY <2>1, <2>4, <2>5
<1>16. ASSUME TSleep PROVE Rest'
  <2>1. QueueInv' /\ \A c : (Timed(c)' <=> Timed(c)) /\ (InIdle(c)' <=> InIdle(c))
    BY <1>16, <1>c, <1>d DEF TSleep
  <2>2. NewInv' /\ CloseInv'
    BY <1>16, <1>b, <2>1 DEF TSleep, NewInv, CloseInv, Closing, sockVars, closeVars
  <2>3. IdleInv' /\ ClientInv'
    BY <1>16, <1>b, <2>1 DEF TSleep, IdleInv, ClientInv, Closing, sockVars, closeVars,
       clockVars
  <2>4. QED
    BY <2>1, <2>2, <2>3
<1>17. ASSUME \/ \E c \in Conns : Ping(c) \/ STake(c)
              \/ Tick \/ SSend \/ UNCHANGED vars
       PROVE  Rest'
  <2>1. UNCHANGED <<timerVars, timeOutKick, state, pcE, newc, pcT, idle, closeVars>>
    BY <1>17 DEF Ping, STake, Tick, SSend, vars, timerVars, clockVars, sockVars, tVars,
       closeVars
  <2>2. QueueInv' /\ \A c : (Timed(c)' <=> Timed(c)) /\ (InIdle(c)' <=> InIdle(c))
    BY <1>c, <1>d, <2>1
  <2>3. NewInv' /\ CloseInv'
    BY <1>b, <2>1, <2>2 DEF NewInv, CloseInv, Closing, closeVars
  <2>4. IdleInv' /\ ClientInv'
    BY <1>b, <2>1, <2>2 DEF IdleInv, ClientInv, Closing, closeVars
  <2>5. QED
    BY <2>2, <2>3, <2>4
<1>18. Rest'
  BY <1>1, <1>2, <1>4, <1>5, <1>6, <1>8, <1>9, <1>10, <1>11, <1>12, <1>13, <1>14, <1>15,
     <1>16, <1>17 DEF Next, CloseStep
<1>19. TypeOK'
  BY <1>a, TypeStep
<1>20. QED
  BY <1>a, <1>18, <1>19 DEF WatchInv

(* The inductive invariant of the timer queue and of the threads that      *)
(* close connections.                                                      *)
THEOREM WatchInvariant == Spec => []WatchInv
BY InitWatch, WatchStep, PTL DEF Spec

(* Every value the model computes is of its type: m_cur_size_, which is    *)
(* counted down as timers come off, never drops below zero.                *)
THEOREM TypeCorrect == Spec => []TypeOK
<1>1. WatchInv => TypeOK
  BY DEF WatchInv
<1>2. QED
  BY <1>1, WatchInvariant, PTL

(* What T reads without m_timequeueMutex is the size of the queue and the  *)
(* earliest time on it, which is in order.                                 *)
THEOREM EarliestIsKnown == Spec => []EarliestKnown
<1>1. ASSUME WatchInv PROVE EarliestKnown
  <2>1. Len(timers) \in Nat
    BY <1>1 DEF WatchInv, TypeOK
  <2>2. \A i \in 1..Len(timers) - 1 : i \in 1..Len(timers) /\ i + 1 \in 1..Len(timers) /\ i <= i + 1
    BY <2>1
  <2>3. QED
    BY <1>1, <2>2 DEF WatchInv, QueueInv, Ordered, EarliestKnown
<1>2. QED
  BY <1>1, WatchInvariant, PTL

(* Where a connection has one timer at most, counting them tells no more   *)
(* than whether it has one.                                                *)
LEMMA EntriesCount ==
  ASSUME WatchInv, NEW c
  PROVE  Entries(c) = IF Timed(c) THEN 1 ELSE 0
<1> DEFINE S == {i \in 1..Len(timers) : timers[i].conn = c}
<1>1. CASE Timed(c)
  <2>1. PICK i \in 1..Len(timers) : timers[i].conn = c
    BY <1>1 DEF Timed, HasTimer
  <2>2. S = {i}
    BY <2>1 DEF WatchInv, QueueInv, Distinct
  <2>3. QED
    BY <1>1, <2>2, FS_Singleton DEF Entries
<1>2. CASE ~Timed(c)
  <2>1. S = {}
    BY <1>2 DEF Timed, HasTimer
  <2>2. QED
    BY <1>2, <2>1, FS_EmptySet DEF Entries
<1>3. QED
  BY <1>1, <1>2

(* Every client is watched, by exactly one timer or by T, until somebody   *)
(* closes its connection; then no timer of it is left.                     *)
THEOREM EveryClientWatched == Spec => []Watched
<1>1. ASSUME WatchInv PROVE Watched
  BY <1>1, EntriesCount DEF WatchInv, ClientInv, Watched, InIdle, Listed
<1>2. QED
  BY <1>1, WatchInvariant, PTL

-----------------------------------------------------------------------------
(* How late a timer may be.                                                *)

(* The parts of DeadlineInv, with the timers taken one by one.             *)
OnQueue(e) == Old(timers, e)
QueueInTime == \A e : OnQueue(e) => InTime(e)
Fresh(c, e) == OnQueue(e) /\ e.conn = c /\ e.at - lastPing[c] <= 4 * WaitTime + Grace
JustSeen(c) == InIdle(c) /\ now - lastPing[c] <= 4 * WaitTime + Grace + 1
Served(c) == state[c] = "live" /\ newc # c /\ ~Closing(c)
ClientsRecent ==
  ~timeOutKick => \A c \in Conns : Served(c) => JustSeen(c) \/ \E e : Fresh(c, e)

LEMMA DeadlineParts ==
  DeadlineInv <=> WatchInv /\ ClockInv /\ QueueInTime /\ ClientsRecent
<1>1. QueueInTime <=> (\A i \in 1..Len(timers) : InTime(timers[i]))
  BY DEF QueueInTime, OnQueue, Old
<1>2. \A c : Recent(c) <=> JustSeen(c) \/ \E e : Fresh(c, e)
  BY DEF Recent, JustSeen, Fresh, OnQueue, Old
<1>3. QED
  BY <1>1, <1>2 DEF DeadlineInv, ClientsRecent, Served

(* The same of the next state.                                             *)
LEMMA DeadlinePartsNext ==
  ASSUME WatchInv', ClockInv', QueueInTime', ClientsRecent'
  PROVE  DeadlineInv'
<1>1. \A i \in 1..Len(timers') : InTime(timers[i])'
  BY DEF QueueInTime, OnQueue, Old, InTime
<1>2. \A c : Recent(c)' <=> JustSeen(c)' \/ \E e : Fresh(c, e)'
  BY DEF Recent, JustSeen, Fresh, OnQueue, Old
<1>3. QED
  BY <1>1, <1>2 DEF DeadlineInv, ClientsRecent, Served

(* What each of the three operations does to the timers on the queue.      *)
LEMMA AddOnQueue ==
  ASSUME WatchInv, AddToTimerQueue
  PROVE  \A e : OnQueue(e)' <=> OnQueue(e) \/ e = NewEntry(now + WaitTime, newc)
<1>1. /\ timers \in Seq(Entry) /\ now + WaitTime \in Nat /\ newc \in Conns
  BY TimerAssumption DEF WatchInv, TypeOK, NewInv, AddToTimerQueue, Entry, TimerAssumption
<1>2. PICK at \in Nat, cs \in Seq(Conns) :
        at = now + WaitTime /\ cs = <<newc>> /\ Len(cs) = 1 /\ cs[1] = newc
  <2>1. <<newc>> \in Seq(Conns) /\ Len(<<newc>>) = 1 /\ <<newc>>[1] = newc
    BY <1>1
  <2>2. QED
    BY <1>1, <2>1
<1>3. timers' = Insert(timers, at, cs)
  BY <1>2 DEF AddToTimerQueue, SetTimers
<1>4. \A e : Old(timers', e) <=> Old(timers, e) \/ New(at, cs, e)
  BY <1>1, <1>3, InsertMembers
<1>5. \A e : New(at, cs, e) <=> e = NewEntry(at, newc)
  BY <1>2 DEF New
<1>6. QED
  BY <1>2, <1>4, <1>5 DEF OnQueue, Old

LEMMA DeleteOnQueue ==
  ASSUME WatchInv, NEW t \in Closers, DeleteFromTimerQueue(t)
  PROVE  \A e : OnQueue(e)' <=> OnQueue(e) /\ e.conn # tgt[t]
<1>1. timers \in Seq(Entry)
  BY DEF WatchInv, TypeOK, Entry
<1>2. PICK d, r : d = tgt[t] /\ r = Without(timers, d)
  OBVIOUS
<1>3. Kept(timers, d, Len(timers), r)
  BY <1>1, <1>2, WithoutKeeps
<1>4. timers' = r
  BY <1>2 DEF DeleteFromTimerQueue, DeleteTimers, SetTimers
<1>5. \A e : Old(r, e) <=> Old(timers, e) /\ e.conn # d
  BY <1>3 DEF Kept, Old
<1>6. QED
  BY <1>2, <1>4, <1>5 DEF OnQueue, Old

(* The timers that T leaves on the queue are later than its cur_time.      *)
LEMMA RestLater ==
  ASSUME NEW q \in Seq(Entry), NEW at \in Nat, Ordered(q), NEW n \in 0..Len(q), NEW s,
         n = UpperBound(q, at), s = SubSeq(q, n + 1, Len(q))
  PROVE  \A e : Old(s, e) <=> Old(q, e) /\ e.at > at
<1>1. PICK k \in Nat : k = Len(q) /\ n <= k
  OBVIOUS
<1>2. Len(s) = k - n /\ \A i \in 1..k - n : s[i] = q[n + i]
  BY <1>1, SubSeqBehind DEF Behind
<1>3. /\ \A i \in 1..k : q[i].at \in Nat
      /\ \A i \in 1..n : q[i].at <= at
      /\ \A i \in n + 1..k : q[i].at > at
  BY <1>1, EntryTypes, UpperBoundSplits, UpperBoundOrdered
<1>4. ASSUME NEW e, Old(s, e) PROVE Old(q, e) /\ e.at > at
  <2>1. PICK i \in 1..k - n : e = q[n + i]
    BY <1>2, <1>4 DEF Old
  <2>2. n + i \in 1..k /\ n + i \in n + 1..k
    OBVIOUS
  <2>3. QED
    BY <1>1, <1>3, <2>1, <2>2 DEF Old
<1>5. ASSUME NEW e, Old(q, e), e.at > at PROVE Old(s, e)
  <2>1. PICK i \in 1..k : e = q[i]
    BY <1>1, <1>5 DEF Old
  <2>2. ~(i <= n)
    BY <1>3, <1>5, <2>1
  <2>3. PICK j \in 1..k - n : n + j = i
    <3>1. i - n \in 1..k - n /\ n + (i - n) = i
      BY <2>2
    <3>2. QED
      BY <3>1
  <2>4. e = s[j]
    BY <1>2, <2>1, <2>3
  <2>5. QED
    BY <1>2, <2>4 DEF Old
<1>6. QED
  BY <1>4, <1>5

LEMMA CollectOnQueue ==
  ASSUME WatchInv, TCollect
  PROVE  /\ \A e : OnQueue(e)' =>
              \/ OnQueue(e) /\ e.at > curTime /\ ~InIdle(e.conn)'
              \/ ~timeOutKick /\ e.at = curTime + WaitTime
         /\ \A e : OnQueue(e) => OnQueue(e)' \/ (e.at <= curTime /\ InIdle(e.conn)')
<1>1. /\ timers \in Seq(Entry) /\ curTime \in Nat /\ curTime + WaitTime \in Nat
      /\ Ordered(timers) /\ Distinct(timers)
  BY TimerAssumption DEF WatchInv, TypeOK, QueueInv, Entry, TimerAssumption
<1>2. PICK n \in 0..Len(timers) : n = UpperBound(timers, curTime)
  BY <1>1, UpperBoundSplits
<1>3. PICK due, rest : due = Due(timers, n) /\ rest = SubSeq(timers, n + 1, Len(timers))
  OBVIOUS
<1>4. /\ due \in Seq(Conns) /\ rest \in Seq(Entry)
      /\ \A c : Listed(due, c) => ~HasTimer(rest, c)
      /\ \A c : HasTimer(timers, c) <=> HasTimer(rest, c) \/ Listed(due, c)
  <2>1. Parted(timers, n, due, rest)
    BY <1>1, <1>3, DueParts
  <2>2. QED
    BY <2>1 DEF Parted
<1>5. /\ idle' = due
      /\ timeOutKick => timers' = rest
      /\ ~timeOutKick => timers' = Insert(rest, curTime + WaitTime, due)
  BY <1>2, <1>3 DEF TCollect, CollectDue, Due, SetTimers
<1>6. \A c : InIdle(c)' <=> Listed(due, c)
  BY <1>5 DEF InIdle, Listed
<1>7. \A e : Old(rest, e) <=> Old(timers, e) /\ e.at > curTime
  BY <1>1, <1>2, <1>3, RestLater
<1>8. \A e : Old(rest, e) => ~Listed(due, e.conn)
  BY <1>4, OldTimer
<1>9. \A e : Old(timers, e) => Old(rest, e) \/ (e.at <= curTime /\ Listed(due, e.conn))
  <2>1. ASSUME NEW e, Old(timers, e), ~Old(rest, e) PROVE e.at <= curTime /\ Listed(due, e.conn)
    <3>1. e \in Entry
      BY <1>1, <2>1, EntryTypes DEF Old
    <3>2. e.at <= curTime
      BY <1>1, <1>7, <2>1, <3>1 DEF Entry
    <3>3. HasTimer(timers, e.conn)
      BY <2>1, OldTimer
    <3>4. ~HasTimer(rest, e.conn)
      <4>1. SUFFICES ASSUME NEW i \in 1..Len(rest), rest[i].conn = e.conn PROVE FALSE
        BY DEF HasTimer
      <4>2. Old(rest, rest[i]) /\ Old(timers, rest[i])
        BY <1>7 DEF Old
      <4>3. rest[i] = e
        BY <1>1, <2>1, <4>1, <4>2 DEF Old, Distinct
      <4>4. QED
        BY <2>1, <4>2, <4>3
    <3>5. QED
      BY <1>4, <3>2, <3>3, <3>4
  <2>2. QED
    BY <2>1
<1>10. CASE timeOutKick
  <2>1. \A e : OnQueue(e)' <=> Old(rest, e)
    BY <1>5, <1>10 DEF OnQueue, Old
  <2>2. QED
    BY <1>6, <1>7, <1>8, <1>9, <2>1 DEF OnQueue
<1>11. CASE ~timeOutKick
  <2>1. PICK at \in Nat : at = curTime + WaitTime
    BY <1>1
  <2>2. \A e : Old(timers', e) <=> Old(rest, e) \/ New(at, due, e)
    BY <1>4, <1>5, <1>11, <2>1, InsertMembers
  <2>3. \A e : OnQueue(e)' <=> Old(rest, e) \/ New(at, due, e)
    BY <2>2 DEF OnQueue, Old
  <2>4. \A e : New(at, due, e) => e.at = curTime + WaitTime
    BY <2>1 DEF New, NewEntry
  <2>5. QED
    BY <1>6, <1>7, <1>8, <1>9, <1>11, <2>3, <2>4 DEF OnQueue
<1>12. QED
  BY <1>10, <1>11

(* The types of a timer on the queue.                                      *)
LEMMA EntriesTyped ==
  ASSUME WatchInv, NEW e, OnQueue(e)
  PROVE  e \in Entry /\ e.at \in Nat /\ e.conn \in Conns
<1>1. timers \in Seq(Entry)
  BY DEF WatchInv, TypeOK, Entry
<1>2. QED
  BY <1>1, EntryTypes DEF OnQueue, Old

(* A step that moves neither the clock nor T nor a timer.                  *)
LEMMA SameTime ==
  ASSUME QueueInTime, UNCHANGED <<now, looked, pcT, timers, idle>>
  PROVE  QueueInTime'
BY DEF QueueInTime, InTime, InIdle, Listed, OnQueue, Old

(* And one that leaves a client its ping, and its timer.                   *)
LEMMA SameSeen ==
  ASSUME UNCHANGED <<now, timers, idle>>, NEW c \in Conns, lastPing'[c] = lastPing[c]
  PROVE  /\ JustSeen(c) => JustSeen(c)'
         /\ \A e : Fresh(c, e) => Fresh(c, e)'
BY DEF JustSeen, Fresh, InIdle, Listed, OnQueue, Old

(* And one after which no more clients are served.                         *)
LEMMA SameClients ==
  ASSUME ClientsRecent, UNCHANGED <<timeOutKick, now, timers, idle, lastPing>>,
         \A c \in Conns : Served(c)' => Served(c)
  PROVE  ClientsRecent'
<1>1. \A c \in Conns : (JustSeen(c) \/ \E e : Fresh(c, e)) =>
                         JustSeen(c)' \/ \E e : Fresh(c, e)'
  BY SameSeen
<1>2. QED
  BY <1>1 DEF ClientsRecent

(* At first there is no timer that could be late.                          *)
LEMMA InitDeadline == Init => DeadlineInv
<1> SUFFICES ASSUME Init PROVE DeadlineInv
  OBVIOUS
<1>1. WatchInv
  BY InitWatch
<1>2. timers = <<>> /\ Len(<<>>) = 0 /\ 1..0 = {}
  BY DEF Init
<1>3. ClockInv
  BY TimerAssumption DEF Init, ClockInv, TimerAssumption
<1>4. \A i \in 1..Len(timers) : InTime(timers[i])
  BY <1>2
<1>5. \A c \in Conns : state[c] # "live"
  BY DEF Init
<1>6. QED
  BY <1>1, <1>3, <1>4, <1>5 DEF DeadlineInv

(* A step makes no timer late.                                             *)
LEMMA DeadlineStep == DeadlineInv /\ [Next]_vars => DeadlineInv'
<1> SUFFICES ASSUME DeadlineInv, [Next]_vars PROVE DeadlineInv'
  OBVIOUS
<1> DEFINE Rest == ClockInv /\ QueueInTime /\ ClientsRecent
<1>a. WatchInv /\ WatchInv'
  BY WatchStep DEF DeadlineInv
<1>b. ClockInv /\ QueueInTime /\ ClientsRecent
  BY DeadlineParts
<1>c. /\ now \in Nat /\ lastPing \in [Conns -> Nat] /\ WaitTime \in Nat \ {0} /\ Grace \in Nat
      /\ NoConn \notin Conns /\ newc \in Conns \cup {NoConn} /\ idle \in Seq(Conns)
      /\ pcT \in {"sleep", "collect", "check"}
      /\ SocketTypes /\ NewInv /\ CloseInv /\ IdleInv /\ ClientInv
  BY <1>a, TimerAssumption DEF WatchInv, TypeOK, TimerAssumption
<1>d. ASSUME UNCHANGED <<timeOutKick, now, timers, idle, lastPing, looked, pcT, curTime>>,
             \A c \in Conns : newc' = c => newc = c \/ lastPing[c] = now,
             \A c \in Conns : Served(c)' => Served(c)
      PROVE  Rest'
  BY <1>b, <1>d, SameTime, SameClients DEF ClockInv
<1>1. ASSUME NEW c \in Conns, Accept(c) PROVE Rest'
  <2>1. UNCHANGED <<timeOutKick, now, timers, idle, looked, pcT, curTime>>
    BY <1>1 DEF Accept, clockVars, timerVars, tVars
  <2>2. lastPing'[c] = now /\ newc' = c /\ \A d \in Conns : d # c => lastPing'[d] = lastPing[d]
    BY <1>1, <1>c DEF Accept
  <2>3. ClockInv'
    BY <1>b, <1>c, <2>1, <2>2 DEF ClockInv
  <2>4. QueueInTime'
    BY <1>b, <2>1, SameTime
  <2>5. \A d \in Conns : Served(d)' => Served(d) /\ d # c
    BY <1>1, <1>c, <2>2 DEF Accept, Served, Closing, closeVars, SocketTypes, NewInv
  <2>6. \A d \in Conns : d # c /\ (JustSeen(d) \/ \E e : Fresh(d, e)) =>
                           JustSeen(d)' \/ \E e : Fresh(d, e)'
    BY <2>1, <2>2, SameSeen
  <2>7. ClientsRecent'
    BY <1>b, <2>1, <2>5, <2>6 DEF ClientsRecent
  <2>8. QED
    BY <2>3, <2>4, <2>7
<1>2. ASSUME AddToTimerQueue PROVE Rest'
  <2>1. /\ UNCHANGED <<timeOutKick, now, idle, lastPing, looked, pcT, curTime, state, tgt>>
        /\ newc \in Conns /\ newc' = NoConn
    BY <1>2, <1>c DEF AddToTimerQueue, clockVars, tVars, sockVars, closeVars, NewInv
  <2>2. \A e : OnQueue(e)' <=> OnQueue(e) \/ e = NewEntry(now + WaitTime, newc)
    BY <1>2, <1>a, AddOnQueue
  <2>3. ClockInv'
    BY <1>b, <1>c, <2>1 DEF ClockInv
  <2>4. PICK k, e : k \in Conns /\ k = newc /\ e = NewEntry(now + WaitTime, k)
    BY <2>1
  <2>5. e.at = now + WaitTime /\ e.conn = k
    BY <2>4 DEF NewEntry
  <2>6. InTime(e)'
    BY <1>c, <2>1, <2>5 DEF InTime
  <2>7. QueueInTime'
    BY <1>b, <2>1, <2>2, <2>4, <2>6 DEF QueueInTime, InTime, InIdle, Listed
  <2>8. Fresh(k, e)'
    <3>1. e.at - lastPing[k] <= 4 * WaitTime + Grace
      BY <1>b, <1>c, <2>4, <2>5 DEF ClockInv
    <3>2. QED
      BY <2>1, <2>2, <2>4, <2>5, <3>1 DEF Fresh
  <2>9. ASSUME NEW c \in Conns, Served(c)', ~timeOutKick
        PROVE  JustSeen(c)' \/ \E d : Fresh(c, d)'
    <3>1. CASE c = k
      BY <2>8, <3>1
    <3>2. CASE c # k
      <4>1. JustSeen(c) \/ \E d : Fresh(c, d)
        BY <1>b, <2>1, <2>4, <2>9, <3>2 DEF ClientsRecent, Served, Closing
      <4>2. QED
        BY <2>1, <2>2, <4>1 DEF JustSeen, Fresh, InIdle, Listed
    <3>3. QED
      BY <3>1, <3>2
  <2>10. QED
    BY <2>1, <2>3, <2>7, <2>9 DEF ClientsRecent
<1>3. ASSUME NEW c \in Conns, ReadClosed(c) \/ CutOff(c) PROVE Rest'
  <2>1. /\ UNCHANGED <<timeOutKick, now, timers, idle, lastPing, looked, pcT, curTime, newc>>
        /\ state' = state /\ \E t \in Closers : BeginClose(t, c)
    BY <1>3 DEF ReadClosed, CutOff, clockVars, timerVars, tVars, sockVars, Closers
  <2>2. \A d \in Conns : Closing(d) => Closing(d)'
    BY <1>c, <2>1 DEF Closing, BeginClose, SocketTypes, CloseInv
  <2>3. QED
    BY <1>d, <2>1, <2>2 DEF Served
<1>4. ASSUME NEW t \in Closers, DeleteFromTimerQueue(t) PROVE Rest'
  <2>1. UNCHANGED <<timeOutKick, now, idle, lastPing, looked, pcT, curTime, state, tgt, newc>>
    BY <1>4 DEF DeleteFromTimerQueue, DeleteTimers, clockVars, tVars, sockVars
  <2>2. \A e : OnQueue(e)' <=> OnQueue(e) /\ e.conn # tgt[t]
    BY <1>4, <1>a, DeleteOnQueue
  <2>3. ClockInv'
    BY <1>b, <2>1 DEF ClockInv
  <2>4. QueueInTime'
    BY <1>b, <2>1, <2>2 DEF QueueInTime, InTime, InIdle, Listed
  <2>5. ASSUME NEW c \in Conns, Served(c)', ~timeOutKick
        PROVE  JustSeen(c)' \/ \E e : Fresh(c, e)'
    <3>1. JustSeen(c) \/ \E e : Fresh(c, e)
      BY <1>b, <2>1, <2>5 DEF ClientsRecent, Served, Closing
    <3>2. c # tgt[t]
      BY <2>1, <2>5 DEF Served, Closing
    <3>3. QED
      BY <2>1, <2>2, <3>1, <3>2 DEF JustSeen, Fresh, InIdle, Listed
  <2>6. QED
    BY <2>1, <2>3, <2>4, <2>5 DEF ClientsRecent
<1>5. ASSUME NEW t \in Closers, TestFd(t) \/ LoadFd(t) \/ CloseFd(t) \/ ClearFd(t) \/ Park(t)
      PROVE  Rest'
  <2>1. /\ UNCHANGED <<timeOutKick, now, timers, idle, lastPing, looked, pcT, curTime, newc>>
        /\ \A c \in Conns : state'[c] = "live" /\ ~Closing(c)' => state[c] = "live" /\ ~Closing(c)
    <3>1. CASE Park(t)
      BY <1>c, <3>1 DEF Park, Closing, SocketTypes, clockVars, timerVars, tVars
    <3>2. CASE ~Park(t)
      BY <1>5, <3>2 DEF TestFd, LoadFd, CloseFd, ClearFd, Closing, clockVars, timerVars,
         tVars,
                       sockVars
    <3>3. QED
      BY <3>1, <3>2
  <2>2. QED
    BY <1>d, <2>1 DEF Served
<1>6. ASSUME TLook PROVE Rest'
  <2>1. /\ UNCHANGED <<timeOutKick, now, timers, idle, lastPing, state, tgt, newc>>
        /\ looked' /\ curTime' = now
    BY <1>6 DEF TLook, clockVars, timerVars, sockVars, closeVars
  <2>2. ClockInv'
    BY <1>b, <2>1 DEF ClockInv
  <2>3. ASSUME NEW e, OnQueue(e), pcT' # "collect" PROVE e.at >= now
    <3>1. timers \in Seq(Entry) /\ e.at \in Nat
      BY <1>a, <2>3, EntriesTyped DEF WatchInv, TypeOK, Entry
    <3>2. PICK i \in 1..Len(timers) : e = timers[i]
      BY <2>3 DEF OnQueue, Old
    <3>3. 1 \in 1..Len(timers) /\ 1 <= i /\ Len(timers) > 0 /\ timers # <<>>
      BY <3>1
    <3>4. timers[1].at <= e.at /\ timers[1].at \in Nat
      BY <1>a, <3>1, <3>2, <3>3, EntryTypes DEF WatchInv, QueueInv, Ordered
    <3>5. ~(timers[1].at < now)
      BY <1>6, <1>a, <2>3, <3>3 DEF TLook, WatchInv, QueueInv
    <3>6. QED
      BY <1>c, <3>1, <3>4, <3>5
  <2>4. \A e : ~InIdle(e)'
    BY <1>6, <1>c DEF TLook, IdleInv, InIdle, Listed
  <2>5. QueueInTime'
    BY <1>b, <2>1, <2>3, <2>4 DEF QueueInTime, InTime, OnQueue, Old
  <2>6. ClientsRecent'
    BY <1>b, <2>1, SameClients DEF Served, Closing
  <2>7. QED
    BY <2>2, <2>5, <2>6
<1>7. ASSUME TCollect PROVE Rest'
  <2>1. /\ UNCHANGED <<timeOutKick, now, lastPing, state, tgt, newc, curTime, looked>>
        /\ pcT = "collect" /\ pcT' = "check" /\ curTime = now /\ idle = <<>>
    BY <1>7, <1>b, <1>c DEF TCollect, CollectDue, clockVars, sockVars, closeVars,
       ClockInv, IdleInv
  <2>2. \A c : ~InIdle(c)
    BY <2>1 DEF InIdle, Listed
  <2>3. \A e : OnQueue(e)' =>
           \/ OnQueue(e) /\ e.at > now /\ ~InIdle(e.conn)'
           \/ ~timeOutKick /\ e.at = now + WaitTime
    BY <1>7, <1>a, <2>1, CollectOnQueue
  <2>4. \A e : OnQueue(e) => OnQueue(e)' \/ (e.at <= now /\ InIdle(e.conn)')
    BY <1>7, <1>a, <2>1, CollectOnQueue
  <2>5. ClockInv'
    BY <1>b, <2>1 DEF ClockInv
  <2>6. ASSUME NEW e, OnQueue(e)' PROVE InTime(e)'
    <3>1. CASE OnQueue(e) /\ e.at > now /\ ~InIdle(e.conn)'
      <4>1. e.at \in now - 1..now + WaitTime /\ e.at >= now
        BY <1>b, <1>c, <3>1 DEF QueueInTime, InTime
      <4>2. QED
        BY <2>1, <3>1, <4>1 DEF InTime
    <3>2. CASE e.at = now + WaitTime
      <4>1. e.at \in now - 1..now + WaitTime /\ e.at >= now
        BY <1>c, <3>2
      <4>2. QED
        BY <2>1, <3>2, <4>1 DEF InTime
    <3>3. QED
      BY <2>3, <2>6, <3>1, <3>2
  <2>7. ASSUME NEW c \in Conns, Served(c)', ~timeOutKick
        PROVE  JustSeen(c)' \/ \E e : Fresh(c, e)'
    <3>1. PICK e : Fresh(c, e)
      BY <1>b, <2>1, <2>2, <2>7 DEF ClientsRecent, Served, Closing, JustSeen
    <3>2. CASE OnQueue(e)'
      BY <2>1, <3>1, <3>2 DEF Fresh
    <3>3. CASE e.at <= now /\ InIdle(c)'
      <4>1. e.at >= now - 1 /\ e.at \in Int
        BY <1>b, <3>1 DEF QueueInTime, InTime, Fresh
      <4>2. now - lastPing[c] <= 4 * WaitTime + Grace + 1
        BY <1>c, <3>1, <4>1 DEF Fresh
      <4>3. QED
        BY <2>1, <3>3, <4>2 DEF JustSeen
    <3>4. QED
      BY <2>4, <3>1, <3>2, <3>3 DEF Fresh
  <2>8. QED
    BY <2>1, <2>5, <2>6, <2>7 DEF ClientsRecent, QueueInTime
<1>8. ASSUME TCheck PROVE Rest'
  <2>1. PICK c \in Conns :
          /\ c = idle[1]
          /\ IF state[c] = "live" /\ (timeOutKick \/ Silent(c))
             THEN BeginClose("T", c)
             ELSE UNCHANGED closeVars
    BY <1>8 DEF TCheck
  <2>2. /\ UNCHANGED <<timeOutKick, now, timers, lastPing, looked, pcT, curTime, state, newc>>
        /\ curTime = now
    BY <1>8, <1>b DEF TCheck, clockVars, timerVars, sockVars, ClockInv
  <2>3. InIdle(c) /\ \A d : InIdle(d) <=> d = c \/ InIdle(d)'
    BY <1>8, <1>c, <2>1, TailListed DEF TCheck, InIdle
  <2>4. \A d \in Conns : Closing(d) => Closing(d)'
    <3>1. CASE BeginClose("T", c)
      BY <1>c, <3>1 DEF Closing, BeginClose, SocketTypes, CloseInv, Closers
    <3>2. CASE UNCHANGED closeVars
      BY <3>2 DEF Closing, closeVars
    <3>3. QED
      BY <2>1, <3>1, <3>2
  <2>5. ClockInv'
    BY <1>b, <2>2 DEF ClockInv
  <2>6. QueueInTime'
    BY <1>b, <2>2, <2>3 DEF QueueInTime, InTime, OnQueue, Old
  <2>7. ASSUME NEW d \in Conns, Served(d)', ~timeOutKick
        PROVE  JustSeen(d)' \/ \E e : Fresh(d, e)'
    <3>1. Served(d) /\ (JustSeen(d) \/ \E e : Fresh(d, e))
      BY <1>b, <2>2, <2>4, <2>7 DEF ClientsRecent, Served
    <3>2. \A e : Fresh(d, e) => Fresh(d, e)'
      BY <2>2 DEF Fresh, OnQueue, Old
    <3>3. CASE d # c
      BY <2>2, <2>3, <3>1, <3>2, <3>3 DEF JustSeen
    <3>4. CASE d = c
      <4>1. ~BeginClose("T", c)
        BY <1>c, <2>7, <3>4 DEF BeginClose, Served, Closing, SocketTypes, Closers
      <4>2. ~Silent(c)
        BY <2>1, <3>1, <3>4, <4>1 DEF Served
      <4>3. now - lastPing[c] <= 3 * WaitTime + Grace
        BY <1>c, <2>2, <4>2 DEF Silent
      <4>4. PICK e : OnQueue(e) /\ e.conn = c
        <5>1. Timed(c)
          BY <1>c, <2>7, <3>1, <3>4 DEF ClientInv, Served
        <5>2. QED
          BY <5>1 DEF Timed, HasTimer, OnQueue, Old
      <4>5. e.at = now + WaitTime
        BY <1>b, <2>3, <4>4 DEF QueueInTime, InTime
      <4>6. e.at - lastPing[c] <= 4 * WaitTime + Grace
        BY <1>c, <4>3, <4>5
      <4>7. Fresh(c, e)
        BY <4>4, <4>6 DEF Fresh
      <4>8. QED
        BY <3>2, <3>4, <4>7
    <3>5. QED
      BY <3>3, <3>4
  <2>8. QED
    BY <2>2, <2>5, <2>6, <2>7 DEF ClientsRecent
<1>9. ASSUME TSleep PROVE Rest'
  <2>1. /\ UNCHANGED <<timeOutKick, now, timers, idle, lastPing, looked, curTime, state, tgt, newc>>
        /\ pcT = "check" /\ pcT' = "sleep"
    BY <1>9 DEF TSleep, clockVars, timerVars, sockVars, closeVars
  <2>2. ClockInv'
    BY <1>b, <2>1 DEF ClockInv
  <2>3. QueueInTime'
    BY <1>b, <2>1 DEF QueueInTime, InTime, InIdle, Listed, OnQueue, Old
  <2>4. ClientsRecent'
    BY <1>b, <2>1, SameClients DEF Served, Closing
  <2>5. QED
    BY <2>2, <2>3, <2>4
<1>10. ASSUME NEW c \in Conns, Ping(c) PROVE Rest'
  <2>1. /\ UNCHANGED <<timeOutKick, now, timers, idle, looked, pcT, curTime, state, tgt, newc>>
        /\ lastPing'[c] = now /\ \A d \in Conns : d # c => lastPing'[d] = lastPing[d]
    BY <1>10, <1>c DEF Ping, clockVars, timerVars, tVars, closeVars
  <2>2. ClockInv'
    BY <1>10, <1>b, <1>c, <2>1 DEF ClockInv
  <2>3. QueueInTime'
    BY <1>b, <2>1, SameTime
  <2>4. ASSUME NEW d \in Conns, Served(d)', ~timeOutKick
        PROVE  JustSeen(d)' \/ \E e : Fresh(d, e)'
    <3>1. JustSeen(d) \/ \E e : Fresh(d, e)
      BY <1>b, <2>1, <2>4 DEF ClientsRecent, Served, Closing
    <3>2. PICK n \in Nat : n = lastPing'[d] /\ lastPing[d] <= n /\ lastPing[d] \in Nat
      BY <1>b, <1>c, <2>1 DEF ClockInv
    <3>3. JustSeen(d) => JustSeen(d)'
      <4>1. now - lastPing[d] <= 4 * WaitTime + Grace + 1 => now - n <= 4 * WaitTime + Grace + 1
        BY <1>c, <3>2
      <4>2. QED
        BY <2>1, <3>2, <4>1 DEF JustSeen, InIdle, Listed
    <3>4. \A e : Fresh(d, e) => Fresh(d, e)'
      <4>1. ASSUME NEW e, Fresh(d, e) PROVE e.at - n <= 4 * WaitTime + Grace
        <5>1. e.at \in Nat /\ e.at - lastPing[d] <= 4 * WaitTime + Grace
          BY <1>a, <4>1, EntriesTyped DEF Fresh
        <5>2. QED
          BY <1>c, <3>2, <5>1
      <4>2. QED
        BY <2>1, <3>2, <4>1 DEF Fresh, OnQueue, Old
    <3>5. QED
      BY <3>1, <3>3, <3>4
  <2>5. QED
    BY <2>1, <2>2, <2>3, <2>4 DEF ClientsRecent
<1>11. ASSUME Tick PROVE Rest'
  <2>1. /\ UNCHANGED <<timeOutKick, timers, idle, lastPing, pcT, state, tgt, newc>>
        /\ looked /\ ~looked' /\ pcT = "sleep" /\ newc = NoConn /\ idle = <<>>
    BY <1>11, <1>c DEF Tick, timerVars, sockVars, closeVars, NewInv, IdleInv
  <2>2. PICK m \in Nat : m = now + 1 /\ now' = m
    BY <1>11, <1>c DEF Tick
  <2>3. \A c : ~InIdle(c) /\ ~InIdle(c)'
    BY <2>1 DEF InIdle, Listed
  <2>4. ClockInv'
    <3>1. \A c \in Conns : lastPing[c] <= m
      BY <1>b, <1>c, <2>2 DEF ClockInv
    <3>2. QED
      BY <1>c, <2>1, <2>2, <3>1 DEF ClockInv
  <2>5. ASSUME NEW e, OnQueue(e) PROVE e.at \in m - 1..m + WaitTime
    <3>1. e.at \in now - 1..now + WaitTime /\ e.at >= now
      BY <1>b, <2>1, <2>5 DEF QueueInTime, InTime
    <3>2. QED
      BY <1>c, <2>2, <3>1
  <2>6. QueueInTime'
    BY <2>1, <2>2, <2>3, <2>5 DEF QueueInTime, InTime, OnQueue, Old
  <2>7. ClientsRecent'
    BY <1>b, <2>1, <2>3 DEF ClientsRecent, Served, Closing, JustSeen, Fresh, OnQueue, Old
  <2>8. QED
    BY <2>4, <2>6, <2>7
<1>12. ASSUME (\E c \in Conns : STake(c)) \/ SSend \/ UNCHANGED vars PROVE Rest'
  <2>1. UNCHANGED <<timeOutKick, now, timers, idle, lastPing, looked, pcT, curTime, state, tgt, newc>>
    BY <1>12 DEF STake, SSend, vars, clockVars, timerVars, sockVars, tVars, closeVars
  <2>2. QED
    BY <1>d, <2>1 DEF Served, Closing
<1>13. Rest'
  BY <1>1, <1>2, <1>3, <1>4, <1>5, <1>6, <1>7, <1>8, <1>9, <1>10, <1>11, <1>12
     DEF Next, CloseStep
<1>14. QED
  BY <1>13, <1>a, DeadlinePartsNext

(* T looks in every second, and the timer of a client stands for a ping    *)
(* that was recent enough.                                                 *)
THEOREM DeadlineInvariant == Spec => []DeadlineInv
BY InitDeadline, DeadlineStep, PTL DEF Spec

(* A client that sends no ping is closed within the limit, one interval    *)
(* and a second, however many clients there are.                           *)
THEOREM SilentClosed == Spec => []KickDeadline
<1>1. ASSUME DeadlineInv PROVE KickDeadline
  <2>1. SUFFICES ASSUME ~timeOutKick, NEW c \in Conns, Served(c)
                 PROVE  now - lastPing[c] <= 3 * WaitTime + Grace + WaitTime + 1
    BY DEF KickDeadline, Served
  <2>2. /\ now \in Nat /\ lastPing[c] \in Nat /\ WaitTime \in Nat /\ Grace \in Nat
        /\ WatchInv /\ QueueInTime
    BY <1>1, TimerAssumption, DeadlineParts DEF WatchInv, TypeOK, TimerAssumption
  <2>3. JustSeen(c) \/ \E e : Fresh(c, e)
    BY <1>1, <2>1, DeadlineParts DEF ClientsRecent
  <2>4. CASE JustSeen(c)
    BY <2>2, <2>4 DEF JustSeen
  <2>5. ASSUME NEW e, Fresh(c, e) PROVE now - lastPing[c] <= 3 * WaitTime + Grace + WaitTime + 1
    <3>1. e.at \in Nat /\ e.at >= now - 1 /\ e.at - lastPing[c] <= 4 * WaitTime + Grace
      BY <2>2, <2>5, EntriesTyped DEF QueueInTime, InTime, Fresh
    <3>2. QED
      BY <2>2, <3>1
  <2>6. QED
    BY <2>3, <2>4, <2>5
<1>2. QED
  BY <1>1, DeadlineInvariant, PTL

=============================================================================
