-------------------------- MODULE Outbox_proofs --------------------------
(***************************************************************************)
(* The outbox for a saved server, for any number of messages, sessions and *)
(* connections that drop, and whatever goes wrong: a held message is kept, *)
(* messages of a session arrive in order, one that its user removed is not *)
(* sent, and none is sent twice.                                           *)
(*                                                                         *)
(* The proof speaks of the outbox and its file as sets of entries, told    *)
(* apart and ordered by their ids.  The invariant has layers.  Types are   *)
(* the types.  Lines says whose each request on a connection is.  Lists    *)
(* says that outbox and file hold a message once, and only one that was    *)
(* taken from its user.  Picked ties the entry being delivered to its      *)
(* worker, also after it went with its session.  On these rest Kept, and   *)
(* on Kept Orderly; Doubtless, and on Doubtless OnceOnly.                  *)
(***************************************************************************)
EXTENDS Outbox, SequenceTheorems, FiniteSetTheorems, WellFoundedInduction, TLAPS

-----------------------------------------------------------------------------
(* Sequences *)

\* A set of numbers that is not empty has a smallest one.
LEMMA Smallest ==
  ASSUME NEW T \in SUBSET Nat, T # {}
  PROVE  \E x \in T : \A y \in T : x <= y
  <1>1. PICK x \in T : \A y \in T : ~ (<<y, x>> \in OpToRel(<, Nat))
    BY NatLessThanWellFounded, WFMin, Zenon
  <1>2. ASSUME NEW y \in T
        PROVE  x <= y
    <2>1. ~(y < x)
      BY <1>1 DEF OpToRel
    <2> QED
      BY <2>1
  <1> QED
    BY <1>2

\* Keep has of a sequence the members that are in K, in their order.
LEMMA KeepIs ==
  ASSUME NEW S, NEW o \in Seq(S), NEW K
  PROVE  /\ Keep(o, K) \in Seq(S)
         /\ Range(Keep(o, K)) = Range(o) \cap K
         /\ \A i, j \in DOMAIN Keep(o, K) : i < j =>
              \E a, b \in DOMAIN o :
                a < b /\ Keep(o, K)[i] = o[a] /\ Keep(o, K)[j] = o[b]
  <1> DEFINE L == Len(o)
             step(f, n) == IF n = 0 THEN <<>>
                           ELSE IF o[n] \in K THEN Append(f[n - 1], o[n])
                                              ELSE f[n - 1]
  <1>1. L \in Nat /\ DOMAIN o = 1..L /\ \A n \in 1..L : o[n] \in S
    BY LenProperties, ElementOfSeq
  <1> HIDE DEF L
  <1>2. ASSUME NEW f \in [0..L -> Seq(S)], NEW n \in 0..L
        PROVE  step(f, n) \in Seq(S)
    <2>1. CASE n = 0
      BY <2>1
    <2>2. CASE n # 0
      <3>1. n - 1 \in 0..L /\ n \in 1..L
        BY <1>1, <2>2
      <3>2. f[n - 1] \in Seq(S) /\ o[n] \in S
        BY <1>1, <3>1
      <3>3. Append(f[n - 1], o[n]) \in Seq(S)
        BY <3>2, AppendProperties
      <3> QED
        BY <2>2, <3>2, <3>3
    <2> QED
      BY <2>1, <2>2
  <1> DEFINE Good(n) == \E f \in [0..L -> Seq(S)] :
                          \A k \in 0..n : f[k] = step(f, k)
             Bad == {n \in 0..L : ~Good(n)}
  <1>3. Bad = {}
    <2> SUFFICES ASSUME Bad # {}
                 PROVE  FALSE
      OBVIOUS
    <2>1. Bad \in SUBSET Nat
      BY <1>1
    <2>2. PICK x \in Bad : \A y \in Bad : x <= y
      <3> HIDE DEF Bad
      <3> QED
        BY <2>1, Smallest
    <2>3. x \in 0..L /\ ~Good(x)
      BY <2>2
    <2>4. x # 0
      <3> SUFFICES ASSUME x = 0
                   PROVE  FALSE
        OBVIOUS
      <3> DEFINE f == [k \in 0..L |-> <<>>]
      <3>1. f \in [0..L -> Seq(S)]
        BY EmptySeq
      <3>2. \A k \in 0..0 : f[k] = step(f, k)
        BY <1>1
      <3> HIDE DEF f, step
      <3> QED
        BY <2>3, <3>1, <3>2
    <2>5. x - 1 \in 0..L /\ x - 1 \notin Bad
      <3>1. x - 1 \in 0..L /\ ~(x <= x - 1)
        BY <1>1, <2>3, <2>4
      <3> HIDE DEF Bad
      <3> QED
        BY <2>2, <3>1
    <2>6. Good(x - 1)
      <3> HIDE DEF Good
      <3> QED
        BY <2>5
    <2>7. PICK f \in [0..L -> Seq(S)] : \A k \in 0..(x - 1) : f[k] = step(f, k)
      <3> HIDE DEF step
      <3> QED
        BY <2>6
    <2> DEFINE g == [f EXCEPT ![x] = step(f, x)]
    <2>8. g \in [0..L -> Seq(S)]
      <3>1. step(f, x) \in Seq(S)
        BY <1>2, <2>3
      <3> HIDE DEF step
      <3> QED
        BY <2>3, <3>1
    <2>9. ASSUME NEW k \in 0..x
          PROVE  g[k] = step(g, k)
      <3>1. k \in 0..L /\ x \in 0..L
        BY <1>1, <2>3
      <3>2. CASE k = x
        <4>1. g[k] = step(f, k)
          <5> HIDE DEF step
          <5> QED
            BY <3>1, <3>2
        <4>2. k # 0 /\ k - 1 \in 0..L /\ k - 1 # x
          BY <2>4, <3>1, <3>2, <1>1
        <4>3. g[k - 1] = f[k - 1]
          <5> HIDE DEF step
          <5> QED
            BY <4>2
        <4> HIDE DEF g
        <4> QED
          BY <4>1, <4>2, <4>3
      <3>3. CASE k # x
        <4>1. k \in 0..(x - 1)
          BY <3>1, <3>3, <1>1
        <4>2. g[k] = f[k] /\ (k # 0 => g[k - 1] = f[k - 1])
          <5>1. k # 0 => k - 1 \in 0..L /\ k - 1 # x
            BY <4>1, <3>1, <1>1
          <5> HIDE DEF step
          <5> QED
            BY <3>1, <3>3, <5>1
        <4>3. f[k] = step(f, k)
          BY <2>7, <4>1
        <4> HIDE DEF g
        <4> QED
          BY <4>2, <4>3
      <3> QED
        BY <3>2, <3>3
    <2>10. Good(x)
      <3> HIDE DEF g, step
      <3> QED
        BY <2>8, <2>9
    <2> QED
      BY <2>3, <2>10
  <1> DEFINE Fits(f) == f = [n \in 0..L |-> step(f, n)]
             kept == CHOOSE f : Fits(f)
  <1>4. Fits(kept)
    <2>1. Good(L)
      <3>1. L \in 0..L
        BY <1>1
      <3> HIDE DEF Good
      <3> QED
        BY <1>3, <3>1
    <2>2. PICK f \in [0..L -> Seq(S)] : \A k \in 0..L : f[k] = step(f, k)
      <3> HIDE DEF step
      <3> QED
        BY <2>1
    <2>3. Fits(f)
      <3> HIDE DEF step
      <3> QED
        BY <2>2
    <2> HIDE DEF Fits
    <2> QED
      BY <2>3
  <1>5. Keep(o, K) = kept[L]
    BY DEF Keep, L
  <1> HIDE DEF kept
  <1> DEFINE Fine(n) ==
               /\ kept[n] \in Seq(S)
               /\ \A i \in DOMAIN kept[n] :
                    kept[n][i] \in K /\ \E a \in 1..n : kept[n][i] = o[a]
               /\ \A a \in 1..n : o[a] \in K =>
                    \E i \in DOMAIN kept[n] : kept[n][i] = o[a]
               /\ \A i, j \in DOMAIN kept[n] : i < j =>
                    \E a, b \in 1..n :
                      a < b /\ kept[n][i] = o[a] /\ kept[n][j] = o[b]
             Wrong == {n \in 0..L : ~Fine(n)}
  <1>6. ASSUME NEW n \in 0..L
        PROVE  kept[n] = step(kept, n)
    <2> HIDE DEF step
    <2> QED
      BY <1>4
  <1>7. Fine(0)
    <2>1. kept[0] = <<>>
      BY <1>1, <1>6
    <2> QED
      BY <2>1, EmptySeq
  <1>8. ASSUME NEW n \in 1..L, Fine(n - 1)
        PROVE  Fine(n)
    <2> DEFINE p == kept[n - 1]
    <2>1. n \in 0..L /\ n # 0 /\ n \in Nat /\ 1..n = (1..(n - 1)) \cup {n}
      BY <1>1
    <2>2. CASE o[n] \in K
      <3>1. kept[n] = Append(p, o[n])
        BY <1>6, <2>1, <2>2
      <3>2. /\ kept[n] \in Seq(S)
            /\ Len(p) \in Nat /\ DOMAIN p = 1..Len(p)
            /\ DOMAIN kept[n] = 1..(Len(p) + 1)
            /\ kept[n][Len(p) + 1] = o[n]
            /\ \A i \in 1..Len(p) : kept[n][i] = p[i]
        <4>1. p \in Seq(S) /\ o[n] \in S
          BY <1>1, <1>8
        <4> HIDE DEF p
        <4>2. DOMAIN p = 1..Len(p) /\ Len(p) \in Nat
          BY <4>1, LenProperties
        <4> QED
          BY <3>1, <4>1, <4>2, AppendProperties
      <3>3. ASSUME NEW i \in DOMAIN kept[n]
            PROVE  \/ i \in DOMAIN p /\ kept[n][i] = p[i]
                   \/ i = Len(p) + 1 /\ kept[n][i] = o[n]
        BY <3>2
      <3>4. ASSUME NEW i \in DOMAIN p
            PROVE  p[i] \in K /\ \E a \in 1..(n - 1) : p[i] = o[a]
        BY <1>8
      <3>5. ASSUME NEW a \in 1..(n - 1), o[a] \in K
            PROVE  \E i \in DOMAIN p : p[i] = o[a]
        BY <1>8, <3>5
      <3>6. ASSUME NEW i \in DOMAIN p, NEW j \in DOMAIN p, i < j
            PROVE  \E a, b \in 1..(n - 1) :
                      a < b /\ p[i] = o[a] /\ p[j] = o[b]
        BY <1>8, <3>6
      <3> HIDE DEF p
      <3>7. ASSUME NEW i \in DOMAIN kept[n]
            PROVE  kept[n][i] \in K /\ \E a \in 1..n : kept[n][i] = o[a]
        BY <2>1, <2>2, <3>3, <3>4
      <3>8. ASSUME NEW a \in 1..n, o[a] \in K
            PROVE  \E i \in DOMAIN kept[n] : kept[n][i] = o[a]
        <4>1. CASE a = n
          BY <4>1, <3>2
        <4>2. CASE a \in 1..(n - 1)
          <5>1. PICK i \in DOMAIN p : p[i] = o[a]
            BY <4>2, <3>5, <3>8
          <5> QED
            BY <5>1, <3>2
        <4> QED
          BY <2>1, <4>1, <4>2
      <3>9. ASSUME NEW i \in DOMAIN kept[n], NEW j \in DOMAIN kept[n], i < j
            PROVE  \E a, b \in 1..n :
                      a < b /\ kept[n][i] = o[a] /\ kept[n][j] = o[b]
        <4>1. i \in DOMAIN p /\ kept[n][i] = p[i]
          BY <3>2, <3>9
        <4>2. CASE j \in DOMAIN p
          <5>1. kept[n][j] = p[j]
            BY <4>2, <3>2
          <5> QED
            BY <4>1, <4>2, <5>1, <3>6, <3>9, <2>1
        <4>3. CASE j = Len(p) + 1
          <5>1. PICK a \in 1..(n - 1) : p[i] = o[a]
            BY <4>1, <3>4
          <5>2. a \in 1..n /\ n \in 1..n /\ a < n
            BY <2>1
          <5> QED
            BY <5>1, <5>2, <4>1, <4>3, <3>2
        <4> QED
          BY <4>2, <4>3, <3>3
      <3> HIDE DEF kept
      <3> QED
        BY <3>2, <3>7, <3>8, <3>9
    <2>3. CASE o[n] \notin K
      <3>1. kept[n] = p
        BY <1>6, <2>1, <2>3
      <3> QED
        BY <3>1, <1>8, <2>1, <2>3
    <2> QED
      BY <2>2, <2>3
  <1>9. Wrong = {}
    <2> SUFFICES ASSUME Wrong # {}
                 PROVE  FALSE
      OBVIOUS
    <2> HIDE DEF Fine
    <2>1. Wrong \in SUBSET Nat
      BY <1>1
    <2>2. PICK x \in Wrong : \A y \in Wrong : x <= y
      <3> HIDE DEF Wrong
      <3> QED
        BY <2>1, Smallest
    <2>3. x \in 1..L /\ ~Fine(x)
      BY <2>2, <1>7, <1>1
    <2>4. x - 1 \in 0..L /\ ~(x <= x - 1)
      BY <2>3, <1>1
    <2>5. Fine(x - 1)
      BY <2>2, <2>4
    <2> QED
      BY <1>8, <2>3, <2>5
  <1>10. Fine(L)
    <2>1. L \in 0..L
      BY <1>1
    <2> HIDE DEF Fine
    <2> QED
      BY <2>1, <1>9
  <1> DEFINE r == kept[L]
  <1>11. /\ r \in Seq(S)
         /\ \A i \in DOMAIN r : r[i] \in K /\ \E a \in 1..L : r[i] = o[a]
         /\ \A a \in 1..L : o[a] \in K => \E i \in DOMAIN r : r[i] = o[a]
         /\ \A i, j \in DOMAIN r : i < j =>
              \E a, b \in 1..L : a < b /\ r[i] = o[a] /\ r[j] = o[b]
    BY <1>10
  <1>12. Keep(o, K) = r
    BY <1>5
  <1> HIDE DEF r
  <1>13. Range(r) = Range(o) \cap K
    BY <1>1, <1>11 DEF Range
  <1>14. ASSUME NEW i \in DOMAIN r, NEW j \in DOMAIN r, i < j
         PROVE  \E a, b \in DOMAIN o : a < b /\ r[i] = o[a] /\ r[j] = o[b]
    <2>1. PICK a \in 1..L, b \in 1..L : a < b /\ r[i] = o[a] /\ r[j] = o[b]
      BY <1>11, <1>14
    <2>2. a \in DOMAIN o /\ b \in DOMAIN o
      BY <1>1
    <2> QED
      BY <2>1, <2>2
  <1>15. r \in Seq(S)
    BY <1>11
  <1> QED
    BY <1>12, <1>13, <1>14, <1>15

-----------------------------------------------------------------------------
(* Held messages as a set: their ids tell them apart and give their order *)

Holding(o) == o \in Seq(Queued) /\ Increasing(o)

LEMMA Members ==
  ASSUME NEW o, Holding(o)
  PROVE  /\ Len(o) \in Nat /\ DOMAIN o = 1..Len(o)
         /\ Range(o) \subseteq Queued
         /\ \A i \in DOMAIN o : o[i] \in Range(o) /\ o[i] \in Queued
         /\ \A e \in Range(o) : \E i \in DOMAIN o : e = o[i]
         /\ \A e, f \in Range(o) : e.id = f.id => e = f
  <1>1. Len(o) \in Nat /\ DOMAIN o = 1..Len(o)
    BY LenProperties DEF Holding
  <1>2. \A i \in DOMAIN o : o[i] \in Queued
    BY <1>1, ElementOfSeq DEF Holding
  <1>3. ASSUME NEW e \in Range(o), NEW f \in Range(o), e.id = f.id
        PROVE  e = f
    <2>1. PICK i \in DOMAIN o, j \in DOMAIN o : e = o[i] /\ f = o[j]
      BY DEF Range
    <2>2. o[i].id \in Nat /\ o[j].id \in Nat
      BY <1>2 DEF Queued
    <2>3. i = j
      BY <1>1, <1>3, <2>1, <2>2 DEF Holding, Increasing
    <2> QED
      BY <2>1, <2>3
  <1> QED
    BY <1>1, <1>2, <1>3 DEF Range

LEMMA Naming ==
  ASSUME NEW o, Holding(o)
  PROVE  /\ \A m : InOutbox(o, m) <=> \E e \in Range(o) : e.msg = m
         /\ \A id : HasId(o, id) <=> \E e \in Range(o) : e.id = id
  BY Members DEF InOutbox, HasId, Range

LEMMA NothingHeld == Holding(<<>>) /\ Range(<<>>) = {}
  <1>1. <<>> \in Seq(Queued)
    BY EmptySeq
  <1>2. DOMAIN <<>> = {}
    BY EmptySeq, LenProperties
  <1> QED
    BY <1>1, <1>2 DEF Holding, Increasing, Range

\* A new message comes after all others.
LEMMA NextIdIs ==
  ASSUME NEW o, Holding(o)
  PROVE  NextId(o) \in Nat /\ \A e \in Range(o) : e.id < NextId(o)
  <1> DEFINE ids == {o[i].id : i \in DOMAIN o} \cup {0}
             top == IF o = <<>> THEN 0 ELSE o[Len(o)].id
  <1>1. Len(o) \in Nat /\ DOMAIN o = 1..Len(o) /\ \A i \in DOMAIN o : o[i].id \in Nat
    BY Members DEF Queued
  <1>2. \A i, j \in DOMAIN o : i < j => o[i].id < o[j].id
    BY DEF Holding, Increasing
  <1>3. top \in ids /\ \A y \in ids : top >= y
    <2>1. CASE o = <<>>
      <3>1. DOMAIN o = {}
        BY <2>1, EmptySeq, LenProperties
      <3> QED
        BY <2>1, <3>1
    <2>2. CASE o # <<>>
      <3>1. Len(o) # 0
        BY <2>2, EmptySeq DEF Holding
      <3>2. Len(o) \in DOMAIN o /\ top = o[Len(o)].id
        BY <1>1, <2>2, <3>1
      <3>3. ASSUME NEW i \in DOMAIN o
            PROVE  o[Len(o)].id >= o[i].id
        BY <1>1, <1>2, <3>2
      <3> QED
        BY <1>1, <3>2, <3>3
    <2> QED
      BY <2>1, <2>2
  <1>4. ids \subseteq Nat
    BY <1>1
  <1> HIDE DEF top
  <1>5. Max(ids) \in ids /\ \A y \in ids : Max(ids) >= y
    <2> HIDE DEF ids
    <2> QED
      BY <1>3 DEF Max
  <1>6. \A e \in Range(o) : e.id \in ids
    BY DEF Range
  <1>7. NextId(o) = 1 + Max(ids)
    BY DEF NextId
  <1> HIDE DEF ids
  <1> QED
    <2>1. Max(ids) \in Nat
      BY <1>4, <1>5
    <2>2. ASSUME NEW e \in Range(o)
          PROVE  e.id < NextId(o)
      <3>1. e.id \in Nat /\ Max(ids) >= e.id
        BY <1>4, <1>5, <1>6
      <3> QED
        BY <2>1, <3>1, <1>7
    <2> QED
      BY <2>1, <2>2, <1>7

LEMMA AppendIs ==
  ASSUME NEW o, Holding(o), NEW h \in Queued, h.id = NextId(o)
  PROVE  Holding(Append(o, h)) /\ Range(Append(o, h)) = Range(o) \cup {h}
  <1> DEFINE q == Append(o, h)
  <1>1. o \in Seq(Queued) /\ Len(o) \in Nat /\ DOMAIN o = 1..Len(o)
    BY Members DEF Holding
  <1>2. /\ q \in Seq(Queued) /\ DOMAIN q = 1..(Len(o) + 1)
        /\ \A i \in 1..Len(o) : q[i] = o[i]
        /\ q[Len(o) + 1] = h
    BY <1>1, AppendProperties, LenProperties
  <1>3. \A i \in 1..Len(o) : o[i].id < h.id
    BY <1>1, NextIdIs, Members
  <1> HIDE DEF q
  <1>4. Increasing(q)
    <2> SUFFICES ASSUME NEW i \in DOMAIN q, NEW j \in DOMAIN q, i < j
                 PROVE  q[i].id < q[j].id
      BY DEF Increasing
    <2>1. i \in 1..Len(o) /\ q[i] = o[i]
      BY <1>1, <1>2
    <2>2. CASE j = Len(o) + 1
      BY <1>2, <1>3, <2>1, <2>2
    <2>3. CASE j \in 1..Len(o)
      <3>1. o[i].id < o[j].id
        BY <1>1, <2>1, <2>3 DEF Holding, Increasing
      <3> QED
        BY <1>2, <2>1, <2>3, <3>1
    <2> QED
      BY <1>1, <1>2, <2>2, <2>3
  <1>5. Range(q) = Range(o) \cup {h}
    BY <1>1, <1>2 DEF Range
  <1> QED
    BY <1>2, <1>4, <1>5 DEF Holding, q

LEMMA KeepHolds ==
  ASSUME NEW o, Holding(o), NEW K
  PROVE  Holding(Keep(o, K)) /\ Range(Keep(o, K)) = Range(o) \cap K
  <1> DEFINE q == Keep(o, K)
  <1>1. o \in Seq(Queued)
    BY DEF Holding
  <1>2. /\ q \in Seq(Queued)
        /\ Range(q) = Range(o) \cap K
        /\ \A i, j \in DOMAIN q : i < j =>
              \E a, b \in DOMAIN o : a < b /\ q[i] = o[a] /\ q[j] = o[b]
    BY <1>1, KeepIs
  <1> HIDE DEF q
  <1>3. Increasing(q)
    BY <1>2 DEF Increasing, Holding
  <1> QED
    BY <1>2, <1>3 DEF Holding, q

LEMMA WithoutIs ==
  ASSUME NEW o, Holding(o), NEW id
  PROVE  /\ Holding(Without(o, id))
         /\ Range(Without(o, id)) = {e \in Range(o) : e.id # id}
  <1> DEFINE K == {held \in Range(o) : held.id # id}
  <1>1. Without(o, id) = Keep(o, K)
    BY DEF Without
  <1>2. Holding(Keep(o, K)) /\ Range(Keep(o, K)) = Range(o) \cap K
    BY KeepHolds
  <1> QED
    BY <1>1, <1>2

LEMMA RemoveAtIs ==
  ASSUME NEW o, Holding(o), NEW i \in DOMAIN o
  PROVE  /\ Holding(RemoveAt(o, i))
         /\ Range(RemoveAt(o, i)) = Range(o) \ {o[i]}
  <1> DEFINE a == SubSeq(o, 1, i - 1)
             b == SubSeq(o, i + 1, Len(o))
             r == a \o b
             f(k) == IF k < i THEN k ELSE k + 1
  <1>1. Len(o) \in Nat /\ DOMAIN o = 1..Len(o) /\ i \in 1..Len(o) /\ o \in Seq(Queued)
    BY Members DEF Holding
  <1>2. /\ a \in Seq(Queued) /\ Len(a) = i - 1
        /\ \A k \in 1..(i - 1) : a[k] = o[k]
    BY <1>1, SubSeqProperties, ElementOfSeq
  <1>3. /\ b \in Seq(Queued) /\ Len(b) = Len(o) - i
        /\ \A k \in 1..(Len(o) - i) : b[k] = o[i + k]
    BY <1>1, SubSeqProperties, ElementOfSeq
  <1> HIDE DEF a, b
  <1>4. /\ r \in Seq(Queued) /\ Len(r) = Len(a) + Len(b)
        /\ \A k \in 1..(Len(a) + Len(b)) :
             r[k] = IF k <= Len(a) THEN a[k] ELSE b[k - Len(a)]
    BY <1>2, <1>3, ConcatProperties
  <1> HIDE DEF r
  <1>5. DOMAIN r = 1..(Len(o) - 1)
    <2>1. DOMAIN r = 1..Len(r)
      BY <1>4, LenProperties
    <2> QED
      BY <1>1, <1>2, <1>3, <1>4, <2>1
  <1>6. ASSUME NEW k \in DOMAIN r
        PROVE  f(k) \in DOMAIN o /\ r[k] = o[f(k)]
    <2>1. k \in 1..(Len(a) + Len(b))
      BY <1>1, <1>2, <1>3, <1>5
    <2>2. r[k] = IF k <= Len(a) THEN a[k] ELSE b[k - Len(a)]
      BY <1>4, <2>1
    <2>3. CASE k < i
      BY <1>1, <1>2, <1>5, <2>1, <2>2, <2>3
    <2>4. CASE ~(k < i)
      <3>1. k - Len(a) \in 1..(Len(o) - i) /\ i + (k - Len(a)) = k + 1
        BY <1>1, <1>2, <1>3, <2>1, <2>4
      <3>2. b[k - Len(a)] = o[i + (k - Len(a))]
        BY <1>3, <3>1
      <3>3. ~(k <= Len(a)) /\ k \in Nat
        BY <1>1, <1>2, <1>3, <2>1, <2>4
      <3>4. r[k] = o[k + 1]
        BY <2>2, <3>1, <3>2, <3>3
      <3>5. f(k) = k + 1 /\ k + 1 \in DOMAIN o
        BY <1>1, <1>5, <2>4, <3>3
      <3> QED
        BY <3>4, <3>5
    <2> QED
      BY <2>3, <2>4
  <1>7. Increasing(r)
    <2> SUFFICES ASSUME NEW k \in DOMAIN r, NEW l \in DOMAIN r, k < l
                 PROVE  r[k].id < r[l].id
      BY DEF Increasing
    <2>1. f(k) < f(l)
      BY <1>1, <1>5
    <2>2. f(k) \in DOMAIN o /\ f(l) \in DOMAIN o /\ r[k] = o[f(k)] /\ r[l] = o[f(l)]
      BY <1>6
    <2> HIDE DEF f
    <2> QED
      BY <2>1, <2>2 DEF Holding, Increasing
  <1>8. Range(r) = Range(o) \ {o[i]}
    <2>1. ASSUME NEW k \in DOMAIN r
          PROVE  r[k] \in Range(o) \ {o[i]}
      <3>1. f(k) # i
        BY <1>1, <1>5
      <3>2. o[f(k)] # o[i]
        <4>1. f(k) \in DOMAIN o
          BY <1>6
        <4> HIDE DEF f
        <4>2. o[f(k)].id # o[i].id
          <5>1. o[f(k)].id \in Nat /\ o[i].id \in Nat
            BY <4>1, Members DEF Queued
          <5> QED
            BY <1>1, <3>1, <4>1, <5>1 DEF Holding, Increasing
        <4> QED
          BY <4>2
      <3> HIDE DEF f
      <3> QED
        BY <1>6, <3>2 DEF Range
    <2>2. ASSUME NEW n \in DOMAIN o, n # i
          PROVE  \E k \in DOMAIN r : r[k] = o[n]
      <3>1. CASE n < i
        <4>1. n \in DOMAIN r /\ f(n) = n
          BY <1>1, <1>5, <3>1
        <4> QED
          BY <1>6, <4>1
      <3>2. CASE ~(n < i)
        <4>1. n - 1 \in DOMAIN r /\ f(n - 1) = n
          BY <1>1, <1>5, <2>2, <3>2
        <4> QED
          BY <1>6, <4>1
      <3> QED
        BY <3>1, <3>2
    <2>3. ASSUME NEW e \in Range(o) \ {o[i]}
          PROVE  e \in Range(r)
      <3>1. PICK n \in DOMAIN o : e = o[n]
        BY DEF Range
      <3> QED
        BY <2>2, <2>3, <3>1 DEF Range
    <2> QED
      BY <2>1, <2>3 DEF Range
  <1> QED
    BY <1>4, <1>7, <1>8 DEF RemoveAt, Holding, a, b, r

\* A change of fields other than the id leaves the order alone.
LEMMA ChangeIs ==
  ASSUME NEW o, Holding(o),
         NEW q \in Seq(Queued), DOMAIN q = DOMAIN o,
         \A i \in DOMAIN o : q[i].id = o[i].id
  PROVE  Holding(q)
  BY DEF Holding, Increasing

Uncertain(e) == [e EXCEPT !.uncertain = TRUE]
Refused(e) == [e EXCEPT !.error = TRUE]

LEMMA LostIs ==
  ASSUME NEW o, Holding(o), NEW id
  PROVE  /\ Holding(Amend(o, id, "uncertain"))
         /\ Range(Amend(o, id, "uncertain")) =
              {IF e.id = id THEN Uncertain(e) ELSE e : e \in Range(o)}
  <1> DEFINE q == Amend(o, id, "uncertain")
  <1>1. Len(o) \in Nat /\ DOMAIN o = 1..Len(o) /\ \A i \in DOMAIN o : o[i] \in Queued
    BY Members
  <1>2. /\ DOMAIN q = 1..Len(o)
        /\ \A i \in DOMAIN o : q[i] = IF o[i].id = id THEN Uncertain(o[i]) ELSE o[i]
    BY <1>1 DEF Amend, Uncertain
  <1>3. \A e \in Queued : Uncertain(e) \in Queued /\ Uncertain(e).id = e.id
    BY DEF Queued, Uncertain
  <1>4. \A i \in DOMAIN o : q[i] \in Queued /\ q[i].id = o[i].id
    <2> HIDE DEF q
    <2> QED
      BY <1>1, <1>2, <1>3
  <1>5. q \in Seq(Queued)
    <2>1. q = [i \in 1..Len(o) |-> q[i]]
      BY <1>1 DEF Amend
    <2> HIDE DEF q
    <2> QED
      BY <1>1, <1>2, <1>4, <2>1, SeqDef
  <1> HIDE DEF q
  <1>6. Holding(q)
    BY <1>1, <1>2, <1>4, <1>5, ChangeIs
  <1>7. Range(q) = {IF e.id = id THEN Uncertain(e) ELSE e : e \in Range(o)}
    BY <1>1, <1>2 DEF Range
  <1> QED
    BY <1>6, <1>7 DEF q

LEMMA RefusedIs ==
  ASSUME NEW o, Holding(o), NEW id
  PROVE  /\ Holding(Amend(o, id, "error"))
         /\ Range(Amend(o, id, "error")) =
              {IF e.id = id THEN Refused(e) ELSE e : e \in Range(o)}
  <1> DEFINE q == Amend(o, id, "error")
  <1>1. Len(o) \in Nat /\ DOMAIN o = 1..Len(o) /\ \A i \in DOMAIN o : o[i] \in Queued
    BY Members
  <1>2. /\ DOMAIN q = 1..Len(o)
        /\ \A i \in DOMAIN o : q[i] = IF o[i].id = id THEN Refused(o[i]) ELSE o[i]
    BY <1>1 DEF Amend, Refused
  <1>3. \A e \in Queued : Refused(e) \in Queued /\ Refused(e).id = e.id
    BY DEF Queued, Refused
  <1>4. \A i \in DOMAIN o : q[i] \in Queued /\ q[i].id = o[i].id
    <2> HIDE DEF q
    <2> QED
      BY <1>1, <1>2, <1>3
  <1>5. q \in Seq(Queued)
    <2>1. q = [i \in 1..Len(o) |-> q[i]]
      BY <1>1 DEF Amend
    <2> HIDE DEF q
    <2> QED
      BY <1>1, <1>2, <1>4, <2>1, SeqDef
  <1> HIDE DEF q
  <1>6. Holding(q)
    BY <1>1, <1>2, <1>4, <1>5, ChangeIs
  <1>7. Range(q) = {IF e.id = id THEN Refused(e) ELSE e : e \in Range(o)}
    BY <1>1, <1>2 DEF Range
  <1> QED
    BY <1>6, <1>7 DEF q

\* An entry is replaced by one with its id.
LEMMA ReplaceIs ==
  ASSUME NEW o, Holding(o), NEW i \in DOMAIN o, NEW e \in Queued, e.id = o[i].id
  PROVE  /\ Holding([o EXCEPT ![i] = e])
         /\ Range([o EXCEPT ![i] = e]) = (Range(o) \ {o[i]}) \cup {e}
  <1> DEFINE q == [o EXCEPT ![i] = e]
  <1>1. /\ Len(o) \in Nat /\ DOMAIN o = 1..Len(o)
        /\ \A k \in DOMAIN o : o[k] \in Queued /\ o[k] \in Range(o)
        /\ o \in Seq(Queued)
        /\ \A x, y \in Range(o) : x.id = y.id => x = y
    BY Members DEF Holding
  <1>2. /\ q \in Seq(Queued) /\ DOMAIN q = DOMAIN o
        /\ \A k \in DOMAIN o : q[k] = IF k = i THEN e ELSE o[k]
    <2>1. q = [k \in 1..Len(o) |-> IF k = i THEN e ELSE o[k]]
      BY <1>1
    <2>2. \A k \in 1..Len(o) : (IF k = i THEN e ELSE o[k]) \in Queued
      BY <1>1
    <2> HIDE DEF q
    <2>3. q \in [1..Len(o) -> Queued]
      BY <2>1, <2>2
    <2> QED
      BY <1>1, <2>1, <2>3, SeqDef
  <1> HIDE DEF q
  <1>3. Holding(q)
    BY <1>2, ChangeIs
  <1>4. \A k \in DOMAIN o : k # i => o[k] # o[i]
    <2> SUFFICES ASSUME NEW k \in DOMAIN o, k # i
                 PROVE  o[k].id # o[i].id
      OBVIOUS
    <2>1. o[k].id \in Nat /\ o[i].id \in Nat
      BY <1>1 DEF Queued
    <2> QED
      BY <1>1, <2>1 DEF Holding, Increasing
  <1>5. Range(q) = (Range(o) \ {o[i]}) \cup {e}
    BY <1>2, <1>4 DEF Range
  <1> QED
    BY <1>3, <1>5 DEF q

-----------------------------------------------------------------------------
(* Types *)

Taken == {"held", "refused", "removed", "abandoned", "dropped", "cut"}
Mine == {"new", "direct", "waiting", "hold", "failed", "accepted", "rejected"}
WorkerPc == {"off", "on", "flush", "look", "send", "waiting", "settle",
             "ended"}

WorkerType == [pc : WorkerPc, conn : Nat, item : Queued \cup {NoItem},
               outcome : Outcome]
CallerType == [pc : Taken \cup Mine, conn : Nat]
RequestType == [conn : Nat, msg : Messages, text : Text, held : BOOLEAN,
                answer : {"none", "ok", "error"}]
TakenType == [msg : Messages, text : Text]

Active(g) == worker[g].pc \in {"look", "send", "waiting", "settle"}
Item(g) == worker[g].item

Conns ==
  /\ made \in Nat /\ open \subseteq 1..made /\ remote \in 0..made
  /\ \A g \in Gens : worker[g].conn <= made
  /\ \A r \in wire : r.conn <= made

GenIs == gen = 1 + (IF "restart" \in faults THEN 1 ELSE 0)
                 + (IF "reload" \in faults THEN 1 ELSE 0)

WorkerTypes ==
  /\ worker \in [Gens -> WorkerType]
  /\ \A g \in Gens : /\ Active(g) => Item(g) \in Queued
                     /\ At(g, "settle") => worker[g].outcome # "none"

Types ==
  /\ Holding(outbox) /\ Holding(file)
  /\ sending \in Nat
  /\ GenIs
  /\ WorkerTypes
  /\ message \in [Messages -> CallerType]
  /\ before \in [Messages -> SUBSET Messages]
  /\ wire \subseteq RequestType
  /\ Conns
  /\ got \in Seq(TakenType)
  /\ sessions \subseteq Sessions
  /\ list.sessions \subseteq Sessions
  /\ faults \subseteq Fault

LEMMA TypesInit == Init => Types
  <1> SUFFICES ASSUME Init
               PROVE  Types
    OBVIOUS
  <1> USE DEF Init
  <1>1. Holding(outbox) /\ Holding(file)
    BY NothingHeld
  <1>2. WorkerTypes
    BY DEF WorkerTypes, WorkerType, WorkerPc, NewWorker, Ended, NoItem,
           Outcome, Active, At
  <1>3. message \in [Messages -> CallerType]
    BY DEF CallerType, Mine
  <1>4. Conns
    BY DEF Conns, NewWorker, Ended
  <1>5. got \in Seq(TakenType)
    BY EmptySeq
  <1> QED
    BY <1>1, <1>2, <1>3, <1>4, <1>5 DEF Types, GenIs, NoList

\* What the steps do to the list of faults.
LEMMA FailsIs ==
  ASSUME Types, NEW kind \in STRING, Fails(kind)
  PROVE  faults' \subseteq Fault /\ kind \notin faults /\ faults' = faults \cup {kind}
  BY DEF Fails, Types

LEMMA GenStays ==
  ASSUME Types, UNCHANGED gen,
         UNCHANGED faults \/ \E kind \in {"disk", "delete", "late", "unseen"} : Fails(kind)
  PROVE  GenIs' /\ faults' \subseteq Fault
  BY DEF GenIs, Types, Fails

LEMMA SaveIs ==
  ASSUME NEW o, Save(o)
  PROVE  /\ file' = o \/ file' = file
         /\ UNCHANGED faults \/ Fails("disk")
  BY DEF Save

LEMMA GenInGens ==
  ASSUME Types
  PROVE  gen \in Gens
  BY DEF Types, GenIs, Gens

LEMMA WordsIn ==
  ASSUME NEW m \in Messages
  PROVE  Typed[m] \in Text /\ Retyped[m] \in Text
  BY DEF Text

LEMMA CallerIs ==
  ASSUME NEW pc \in Taken \cup Mine, NEW c \in Nat
  PROVE  [pc |-> pc, conn |-> c] \in CallerType
  BY DEF CallerType

LEMMA BecomesIs ==
  ASSUME message \in [Messages -> CallerType],
         NEW m \in Messages, NEW pc \in Taken \cup Mine, Becomes(m, pc)
  PROVE  /\ message' \in [Messages -> CallerType]
         /\ message'[m] = [pc |-> pc, conn |-> 0]
         /\ \A x \in Messages : x # m => message'[x] = message[x]
  <1> DEFINE new == [pc |-> pc, conn |-> 0]
  <1>1. new \in CallerType
    BY CallerIs
  <1>2. message' = [message EXCEPT ![m] = new]
    BY DEF Becomes
  <1> HIDE DEF new
  <1>3. /\ message' \in [Messages -> CallerType]
        /\ message'[m] = new
        /\ \A x \in Messages : x # m => message'[x] = message[x]
    BY <1>1, <1>2
  <1> QED
    BY <1>3 DEF new

\* Steps of the callers.
LEMMA CallerTypes ==
  ASSUME Types, NEW m \in Messages, Caller(m)
  PROVE  Types'
  <1>1. CASE Check(m)
    <2> USE <1>1 DEF Check, linkVars, connVars, serverVars
    <2>1. message' \in [Messages -> CallerType]
      <3>1. message \in [Messages -> CallerType] /\ remote \in Nat
        BY DEF Types, Conns
      <3>2. CASE message' = [message EXCEPT ![m] = [pc |-> "direct", conn |-> remote]]
        <4> DEFINE new == [pc |-> "direct", conn |-> remote]
        <4>1. new \in CallerType
          BY <3>1, CallerIs DEF Mine
        <4> HIDE DEF new
        <4> QED
          BY <3>1, <3>2, <4>1 DEF new
      <3>3. CASE Becomes(m, "hold")
        BY <3>1, <3>3, BecomesIs DEF Mine
      <3> QED
        BY <3>2, <3>3
    <2>2. before' \in [Messages -> SUBSET Messages]
      BY DEF Types
    <2>3. Conns' /\ WorkerTypes' /\ GenIs'
      BY DEF Types, Conns, WorkerTypes, Active, Item, At, GenIs
    <2> QED
      BY <2>1, <2>2, <2>3 DEF Types, Holding, Increasing
  <1>2. CASE SendNow(m)
    <2> USE <1>2 DEF SendNow, linkVars, serverVars
    <2>1. message' \in [Messages -> CallerType]
      <3>1. message \in [Messages -> CallerType]
        BY DEF Types
      <3>2. CASE message' = [message EXCEPT ![m].pc = "waiting"]
        <4> DEFINE new == [pc |-> "waiting", conn |-> message[m].conn]
        <4>1. message[m].conn \in Nat /\ message[m] = [pc |-> message[m].pc, conn |-> message[m].conn]
          BY <3>1 DEF CallerType
        <4>2. new \in CallerType
          BY <4>1, CallerIs DEF Mine
        <4>3. message' = [message EXCEPT ![m] = new]
          <5>1. message[m] \in CallerType
            BY <3>1
          <5>2. [message[m] EXCEPT !.pc = "waiting"] = new
            BY <5>1 DEF CallerType
          <5>3. message' = [message EXCEPT ![m] = [message[m] EXCEPT !.pc = "waiting"]]
            BY <3>2
          <5> QED
            BY <5>2, <5>3
        <4> HIDE DEF new
        <4> QED
          BY <3>1, <4>2, <4>3
      <3>3. CASE Becomes(m, "hold")
        BY <3>1, <3>3, BecomesIs DEF Mine
      <3> QED
        BY <3>2, <3>3
    <2>2. wire' \subseteq RequestType /\ \A r \in wire' : r.conn <= made
      <3>1. CASE message[m].conn \in open
        <4> DEFINE c == message[m].conn
        <4>1. wire' = wire \cup {Request(c, m, Typed[m], FALSE)}
          BY <3>1
        <4>2. c \in Nat /\ c <= made
          BY <3>1 DEF Types, Conns
        <4> DEFINE r == Request(c, m, Typed[m], FALSE)
        <4>3. r \in RequestType /\ r.conn = c
          BY <4>2, WordsIn DEF Request, RequestType
        <4>4. wire \subseteq RequestType /\ \A x \in wire : x.conn <= made
          BY DEF Types, Conns
        <4>5. wire' = wire \cup {r}
          BY <4>1
        <4> HIDE DEF r, c
        <4> QED
          BY <4>2, <4>3, <4>4, <4>5
      <3>2. CASE message[m].conn \notin open
        BY <3>2 DEF Types, Conns
      <3> QED
        BY <3>1, <3>2
    <2>3. Conns' /\ WorkerTypes' /\ GenIs'
      BY <2>2 DEF Types, Conns, WorkerTypes, Active, Item, At, GenIs
    <2> QED
      BY <2>1, <2>2, <2>3 DEF Types, Holding, Increasing
  <1>3. CASE Hold(m)
    <2> DEFINE h == [id |-> NextId(outbox), msg |-> m, text |-> Typed[m],
                     error |-> FALSE, uncertain |-> FALSE]
    <2> USE <1>3 DEF Hold, connVars, serverVars
    <2>1. h \in Queued /\ h.id = NextId(outbox)
      BY NextIdIs, WordsIn DEF Types, Queued
    <2>2. Holding(Append(outbox, h))
      <3> HIDE DEF h
      <3> QED
        BY <2>1, AppendIs DEF Types
    <2>3. \/ outbox' = Append(outbox, h) /\ file' = outbox' /\ UNCHANGED faults
          \/ UNCHANGED <<outbox, file>> /\ Fails("disk")
      OBVIOUS
    <2>4. message' \in [Messages -> CallerType]
      <3>1. message \in [Messages -> CallerType]
        BY DEF Types
      <3> QED
        BY <3>1, BecomesIs DEF Taken, Mine
    <2>5. Conns' /\ WorkerTypes'
      BY DEF Types, Conns, WorkerTypes, Active, Item, At
    <2>6. GenIs' /\ faults' \subseteq Fault
      BY <2>3, GenStays
    <2> HIDE DEF h
    <2>7. (Holding(outbox) /\ Holding(file))'
      BY <2>2, <2>3 DEF Types, Holding, Increasing
    <2> QED
      BY <2>4, <2>5, <2>6, <2>7 DEF Types
  <1> QED
    BY <1>1, <1>2, <1>3 DEF Caller

LEMMA UserTypes ==
  ASSUME Types, NEW i \in DOMAIN outbox, EditHeld(i) \/ RemoveHeld(i)
  PROVE  Types'
  <1>1. outbox[i] \in Queued /\ outbox[i].msg \in Messages
    BY Members DEF Types, Queued
  <1>2. CASE EditHeld(i)
    <2> DEFINE e == [outbox[i] EXCEPT !.text = Retyped[outbox[i].msg], !.error = FALSE]
    <2>1. e \in Queued /\ e.id = outbox[i].id
      BY <1>1, WordsIn DEF Queued
    <2>2. outbox' = [outbox EXCEPT ![i] = e] /\ file' = outbox'
      BY <1>2 DEF EditHeld
    <2> HIDE DEF e
    <2>3. Holding([outbox EXCEPT ![i] = e])
      BY <2>1, ReplaceIs DEF Types
    <2>4. (Holding(outbox) /\ Holding(file))'
      BY <2>2, <2>3 DEF Holding, Increasing
    <2> USE <1>2 DEF EditHeld, callerVars, connVars, serverVars
    <2>5. Conns' /\ WorkerTypes' /\ GenIs'
      BY DEF Types, Conns, WorkerTypes, Active, Item, At, GenIs
    <2> QED
      BY <2>4, <2>5 DEF Types
  <1>3. CASE RemoveHeld(i)
    <2>1. Holding(RemoveAt(outbox, i))
      BY RemoveAtIs DEF Types
    <2>2. (Holding(outbox) /\ Holding(file))'
      <3>1. outbox' = RemoveAt(outbox, i) /\ file' = outbox'
        BY <1>3 DEF RemoveHeld
      <3> QED
        BY <2>1, <3>1 DEF Holding, Increasing
    <2> USE <1>3 DEF RemoveHeld, connVars, serverVars
    <2>3. message' \in [Messages -> CallerType]
      <3>1. message \in [Messages -> CallerType]
        BY DEF Types
      <3> QED
        BY <1>1, <3>1, BecomesIs DEF Taken, Mine
    <2>4. Conns' /\ WorkerTypes' /\ GenIs'
      BY DEF Types, Conns, WorkerTypes, Active, Item, At, GenIs
    <2> QED
      BY <2>2, <2>3, <2>4 DEF Types
  <1> QED
    BY <1>2, <1>3

-----------------------------------------------------------------------------
(* What a worker's step makes of it *)

\* What a worker's step makes of it.
Turn(g, pc, c, item, outcome) ==
  /\ worker' \in [Gens -> WorkerType]
  /\ \A h \in Gens : h # g => worker'[h] = worker[h]
  /\ worker'[g].pc = pc /\ worker'[g].conn = c
  /\ worker'[g].item = item /\ worker'[g].outcome = outcome

LEMMA TurnIs ==
  ASSUME worker \in [Gens -> WorkerType], NEW g \in Gens,
         NEW pc, NEW c, NEW item, NEW outcome,
         NEW w \in WorkerType,
         worker' = [worker EXCEPT ![g] = w],
         w.pc = pc, w.conn = c, w.item = item, w.outcome = outcome
  PROVE  Turn(g, pc, c, item, outcome)
  <1>1. worker'[g] = w /\ \A h \in Gens : h # g => worker'[h] = worker[h]
    OBVIOUS
  <1>2. worker' \in [Gens -> WorkerType]
    OBVIOUS
  <1> QED
    BY <1>1, <1>2 DEF Turn

LEMMA TurnTypes ==
  ASSUME Types, NEW g \in Gens, NEW pc, NEW c, NEW item, NEW outcome,
         Turn(g, pc, c, item, outcome),
         pc \in {"look", "send", "waiting", "settle"} => item \in Queued,
         pc = "settle" => outcome # "none"
  PROVE  WorkerTypes'
  <1> SUFFICES ASSUME NEW h \in Gens
               PROVE  /\ Active(h)' => Item(h)' \in Queued
                      /\ At(h, "settle")' => worker'[h].outcome # "none"
    BY DEF Turn, WorkerTypes
  <1>1. CASE h = g
    BY <1>1 DEF Turn, Active, Item, At
  <1>2. CASE h # g
    <2>1. worker'[h] = worker[h]
      BY <1>2 DEF Turn
    <2> QED
      BY <2>1 DEF Types, WorkerTypes, Active, Item, At
  <1> QED
    BY <1>1, <1>2

LEMMA WorkerIs ==
  ASSUME Types, NEW g \in Gens
  PROVE  worker[g] \in WorkerType
  BY DEF Types, WorkerTypes

LEMMA WorkerFields ==
  ASSUME Types, NEW g \in Gens
  PROVE  /\ worker \in [Gens -> WorkerType]
         /\ worker[g].pc \in WorkerPc /\ worker[g].conn \in Nat
         /\ Item(g) \in Queued \cup {NoItem} /\ worker[g].outcome \in Outcome
  <1>1. worker \in [Gens -> WorkerType] /\ worker[g] \in WorkerType
    BY DEF Types, WorkerTypes
  <1> QED
    BY <1>1 DEF WorkerType, Item

LEMMA GoIs ==
  ASSUME Types, NEW g \in Gens, NEW pc \in WorkerPc, Go(g, pc)
  PROVE  Turn(g, pc, worker[g].conn, Item(g), worker[g].outcome)
  <1> DEFINE w == [worker[g] EXCEPT !.pc = pc]
  <1>1. worker' = [worker EXCEPT ![g] = w]
    BY DEF Go
  <1>2. /\ w \in WorkerType
        /\ w.pc = pc /\ w.conn = worker[g].conn
        /\ w.item = Item(g) /\ w.outcome = worker[g].outcome
    BY WorkerIs DEF WorkerType, Item
  <1> HIDE DEF w
  <1> QED
    BY <1>1, <1>2, WorkerFields, TurnIs

LEMMA ResultIs ==
  ASSUME Types, NEW g \in Gens, NEW outcome \in Outcome, Result(g, outcome)
  PROVE  Turn(g, "settle", worker[g].conn, Item(g), outcome)
  <1> DEFINE w == [worker[g] EXCEPT !.pc = "settle", !.outcome = outcome]
  <1>1. worker' = [worker EXCEPT ![g] = w]
    BY DEF Result
  <1>2. /\ w \in WorkerType
        /\ w.pc = "settle" /\ w.conn = worker[g].conn
        /\ w.item = Item(g) /\ w.outcome = outcome
    BY WorkerIs DEF WorkerType, WorkerPc, Item
  <1> HIDE DEF w
  <1> QED
    BY <1>1, <1>2, WorkerFields, TurnIs

LEMMA EndedIs ==
  /\ Ended \in WorkerType
  /\ Ended.pc = "ended" /\ Ended.conn = 0
  /\ Ended.item = NoItem /\ Ended.outcome = "none"
  BY DEF Ended, NewWorker, WorkerType, WorkerPc, Outcome

LEMMA ConnectIs ==
  ASSUME Types, NEW g \in Gens, Connect(g)
  PROVE  Turn(g, "on", made + 1, Item(g), worker[g].outcome)
  <1> DEFINE n == made + 1
             w == [worker[g] EXCEPT !.pc = "on", !.conn = n]
  <1>1. worker' = [worker EXCEPT ![g] = w]
    BY DEF Connect
  <1>2. n \in Nat
    BY DEF Types, Conns
  <1> HIDE DEF n
  <1>3. /\ w \in WorkerType
        /\ w.pc = "on" /\ w.conn = n
        /\ w.item = Item(g) /\ w.outcome = worker[g].outcome
    BY <1>2, WorkerIs DEF WorkerType, WorkerPc, Item
  <1> HIDE DEF w
  <1>4. Turn(g, "on", n, Item(g), worker[g].outcome)
    BY <1>1, <1>3, WorkerFields, TurnIs
  <1> QED
    BY <1>4 DEF n

LEMMA RetireIs ==
  ASSUME Types, NEW g \in Gens, worker' = [worker EXCEPT ![g] = Ended]
  PROVE  Turn(g, "ended", 0, NoItem, "none")
  BY EndedIs, WorkerFields, TurnIs

\* The first message that is ready.
LEMMA NextReadyIs ==
  ASSUME NEW o, Holding(o), AnyReady(o)
  PROVE  \E i \in DOMAIN o :
           /\ NextReady(o) = o[i] /\ Ready(o[i])
           /\ \A k \in DOMAIN o : Ready(o[k]) => i <= k
  <1> DEFINE T == {i \in DOMAIN o : Ready(o[i])}
  <1>1. T \in SUBSET Nat /\ T # {}
    BY Members DEF AnyReady
  <1>2. \E x \in T : \A y \in T : x <= y
    <2> HIDE DEF T
    <2> QED
      BY <1>1, Smallest
  <1>3. Min(T) \in T /\ \A y \in T : Min(T) <= y
    <2> HIDE DEF T
    <2> QED
      BY <1>2 DEF Min
  <1> QED
    BY <1>3 DEF NextReady

LEMMA NextReadyIn ==
  ASSUME NEW o, Holding(o), AnyReady(o)
  PROVE  NextReady(o) \in Range(o) /\ NextReady(o) \in Queued
  BY NextReadyIs, Members

LEMMA PickIs ==
  ASSUME Types, NEW g \in Gens, Pick(g), AnyReady(outbox)
  PROVE  /\ sending' = NextReady(outbox).id
         /\ Turn(g, IF NextReady(outbox).uncertain THEN "look" ELSE "send",
                 worker[g].conn, NextReady(outbox), worker[g].outcome)
  <1> DEFINE next == NextReady(outbox)
             pc == IF next.uncertain THEN "look" ELSE "send"
             w == [worker[g] EXCEPT !.item = next, !.pc = pc]
  <1>1. worker' = [worker EXCEPT ![g] = w] /\ sending' = next.id
    BY DEF Pick
  <1>2. next \in Queued
    BY NextReadyIn DEF Types
  <1>3. pc \in WorkerPc
    BY DEF WorkerPc
  <1> HIDE DEF next, pc
  <1>4. /\ w \in WorkerType
        /\ w.pc = pc /\ w.conn = worker[g].conn
        /\ w.item = next /\ w.outcome = worker[g].outcome
    BY <1>2, <1>3, WorkerIs DEF WorkerType, Item
  <1> HIDE DEF w
  <1>5. Turn(g, pc, worker[g].conn, next, worker[g].outcome)
    BY <1>1, <1>2, <1>3, <1>4, WorkerFields, TurnIs
  <1> QED
    BY <1>1, <1>5 DEF next, pc

LEMMA SettleIs ==
  ASSUME Types, NEW g \in Gens, Settle(g), g = gen
  PROVE  Turn(g, IF worker[g].outcome \in {"notSent", "lost"} THEN "on" ELSE "flush",
              worker[g].conn, NoItem, "none")
  <1> DEFINE pc == IF worker[g].outcome \in {"notSent", "lost"} THEN "on" ELSE "flush"
             w == [worker[g] EXCEPT !.pc = pc, !.item = NoItem, !.outcome = "none"]
  <1>1. worker' = [worker EXCEPT ![g] = w]
    BY DEF Settle, Current
  <1>2. pc \in WorkerPc /\ "none" \in Outcome
    BY DEF WorkerPc, Outcome
  <1> HIDE DEF pc
  <1>3. /\ w \in WorkerType
        /\ w.pc = pc /\ w.conn = worker[g].conn
        /\ w.item = NoItem /\ w.outcome = "none"
    BY <1>2, WorkerIs DEF WorkerType, Item
  <1> HIDE DEF w
  <1>4. Turn(g, pc, worker[g].conn, NoItem, "none")
    BY <1>1, <1>2, <1>3, WorkerFields, TurnIs
  <1> QED
    BY <1>4 DEF pc

\* What an outcome leaves of the held messages.
LEMMA OutboxIs ==
  ASSUME NEW o, Holding(o), NEW id, NEW outcome
  PROVE  /\ Holding(Outbox(o, id, outcome))
         /\ outcome = "sent" =>
              Range(Outbox(o, id, outcome)) = {e \in Range(o) : e.id # id}
         /\ outcome = "lost" =>
              Range(Outbox(o, id, outcome)) =
                {IF e.id = id THEN Uncertain(e) ELSE e : e \in Range(o)}
         /\ outcome = "refused" =>
              Range(Outbox(o, id, outcome)) =
                {IF e.id = id THEN Refused(e) ELSE e : e \in Range(o)}
         /\ outcome \notin {"sent", "lost", "refused"} =>
              Outbox(o, id, outcome) = o
  <1>1. CASE outcome = "sent"
    BY <1>1, WithoutIs DEF Outbox
  <1>2. CASE outcome = "lost"
    BY <1>2, LostIs DEF Outbox
  <1>3. CASE outcome = "refused"
    BY <1>3, RefusedIs DEF Outbox
  <1>4. CASE outcome \notin {"sent", "lost", "refused"}
    BY <1>4 DEF Outbox
  <1> QED
    BY <1>1, <1>2, <1>3, <1>4

-----------------------------------------------------------------------------
(* Types are kept by the worker *)

LEMMA HoldingStays ==
  ASSUME Types, UNCHANGED <<outbox, file>>
  PROVE  (Holding(outbox) /\ Holding(file))'
  BY DEF Types, Holding, Increasing

LEMMA HoldingMoves ==
  ASSUME Types, NEW o, Holding(o), outbox' = o, file' = o \/ UNCHANGED file
  PROVE  (Holding(outbox) /\ Holding(file))'
  BY DEF Types, Holding, Increasing

LEMMA ConnsStay ==
  ASSUME Types, UNCHANGED <<remote, made, open, wire>>,
         NEW g \in Gens, NEW pc, NEW item, NEW outcome,
         NEW c, Turn(g, pc, c, item, outcome), c = worker[g].conn \/ c = 0
  PROVE  Conns'
  <1>1. ASSUME NEW h \in Gens
        PROVE  worker'[h].conn <= made
    BY <1>1, WorkerFields DEF Turn, Types, Conns
  <1> QED
    BY <1>1 DEF Types, Conns

\* Steps of the workers.
LEMMA GoTypes ==
  ASSUME Types, NEW g \in Gens,
         UNCHANGED <<linkVars, gen, callerVars, connVars, serverVars, list>>,
         UNCHANGED faults \/ Fails("unseen"),
         NEW pc \in WorkerPc, NEW item, NEW outcome, NEW c,
         Turn(g, pc, c, item, outcome), c = worker[g].conn \/ c = 0,
         pc \in {"look", "send", "waiting", "settle"} => item \in Queued,
         pc = "settle" => outcome # "none"
  PROVE  Types'
  <1> USE DEF linkVars, callerVars, connVars, serverVars
  <1>1. WorkerTypes' /\ Conns'
    BY TurnTypes, ConnsStay
  <1>2. GenIs' /\ faults' \subseteq Fault
    BY GenStays
  <1>3. (Holding(outbox) /\ Holding(file))'
    BY HoldingStays
  <1> QED
    BY <1>1, <1>2, <1>3 DEF Types

LEMMA WorkerStepTypes ==
  ASSUME Types, NEW g \in Gens, Worker(g)
  PROVE  Types'
  <1> USE WorkerFields
  <1>1. CASE Connect(g)
    <2> USE <1>1 DEF Connect, callerVars, serverVars
    <2>1. Turn(g, "on", made + 1, Item(g), worker[g].outcome)
      BY ConnectIs
    <2>2. WorkerTypes'
      BY <2>1, TurnTypes
    <2>3. Conns'
      <3>1. made' = made + 1 /\ made \in Nat /\ open' = open \cup {made + 1}
              /\ remote' = made + 1 /\ UNCHANGED wire
        BY DEF Types, Conns
      <3>2. ASSUME NEW h \in Gens
            PROVE  worker'[h].conn <= made'
        BY <2>1, <3>1 DEF Turn, Types, Conns
      <3>3. ASSUME NEW r \in wire
            PROVE  r.conn <= made'
        BY <3>1 DEF Types, Conns, RequestType
      <3>4. open' \subseteq 1..made' /\ remote' \in 0..made' /\ made' \in Nat
        BY <3>1 DEF Types, Conns
      <3> QED
        BY <3>1, <3>2, <3>3, <3>4 DEF Conns
    <2>4. (Holding(outbox) /\ Holding(file))' /\ GenIs'
      BY HoldingStays DEF Types, GenIs
    <2> QED
      BY <2>2, <2>3, <2>4 DEF Types
  <1>2. CASE Disconnected(g)
    <2> USE <1>2 DEF Disconnected, callerVars, connVars, serverVars
    <2>1. Turn(g, "off", worker[g].conn, Item(g), worker[g].outcome)
      BY GoIs DEF WorkerPc
    <2>2. WorkerTypes'
      BY <2>1, TurnTypes
    <2>3. Conns'
      <3>1. ASSUME NEW h \in Gens
            PROVE  worker'[h].conn <= made
        BY <2>1 DEF Turn, Types, Conns
      <3> QED
        BY <3>1 DEF Types, Conns
    <2>4. (Holding(outbox) /\ Holding(file))' /\ GenIs'
      BY HoldingStays DEF Types, GenIs
    <2> QED
      BY <2>2, <2>3, <2>4 DEF Types
  <1>3. CASE Retire(g)
    <2>1. Turn(g, "ended", 0, NoItem, "none")
      BY <1>3, RetireIs DEF Retire
    <2> QED
      BY <1>3, <2>1, GoTypes DEF Retire, WorkerPc
  <1>4. CASE Flush(g)
    <2>1. Turn(g, "flush", worker[g].conn, Item(g), worker[g].outcome)
      BY <1>4, GoIs DEF Flush, WorkerPc
    <2> QED
      BY <1>4, <2>1, GoTypes DEF Flush, WorkerPc
  <1>5. CASE Pick(g)
    <2> USE <1>5 DEF Pick, callerVars, connVars, serverVars
    <2>1. CASE AnyReady(outbox)
      <3> DEFINE next == NextReady(outbox)
                 pc == IF next.uncertain THEN "look" ELSE "send"
      <3>1. Turn(g, pc, worker[g].conn, next, worker[g].outcome) /\ sending' = next.id
        BY <2>1, PickIs
      <3>2. next \in Queued
        BY <2>1, NextReadyIn DEF Types
      <3>3. pc # "settle"
        OBVIOUS
      <3> HIDE DEF next, pc
      <3>4. WorkerTypes'
        BY <3>1, <3>2, <3>3, TurnTypes
      <3>5. Conns'
        BY <3>1, ConnsStay
      <3>6. (Holding(outbox) /\ Holding(file))' /\ GenIs'
        BY HoldingStays DEF Types, GenIs
      <3>7. sending' \in Nat
        BY <3>1, <3>2 DEF Queued
      <3> QED
        BY <3>4, <3>5, <3>6, <3>7 DEF Types
    <2>2. CASE ~AnyReady(outbox)
      <3>1. Turn(g, "on", worker[g].conn, Item(g), worker[g].outcome)
        BY <2>2, GoIs DEF WorkerPc
      <3> QED
        BY <2>2, <3>1, GoTypes DEF WorkerPc, linkVars
    <2> QED
      BY <2>1, <2>2
  <1>6. CASE Look(g)
    <2>1. Item(g) \in Queued
      BY <1>6 DEF Look, At, Types, WorkerTypes, Active
    <2>2. UNCHANGED faults \/ Fails("unseen")
      BY <1>6 DEF Look
    <2>3. CASE Result(g, "sent")
      <3>1. Turn(g, "settle", worker[g].conn, Item(g), "sent")
        BY <2>3, ResultIs DEF Outcome
      <3> QED
        BY <1>6, <2>1, <2>2, <3>1, GoTypes DEF Look, WorkerPc
    <2>4. CASE Go(g, "send")
      <3>1. Turn(g, "send", worker[g].conn, Item(g), worker[g].outcome)
        BY <2>4, GoIs DEF WorkerPc
      <3> QED
        BY <1>6, <2>1, <2>2, <3>1, GoTypes DEF Look, WorkerPc
    <2> QED
      BY <1>6, <2>3, <2>4 DEF Look
  <1>7. CASE Send(g)
    <2> DEFINE c == worker[g].conn
               r == Request(c, Item(g).msg, Item(g).text, TRUE)
    <2>1. Item(g) \in Queued
      BY <1>7 DEF Send, At, Types, WorkerTypes, Active
    <2>2. CASE c \in open
      <3>1. Turn(g, "waiting", c, Item(g), worker[g].outcome)
        BY <1>7, <2>2, GoIs DEF Send, WorkerPc
      <3>2. wire' = wire \cup {r}
        BY <1>7, <2>2 DEF Send, Item
      <3>3. r \in RequestType /\ r.conn = c
        BY <2>1 DEF Request, RequestType, Queued
      <3>4. wire' \subseteq RequestType
        <4> HIDE DEF r, c
        <4> QED
          BY <3>2, <3>3 DEF Types
      <3> USE <1>7 DEF Send, linkVars, callerVars, serverVars
      <3>5. Conns'
        <4>1. ASSUME NEW x \in wire'
              PROVE  x.conn <= made
          BY <3>2, <3>3 DEF Types, Conns
        <4>2. ASSUME NEW h \in Gens
              PROVE  worker'[h].conn <= made
          BY <3>1 DEF Turn, Types, Conns
        <4> QED
          BY <4>1, <4>2 DEF Types, Conns
      <3>6. WorkerTypes'
        BY <2>1, <3>1, TurnTypes
      <3>7. (Holding(outbox) /\ Holding(file))' /\ GenIs'
        BY HoldingStays DEF Types, GenIs
      <3> QED
        BY <3>4, <3>5, <3>6, <3>7 DEF Types
    <2>3. CASE c \notin open
      <3>1. Turn(g, "settle", c, Item(g), "notSent")
        BY <1>7, <2>3, ResultIs DEF Send, Outcome
      <3> QED
        BY <1>7, <2>1, <2>3, <3>1, GoTypes DEF Send, WorkerPc, connVars
    <2> QED
      BY <2>2, <2>3
  <1>8. CASE Settle(g)
    <2> DEFINE id == Item(g).id
               outcome == worker[g].outcome
               q == Outbox(outbox, id, outcome)
    <2>1. CASE g # gen
      <3>1. Turn(g, "ended", 0, NoItem, "none")
        BY <1>8, <2>1, RetireIs DEF Settle, Current
      <3> QED
        BY <1>8, <2>1, <3>1, GoTypes
           DEF Settle, Current, WorkerPc, linkVars, callerVars
    <2>2. CASE g = gen
      <3> DEFINE pc == IF outcome \in {"notSent", "lost"} THEN "on" ELSE "flush"
      <3>1. Turn(g, pc, worker[g].conn, NoItem, "none")
        BY <1>8, <2>2, SettleIs
      <3>2. pc \notin {"look", "send", "waiting", "settle"}
        OBVIOUS
      <3>3. outbox' = q /\ Save(outbox') /\ sending' = 0 /\ Refusal(id, outcome)
        BY <1>8, <2>2 DEF Settle, Current, Item
      <3>4. Holding(q)
        BY OutboxIs DEF Types
      <3> HIDE DEF q, pc
      <3>5. message' \in [Messages -> CallerType]
        <4>1. message \in [Messages -> CallerType]
          BY DEF Types
        <4>2. CASE outcome = "refused" /\ HasId(outbox, id)
          <5> DEFINE held == CHOOSE i \in DOMAIN outbox : outbox[i].id = id
          <5>1. held \in DOMAIN outbox
            BY <4>2 DEF HasId
          <5>2. outbox[held].msg \in Messages
            BY <5>1, Members DEF Types, Queued
          <5>3. Becomes(outbox[held].msg, "refused")
            BY <3>3, <4>2 DEF Refusal
          <5> HIDE DEF held
          <5> QED
            BY <4>1, <5>2, <5>3, BecomesIs DEF Taken
        <4>3. CASE ~(outcome = "refused" /\ HasId(outbox, id))
          BY <3>3, <4>1, <4>3 DEF Refusal
        <4> QED
          BY <4>2, <4>3
      <3> HIDE DEF id, outcome
      <3>6. (Holding(outbox) /\ Holding(file))'
        BY <3>3, <3>4, SaveIs, HoldingMoves
      <3> USE <1>8 DEF Settle, connVars, serverVars
      <3>7. WorkerTypes' /\ Conns'
        BY <3>1, <3>2, TurnTypes, ConnsStay
      <3>8. GenIs' /\ faults' \subseteq Fault
        BY <3>3, SaveIs, GenStays
      <3> QED
        BY <3>3, <3>5, <3>6, <3>7, <3>8 DEF Types
    <2> QED
      BY <2>1, <2>2
  <1> QED
    BY <1>1, <1>2, <1>3, <1>4, <1>5, <1>6, <1>7, <1>8 DEF Worker

-----------------------------------------------------------------------------
(* Types are kept by the other steps *)

\* A connection ends for the workers and the callers that wait on it.
LEMMA DropWorker ==
  ASSUME Types, NEW c, NEW unwritten, NEW g \in Gens,
         worker' = WorkersAfterDrop(c, unwritten)
  PROVE  /\ worker' \in [Gens -> WorkerType]
         /\ worker'[g].conn = worker[g].conn /\ worker'[g].item = worker[g].item
         /\ IF At(g, "waiting") /\ worker[g].conn = c
            THEN /\ worker'[g].pc = "settle"
                 /\ worker'[g].outcome =
                      IF \E r \in unwritten : r.held THEN "notSent" ELSE "lost"
            ELSE worker'[g] = worker[g]
  <1> DEFINE out == IF \E r \in unwritten : r.held THEN "notSent" ELSE "lost"
             new(h) == [worker[h] EXCEPT !.pc = "settle", !.outcome = out]
  <1>1. out \in Outcome
    BY DEF Outcome
  <1>2. \A h \in Gens : worker'[h] = IF worker[h].pc = "waiting" /\ worker[h].conn = c
                                     THEN new(h) ELSE worker[h]
    BY DEF WorkersAfterDrop
  <1>3. DOMAIN worker' = Gens /\ worker' = [h \in Gens |-> worker'[h]]
    BY DEF WorkersAfterDrop
  <1> HIDE DEF out
  <1>4. ASSUME NEW h \in Gens
        PROVE  /\ new(h) \in WorkerType /\ new(h).pc = "settle"
               /\ new(h).outcome = out /\ new(h).conn = worker[h].conn
               /\ new(h).item = worker[h].item
    BY <1>1, WorkerIs DEF WorkerType, WorkerPc
  <1> HIDE DEF new
  <1>5. worker' \in [Gens -> WorkerType]
    BY <1>2, <1>3, <1>4, WorkerIs
  <1>6. CASE At(g, "waiting") /\ worker[g].conn = c
    BY <1>2, <1>4, <1>5, <1>6 DEF At, out
  <1>7. CASE ~(At(g, "waiting") /\ worker[g].conn = c)
    BY <1>2, <1>5, <1>7 DEF At
  <1> QED
    BY <1>6, <1>7

LEMMA DropCaller ==
  ASSUME Types, NEW c, NEW unwritten, NEW m \in Messages,
         message' = CallersAfterDrop(c, unwritten)
  PROVE  /\ message' \in [Messages -> CallerType]
         /\ IF message[m] = [pc |-> "waiting", conn |-> c]
            THEN message'[m].pc =
                   IF \E r \in unwritten : ~r.held /\ r.msg = m THEN "hold" ELSE "failed"
            ELSE message'[m] = message[m]
  <1> DEFINE held(x) == \E r \in unwritten : ~r.held /\ r.msg = x
             new(x) == IF held(x) THEN [pc |-> "hold", conn |-> 0]
                                  ELSE [pc |-> "failed", conn |-> 0]
  <1>1. ASSUME NEW x \in Messages
        PROVE  message'[x] = IF message[x] = [pc |-> "waiting", conn |-> c]
                             THEN new(x) ELSE message[x]
    BY DEF CallersAfterDrop
  <1>2. message' = [x \in Messages |-> message'[x]]
    BY DEF CallersAfterDrop
  <1>3. ASSUME NEW x \in Messages
        PROVE  new(x) \in CallerType /\ message[x] \in CallerType
               /\ new(x).pc = IF held(x) THEN "hold" ELSE "failed"
    BY CallerIs DEF Mine, Types
  <1> HIDE DEF new
  <1>4. message' \in [Messages -> CallerType]
    BY <1>1, <1>2, <1>3
  <1> QED
    BY <1>1, <1>3, <1>4

\* The requests of a connection that the server has not answered.
Asked(c) == {r \in wire : r.conn = c /\ r.answer = "none"}

LEMMA DropIs ==
  ASSUME NEW c, Drop(c)
  PROVE  \E unwritten \in SUBSET Asked(c) :
           /\ wire' = {r \in wire : r.conn # c} \cup (Asked(c) \ unwritten)
           /\ worker' = WorkersAfterDrop(c, unwritten)
           /\ message' = CallersAfterDrop(c, unwritten)
  BY DEF Drop, Asked

LEMMA DropTypes ==
  ASSUME Types, NEW c, Drop(c)
  PROVE  Types'
  <1>1. PICK unwritten \in SUBSET Asked(c) :
          /\ wire' = {r \in wire : r.conn # c} \cup (Asked(c) \ unwritten)
          /\ worker' = WorkersAfterDrop(c, unwritten)
          /\ message' = CallersAfterDrop(c, unwritten)
    BY DropIs
  <1>2. wire' \subseteq wire
    BY <1>1 DEF Asked
  <1> USE DEF Drop, linkVars, serverVars
  <1>3. ASSUME NEW g \in Gens
        PROVE  /\ worker' \in [Gens -> WorkerType]
               /\ worker'[g].conn <= made
               /\ Active(g)' => Item(g)' \in Queued
               /\ At(g, "settle")' => worker'[g].outcome # "none"
    <2>1. CASE At(g, "waiting") /\ worker[g].conn = c
      BY <1>1, <2>1, DropWorker DEF Types, Conns, WorkerTypes, Active, Item, At
    <2>2. CASE ~(At(g, "waiting") /\ worker[g].conn = c)
      BY <1>1, <2>2, DropWorker DEF Types, Conns, WorkerTypes, Active, Item, At
    <2> QED
      BY <2>1, <2>2
  <1>4. 1 \in Gens
    BY DEF Gens
  <1>5. WorkerTypes' /\ Conns'
    <2>1. WorkerTypes'
      BY <1>3, <1>4 DEF WorkerTypes
    <2>2. Conns'
      BY <1>2, <1>3 DEF Types, Conns
    <2> QED
      BY <2>1, <2>2
  <1>6. message' \in [Messages -> CallerType]
    <2>1. CASE Messages = {}
      BY <1>1, <2>1 DEF CallersAfterDrop
    <2>2. CASE Messages # {}
      BY <1>1, <2>2, DropCaller
    <2> QED
      BY <2>1, <2>2
  <1>7. (Holding(outbox) /\ Holding(file))' /\ GenIs'
    BY HoldingStays DEF Types, GenIs
  <1> QED
    BY <1>2, <1>5, <1>6, <1>7 DEF Types

\* The sessions that a list no longer has.
Gone == {held \in Range(outbox) : SessionOf[held.msg] \notin list.sessions}

LEMMA StoreIs ==
  ASSUME Types, StoreSessions
  PROVE  /\ list' = NoList
         /\ UNCHANGED <<sending, remote, gen, worker, before, connVars, serverVars>>
         /\ \/ UNCHANGED <<outbox, file, message, faults>>
            \/ /\ remote = list.conn
               /\ Holding(outbox')
               /\ Range(outbox') = Range(outbox) \ Gone
               /\ Save(outbox')
               /\ message' \in [Messages -> CallerType]
               /\ \A m \in Messages :
                    /\ (\E e \in Gone : e.msg = m) =>
                         message'[m].pc =
                           IF \E e \in Gone : e.msg = m /\ e.id = sending
                           THEN "cut" ELSE "dropped"
                    /\ ~(\E e \in Gone : e.msg = m) => message'[m] = message[m]
  <1>1. CASE remote = list.conn /\ Gone # {}
    <2> DEFINE K == Range(outbox) \ Gone
               to(m) == [pc |-> IF \E e \in Gone : e.msg = m /\ e.id = sending
                                THEN "cut" ELSE "dropped",
                         conn |-> 0]
    <2>1. /\ outbox' = Keep(outbox, K) /\ Save(outbox')
          /\ message' = [m \in Messages |->
                IF \E e \in Gone : e.msg = m THEN to(m) ELSE message[m]]
      BY <1>1 DEF StoreSessions, Gone
    <2>2. Holding(outbox') /\ Range(outbox') = Range(outbox) \ Gone
      <3>1. Holding(Keep(outbox, K)) /\ Range(Keep(outbox, K)) = Range(outbox) \cap K
        <4> HIDE DEF K
        <4> QED
          BY KeepHolds DEF Types
      <3> QED
        BY <2>1, <3>1
    <2>3. ASSUME NEW m \in Messages
          PROVE  /\ to(m) \in CallerType /\ message[m] \in CallerType
                 /\ to(m).pc = IF \E e \in Gone : e.msg = m /\ e.id = sending
                               THEN "cut" ELSE "dropped"
      <3> DEFINE cut == \E e \in Gone : e.msg = m /\ e.id = sending
      <3>1. (IF cut THEN "cut" ELSE "dropped") \in Taken \cup Mine
        BY DEF Taken
      <3> HIDE DEF cut
      <3>2. [pc |-> IF cut THEN "cut" ELSE "dropped", conn |-> 0] \in CallerType
        BY <3>1, CallerIs
      <3> QED
        BY <3>2 DEF cut, Types
    <2> HIDE DEF to
    <2>4. message' \in [Messages -> CallerType]
      BY <2>1, <2>3
    <2>5. \A m \in Messages :
                    /\ (\E e \in Gone : e.msg = m) => message'[m] = to(m)
                    /\ ~(\E e \in Gone : e.msg = m) => message'[m] = message[m]
      BY <2>1
    <2> QED
      BY <1>1, <2>1, <2>2, <2>3, <2>4, <2>5 DEF StoreSessions
  <1>2. CASE ~(remote = list.conn /\ Gone # {})
    BY <1>2 DEF StoreSessions, Gone
  <1> QED
    BY <1>1, <1>2

LEMMA ListingTypes ==
  ASSUME Types, Listing
  PROVE  Types'
  <1>1. CASE StoreSessions
    <2>1. /\ list' = NoList
          /\ UNCHANGED <<sending, remote, gen, worker, before, connVars, serverVars>>
      BY <1>1, StoreIs
    <2>2. /\ (Holding(outbox) /\ Holding(file))'
          /\ message' \in [Messages -> CallerType]
          /\ UNCHANGED faults \/ Fails("disk")
      <3>1. CASE UNCHANGED <<outbox, file, message, faults>>
        BY <3>1, HoldingStays DEF Types
      <3>2. CASE /\ Holding(outbox') /\ Save(outbox')
                 /\ message' \in [Messages -> CallerType]
        BY <3>2, SaveIs, HoldingMoves
      <3> QED
        BY <1>1, <3>1, <3>2, StoreIs
    <2>3. GenIs' /\ faults' \subseteq Fault
      BY <2>1, <2>2, GenStays
    <2>4. WorkerTypes' /\ Conns'
      BY <2>1 DEF connVars, Types, Conns, WorkerTypes, Active, Item, At
    <2>5. list'.sessions \subseteq Sessions
      BY <2>1 DEF NoList
    <2> QED
      BY <2>1, <2>2, <2>3, <2>4, <2>5 DEF Types, connVars, serverVars
  <1>2. ASSUME NEW c \in open, ReadList(c)
        PROVE  Types'
    <2> USE <1>2 DEF ReadList, linkVars, callerVars, connVars, serverVars
    <2>1. WorkerTypes' /\ Conns' /\ GenIs'
      BY DEF Types, Conns, WorkerTypes, Active, Item, At, GenIs
    <2>2. (Holding(outbox) /\ Holding(file))'
      BY HoldingStays
    <2> QED
      BY <2>1, <2>2 DEF Types
  <1> QED
    BY <1>1, <1>2 DEF Listing

\* A request is answered.
LEMMA TakeIs ==
  ASSUME Types, NEW r \in wire, Take(r)
  PROVE  \E ok \in BOOLEAN, answered \in SUBSET RequestType :
           /\ r.answer = "none"
           /\ ok => SessionOf[r.msg] \in sessions
           /\ got' = IF ok THEN Append(got, [msg |-> r.msg, text |-> r.text]) ELSE got
           /\ wire' = (wire \ {r}) \cup answered
           /\ IF r.conn \in open THEN UNCHANGED faults ELSE Fails("late")
           /\ r.conn \notin open => answered = {}
           /\ \A x \in answered :
                /\ x.conn = r.conn /\ x.msg = r.msg /\ x.text = r.text
                /\ x.held = r.held /\ x.answer = IF ok THEN "ok" ELSE "error"
           /\ \A x, y \in answered : x = y
           /\ UNCHANGED <<linkVars, gen, worker, callerVars, made, open, drops,
                          sessions, list>>
  <1>1. PICK ok \in BOOLEAN :
           /\ ok => SessionOf[r.msg] \in sessions
           /\ got' = IF ok THEN Append(got, [msg |-> r.msg, text |-> r.text]) ELSE got
           /\ wire' = (wire \ {r}) \cup
                 IF r.conn \in open
                 THEN {[r EXCEPT !.answer = IF ok THEN "ok" ELSE "error"]}
                 ELSE {}
    BY DEF Take
  <1> DEFINE a == IF ok THEN "ok" ELSE "error"
             x == [r EXCEPT !.answer = a]
  <1>2. a \in {"ok", "error"}
    OBVIOUS
  <1>3. r \in RequestType
    BY DEF Types
  <1>4. wire' = (wire \ {r}) \cup IF r.conn \in open THEN {x} ELSE {}
    BY <1>1
  <1> HIDE DEF a
  <1>5. /\ x \in RequestType
        /\ x.conn = r.conn /\ x.msg = r.msg /\ x.text = r.text
        /\ x.held = r.held /\ x.answer = a
    BY <1>2, <1>3 DEF RequestType
  <1> HIDE DEF x
  <1> DEFINE answered == IF r.conn \in open THEN {x} ELSE {}
  <1>6. /\ answered \in SUBSET RequestType
        /\ r.conn \notin open => answered = {}
        /\ \A y \in answered : y = x
    BY <1>5
  <1>7. wire' = (wire \ {r}) \cup answered
    BY <1>4
  <1> HIDE DEF answered
  <1>8. /\ r.answer = "none"
        /\ IF r.conn \in open THEN UNCHANGED faults ELSE Fails("late")
        /\ UNCHANGED <<linkVars, gen, worker, callerVars, made, open, drops,
                          sessions, list>>
    BY DEF Take
  <1>9. \A y \in answered :
                /\ y.conn = r.conn /\ y.msg = r.msg /\ y.text = r.text
                /\ y.held = r.held /\ y.answer = IF ok THEN "ok" ELSE "error"
    BY <1>5, <1>6 DEF a
  <1>10. \A y, z \in answered : y = z
    BY <1>6
  <1> QED
    BY <1>1, <1>6, <1>7, <1>8, <1>9, <1>10

LEMMA ServerTypes ==
  ASSUME Types, Server
  PROVE  Types'
  <1>1. ASSUME NEW r \in wire, Take(r)
        PROVE  Types'
    <2>1. PICK ok \in BOOLEAN, answered \in SUBSET RequestType :
           /\ got' = IF ok THEN Append(got, [msg |-> r.msg, text |-> r.text]) ELSE got
           /\ wire' = (wire \ {r}) \cup answered
           /\ IF r.conn \in open THEN UNCHANGED faults ELSE Fails("late")
           /\ \A x \in answered : x.conn = r.conn
           /\ UNCHANGED <<linkVars, gen, worker, callerVars, made, open, drops,
                          sessions, list>>
      BY <1>1, TakeIs
    <2>2. wire' \subseteq RequestType
      BY <2>1 DEF Types
    <2>3. got' \in Seq(TakenType)
      <3>1. [msg |-> r.msg, text |-> r.text] \in TakenType
        BY DEF Types, RequestType, TakenType
      <3>2. Append(got, [msg |-> r.msg, text |-> r.text]) \in Seq(TakenType)
        BY <3>1, AppendProperties DEF Types
      <3> QED
        BY <2>1, <3>2 DEF Types
    <2>4. GenIs' /\ faults' \subseteq Fault
      BY <2>1, GenStays
    <2>5. Conns'
      <3>1. \A x \in wire' : x.conn <= made
        BY <2>1 DEF Types, Conns
      <3> QED
        BY <2>1, <3>1 DEF Types, Conns, linkVars
    <2>6. WorkerTypes'
      BY <2>1 DEF Types, WorkerTypes, Active, Item, At
    <2>7. (Holding(outbox) /\ Holding(file))'
      BY <2>1, HoldingStays DEF linkVars
    <2> QED
      BY <2>1, <2>2, <2>3, <2>4, <2>5, <2>6, <2>7 DEF Types, linkVars, callerVars
  <1>2. ASSUME NEW r \in wire, Hear(r)
        PROVE  Types'
    <2> USE DEF linkVars, serverVars
    <2>1. wire' \subseteq wire
      BY <1>2 DEF Hear
    <2>2. r.msg \in Messages
      BY DEF Types, RequestType
    <2>3. (Holding(outbox) /\ Holding(file))' /\ GenIs'
      BY <1>2, HoldingStays DEF Hear, Types, GenIs
    <2>4. CASE r.held
      <3>1. PICK g \in Gens : /\ At(g, "waiting")
                              /\ Result(g, IF r.answer = "ok" THEN "sent" ELSE "refused")
        BY <1>2, <2>4 DEF Hear
      <3> DEFINE outcome == IF r.answer = "ok" THEN "sent" ELSE "refused"
      <3>2. outcome \in Outcome /\ outcome # "none"
        BY DEF Outcome
      <3>3. Result(g, outcome)
        BY <3>1
      <3> HIDE DEF outcome
      <3>4. Turn(g, "settle", worker[g].conn, Item(g), outcome)
        BY <3>2, <3>3, ResultIs
      <3>5. Item(g) \in Queued
        BY <3>1 DEF At, Types, WorkerTypes, Active
      <3>6. WorkerTypes'
        BY <3>2, <3>4, <3>5, TurnTypes
      <3>7. Conns'
        <4>1. \A h \in Gens : worker'[h].conn <= made
          BY <3>4 DEF Turn, Types, Conns
        <4> QED
          BY <1>2, <2>1, <4>1 DEF Hear, Types, Conns
      <3> QED
        BY <1>2, <2>1, <2>3, <2>4, <3>6, <3>7 DEF Hear, Types
    <2>5. CASE ~r.held
      <3>1. Becomes(r.msg, IF r.answer = "ok" THEN "accepted" ELSE "rejected")
        BY <1>2, <2>5 DEF Hear
      <3>2. message' \in [Messages -> CallerType]
        <4>1. message \in [Messages -> CallerType]
          BY DEF Types
        <4>2. CASE r.answer = "ok"
          BY <2>2, <3>1, <4>1, <4>2, BecomesIs DEF Mine
        <4>3. CASE r.answer # "ok"
          BY <2>2, <3>1, <4>1, <4>3, BecomesIs DEF Mine
        <4> QED
          BY <4>2, <4>3
      <3>3. WorkerTypes' /\ Conns'
        BY <1>2, <2>1, <2>5 DEF Hear, Types, WorkerTypes, Conns, Active, Item, At
      <3> QED
        BY <1>2, <2>1, <2>3, <2>5, <3>2, <3>3 DEF Hear, Types
    <2> QED
      BY <2>4, <2>5
  <1>3. ASSUME NEW s \in sessions, Delete(s)
        PROVE  Types'
    <2> USE <1>3 DEF Delete, linkVars, callerVars, connVars
    <2>1. WorkerTypes' /\ Conns'
      BY DEF Types, Conns, WorkerTypes, Active, Item, At
    <2>2. GenIs' /\ faults' \subseteq Fault
      BY GenStays
    <2>3. (Holding(outbox) /\ Holding(file))'
      BY HoldingStays
    <2> QED
      BY <2>1, <2>2, <2>3 DEF Types
  <1> QED
    BY <1>1, <1>2, <1>3 DEF Server

LEMMA NewLinkGen ==
  ASSUME Types, NewLink, Fails("restart") \/ Fails("reload")
  PROVE  /\ GenIs' /\ faults' \subseteq Fault
         /\ gen' = gen + 1 /\ gen' \in Gens /\ gen \in Gens
  BY DEF NewLink, Fails, Types, GenIs, Gens

LEMMA NewWorkerIs ==
  /\ NewWorker \in WorkerType
  /\ NewWorker.pc = "off" /\ NewWorker.conn = 0
  /\ NewWorker.item = NoItem /\ NewWorker.outcome = "none"
  BY DEF NewWorker, WorkerType, WorkerPc, Outcome

LEMMA ServiceTypes ==
  ASSUME Types, Service
  PROVE  Types'
  <1>1. CASE Restart
    <2>1. GenIs' /\ faults' \subseteq Fault /\ gen' \in Gens
      BY <1>1, NewLinkGen DEF Restart
    <2>2. (Holding(outbox) /\ Holding(file))'
      BY <1>1 DEF Restart, NewLink, Types, Holding, Increasing
    <2>3. ASSUME NEW g \in Gens
          PROVE  worker'[g] \in {NewWorker, Ended}
      BY <1>1 DEF Restart
    <2>4. worker' \in [Gens -> WorkerType]
      <3>1. worker' = [g \in Gens |-> worker'[g]]
        BY <1>1 DEF Restart
      <3> QED
        BY <2>3, <3>1, NewWorkerIs, EndedIs
    <2>5. WorkerTypes'
      BY <2>3, <2>4, NewWorkerIs, EndedIs DEF WorkerTypes, Active, Item, At
    <2>6. wire' \subseteq wire
      BY <1>1 DEF Restart
    <2>7. Conns'
      <3>1. made' = made /\ open' = {} /\ remote' = 0
        BY <1>1 DEF Restart, NewLink
      <3> QED
        BY <2>3, <2>6, <3>1, NewWorkerIs, EndedIs DEF Types, Conns
    <2>8. message' \in [Messages -> CallerType]
      <3>1. [pc |-> "failed", conn |-> 0] \in CallerType
        BY CallerIs DEF Mine
      <3> QED
        BY <1>1, <3>1 DEF Restart, Types
    <2>9. UNCHANGED <<before, got, sessions>> /\ sending' = 0 /\ list'.sessions = {}
      BY <1>1 DEF Restart, NewLink, serverVars, NoList
    <2> QED
      BY <2>1, <2>2, <2>5, <2>6, <2>7, <2>8, <2>9 DEF Types
  <1>2. CASE Reload
    <2>1. GenIs' /\ faults' \subseteq Fault /\ gen' \in Gens
      BY <1>2, NewLinkGen DEF Reload
    <2>2. (Holding(outbox) /\ Holding(file))'
      BY <1>2 DEF Reload, NewLink, Types, Holding, Increasing
    <2>3. worker' = [worker EXCEPT ![gen'] = NewWorker]
      BY <1>2 DEF Reload
    <2>4. /\ worker' \in [Gens -> WorkerType]
          /\ \A g \in Gens : worker'[g] = IF g = gen' THEN NewWorker ELSE worker[g]
      BY <2>1, <2>3, NewWorkerIs DEF Types, WorkerTypes
    <2>5. WorkerTypes'
      BY <2>4, NewWorkerIs DEF Types, WorkerTypes, Active, Item, At
    <2>6. Conns'
      <3>1. UNCHANGED <<made, open, wire>> /\ remote' = 0
        BY <1>2 DEF Reload, NewLink, connVars
      <3>2. \A g \in Gens : worker'[g].conn <= made
        BY <2>4, NewWorkerIs DEF Types, Conns
      <3> QED
        BY <3>1, <3>2 DEF Types, Conns
    <2>7. UNCHANGED <<message, before, wire, got, sessions, list>> /\ sending' = 0
      BY <1>2 DEF Reload, NewLink, serverVars, callerVars, connVars
    <2> QED
      BY <2>1, <2>2, <2>5, <2>6, <2>7 DEF Types
  <1> QED
    BY <1>1, <1>2 DEF Service

LEMMA TypesStep ==
  ASSUME Types, [Next]_vars
  PROVE  Types'
  <1>1. CASE Next
    <2>1. ASSUME NEW i \in DOMAIN outbox, EditHeld(i) \/ RemoveHeld(i)
          PROVE  Types'
      BY <2>1, UserTypes
    <2> QED
      BY <1>1, <2>1, CallerTypes, WorkerStepTypes, DropTypes, ListingTypes,
         ServerTypes, ServiceTypes DEF Next, User
  <1>2. CASE UNCHANGED vars
    <2> USE <1>2 DEF vars, linkVars, callerVars, connVars, serverVars
    <2>1. WorkerTypes' /\ Conns' /\ GenIs'
      BY DEF Types, Conns, WorkerTypes, Active, Item, At, GenIs
    <2>2. (Holding(outbox) /\ Holding(file))'
      BY HoldingStays
    <2> QED
      BY <2>1, <2>2 DEF Types
  <1> QED
    BY <1>1, <1>2

\* The types of Link and its parts hold, and held messages keep the order in
\* which they were numbered, in the outbox and in its file.
THEOREM TypeCorrect == Spec => []TypeOK
  <1>1. Types => TypeOK
    <2> SUFFICES ASSUME Types
                 PROVE  TypeOK
      OBVIOUS
    <2>1. outbox \in Seq(Queued) /\ file \in Seq(Queued)
            /\ Increasing(outbox) /\ Increasing(file)
      BY DEF Types, Holding
    <2>2. \A g \in Gens : /\ worker[g].outcome \in Outcome
                          /\ worker[g].item # NoItem => worker[g].item \in Queued
      BY WorkerFields DEF Item
    <2> QED
      BY <2>1, <2>2, GenInGens DEF TypeOK, Types, Conns
  <1> QED
    BY <1>1, TypesInit, TypesStep, PTL DEF Spec

-----------------------------------------------------------------------------
(* Who a request is from *)

Waits(m, c) == Is(m, {"waiting"}) /\ message[m].conn = c

Serves(g, r) ==
  /\ At(g, "waiting") /\ worker[g].conn = r.conn
  /\ Item(g).msg = r.msg /\ Item(g).text = r.text

GoodRequest(r) ==
  /\ r.answer # "none" => r.conn \in open
  /\ r.answer = "ok" => Delivered(r.msg)
  /\ r.held =>
       /\ Is(r.msg, Taken)
       /\ r.conn \in open => \E g \in Gens : Serves(g, r)
  /\ ~r.held =>
       /\ r.conn \in open => Waits(r.msg, r.conn)
       /\ r.conn \notin open => Is(r.msg, {"failed"})
       /\ r.answer = "none" => ~Delivered(r.msg)

\* Requests from the same worker, or the same caller.
SameSource(r, s) ==
  \/ r.held /\ s.held /\ r.conn = s.conn /\ r.conn \in open
  \/ ~r.held /\ ~s.held /\ r.msg = s.msg

Requests ==
  /\ \A r \in wire : GoodRequest(r)
  /\ \A r, s \in wire : SameSource(r, s) => r = s

Unsent(m) == ~Delivered(m) /\ \A r \in wire : r.msg # m

Fresh == \A m \in Messages : Is(m, {"new", "direct", "hold"}) => Unsent(m)

GoodWorker(g) ==
  /\ g > gen => worker[g] = Ended
  /\ At(g, "waiting") => worker[g].conn \in open
  /\ Active(g) => Is(Item(g).msg, Taken)

Workers ==
  /\ \A g \in Gens : GoodWorker(g)
  /\ \A g, h \in Gens :
       worker[g].conn = worker[h].conn /\ worker[g].conn # 0 => g = h

Lines == Requests /\ Fresh /\ Workers

\* What was taken stays taken.
TakenStay == \A m \in Messages : Is(m, Taken) => Is(m, Taken)'

LEMMA ItemMsg ==
  ASSUME Types, NEW g \in Gens, Active(g)
  PROVE  Item(g) \in Queued /\ Item(g).msg \in Messages /\ Item(g).text \in Text
  BY DEF Types, WorkerTypes, Queued

LEMMA RequestMsg ==
  ASSUME Types, NEW r \in wire
  PROVE  /\ r \in RequestType /\ r.msg \in Messages /\ r.text \in Text
         /\ r.conn \in Nat /\ r.conn <= made
         /\ r.held \in BOOLEAN /\ r.answer \in {"none", "ok", "error"}
  BY DEF Types, RequestType, Conns

LEMMA DeliveredSame ==
  ASSUME UNCHANGED got
  PROVE  /\ \A m : Delivered(m)' <=> Delivered(m)
         /\ \A m : First(m)' = First(m)
  BY DEF Delivered, First

\* A step of a worker that does not wait, or that takes up waiting, leaves the
\* other workers' requests served.
LEMMA ServesStays ==
  ASSUME Types, NEW g \in Gens, NEW pc, NEW c, NEW item, NEW outcome,
         Turn(g, pc, c, item, outcome), ~At(g, "waiting"),
         NEW h \in Gens, NEW r, Serves(h, r)
  PROVE  Serves(h, r)'
  <1>1. h # g
    BY DEF Serves
  <1>2. worker'[h] = worker[h]
    BY <1>1 DEF Turn
  <1> QED
    BY <1>2 DEF Serves, At, Item

LEMMA WorkersTurn ==
  ASSUME Types, Workers, NEW g \in Gens, NEW pc, NEW c, NEW item, NEW outcome,
         Turn(g, pc, c, item, outcome),
         gen' = gen, open \subseteq open', TakenStay,
         g <= gen,
         c = worker[g].conn \/ c = 0 \/ \A h \in Gens : worker[h].conn # c,
         pc = "waiting" => c \in open',
         pc \in {"look", "send", "waiting", "settle"} =>
           item.msg \in Messages /\ Is(item.msg, Taken)
  PROVE  Workers'
  <1>1. GoodWorker(g)'
    <2>1. ~(g > gen)
      BY GenInGens DEF Gens
    <2>2. At(g, "waiting")' => worker'[g].conn \in open'
      BY DEF Turn, At
    <2>3. ASSUME Active(g)'
          PROVE  Is(Item(g).msg, Taken)'
      <3>1. item.msg \in Messages /\ Is(item.msg, Taken) /\ worker'[g].item = item
        BY <2>3 DEF Turn, Active
      <3>2. Is(item.msg, Taken)'
        BY <3>1 DEF TakenStay
      <3> QED
        BY <3>1, <3>2 DEF Is, Item
    <2> QED
      BY <2>1, <2>2, <2>3 DEF GoodWorker
  <1>2. ASSUME NEW h \in Gens, h # g
        PROVE  GoodWorker(h)'
    <2>1. worker'[h] = worker[h]
      BY <1>2 DEF Turn
    <2>2. GoodWorker(h)
      BY DEF Workers
    <2>3. ASSUME Active(h)
          PROVE  Is(Item(h).msg, Taken)'
      <3>1. Item(h).msg \in Messages /\ Is(Item(h).msg, Taken)
        BY <2>2, <2>3, ItemMsg DEF GoodWorker
      <3> QED
        BY <2>1, <3>1 DEF TakenStay, Is, Item
    <2> QED
      BY <2>1, <2>2, <2>3 DEF GoodWorker, At, Active, Item, Is
  <1>3. ASSUME NEW h \in Gens, NEW k \in Gens,
               worker'[h].conn = worker'[k].conn, worker'[h].conn # 0
        PROVE  h = k
    <2>1. \A x \in Gens : worker'[x].conn = IF x = g THEN c ELSE worker[x].conn
      BY DEF Turn
    <2> QED
      BY <1>3, <2>1 DEF Workers
  <1> QED
    BY <1>1, <1>2, <1>3 DEF Workers

\* The workers are left alone.
LEMMA WorkersStay ==
  ASSUME Types, Workers, UNCHANGED <<worker, gen, open>>, TakenStay
  PROVE  Workers'
  <1>1. ASSUME NEW g \in Gens
        PROVE  GoodWorker(g)'
    <2>1. GoodWorker(g)
      BY DEF Workers
    <2>2. ASSUME Active(g)
          PROVE  Is(Item(g).msg, Taken)'
      <3>1. Item(g).msg \in Messages /\ Is(Item(g).msg, Taken)
        BY <2>1, <2>2, ItemMsg DEF GoodWorker
      <3> QED
        BY <3>1 DEF TakenStay, Is, Item
    <2> QED
      BY <2>1, <2>2 DEF GoodWorker, At, Active, Item, Is
  <1> QED
    BY <1>1 DEF Workers

\* The requests are left alone, and so are those who wait for them.
LEMMA RequestsStay ==
  ASSUME Types, Requests, UNCHANGED <<wire, got>>,
         open \subseteq open', \A c \in open' : c \in open \/ c > made,
         TakenStay,
         \A m \in Messages : Is(m, {"waiting", "failed"}) => message'[m] = message[m],
         \A g \in Gens, r \in wire : Serves(g, r) => \E h \in Gens : Serves(h, r)'
  PROVE  Requests'
  <1>1. ASSUME NEW r \in wire
        PROVE  GoodRequest(r)'
    <2>1. GoodRequest(r) /\ r.msg \in Messages /\ r.conn \in Nat /\ r.conn <= made
            /\ made \in Nat
      BY RequestMsg DEF Requests, Types, Conns
    <2>2. r.conn \in open' <=> r.conn \in open
      BY <2>1 DEF Types, Conns
    <2>3. Is(r.msg, Taken) => Is(r.msg, Taken)'
      BY <2>1 DEF TakenStay
    <2>4. Waits(r.msg, r.conn) => Waits(r.msg, r.conn)'
      BY <2>1 DEF Waits, Is
    <2>5. Is(r.msg, {"failed"}) => Is(r.msg, {"failed"})'
      BY <2>1 DEF Is
    <2>6. Delivered(r.msg)' <=> Delivered(r.msg)
      BY DeliveredSame
    <2>7. (\E g \in Gens : Serves(g, r)) => \E h \in Gens : Serves(h, r)'
      OBVIOUS
    <2> QED
      BY <2>1, <2>2, <2>3, <2>4, <2>5, <2>6, <2>7 DEF GoodRequest
  <1>2. ASSUME NEW r \in wire, NEW s \in wire, SameSource(r, s)'
        PROVE  r = s
    <2>1. r.conn \in open' <=> r.conn \in open
      BY RequestMsg DEF Types, Conns
    <2>2. SameSource(r, s)
      BY <1>2, <2>1 DEF SameSource
    <2> QED
      BY <2>2 DEF Requests
  <1> QED
    BY <1>1, <1>2 DEF Requests

LEMMA FreshStays ==
  ASSUME Types, Fresh, UNCHANGED got, wire' \subseteq wire,
         \A m \in Messages : Is(m, {"new", "direct", "hold"})' =>
           Is(m, {"new", "direct", "hold"})
  PROVE  Fresh'
  <1>1. ASSUME NEW m \in Messages, Is(m, {"new", "direct", "hold"})'
        PROVE  Unsent(m)'
    <2>1. Unsent(m)
      BY <1>1 DEF Fresh
    <2> QED
      BY <2>1, DeliveredSame DEF Unsent
  <1> QED
    BY <1>1 DEF Fresh

LEMMA MessagesStay ==
  ASSUME UNCHANGED message
  PROVE  /\ TakenStay
         /\ \A m \in Messages : message'[m] = message[m]
         /\ \A m, S : Is(m, S)' <=> Is(m, S)
  BY DEF TakenStay, Is

-----------------------------------------------------------------------------
(* What is on the lines, after a step of a caller or a user *)

Queue == {"held", "refused", "dropped", "cut"}

\* A message that is held, or was, is in one of these states, once.
Held(o) ==
  /\ \A e \in Range(o) : /\ Is(e.msg, Queue)
                         /\ Is(e.msg, {"held"}) => ~e.error
  /\ \A e, f \in Range(o) : e.msg = f.msg => e = f

LEMMA HeldMsg ==
  ASSUME Types, Held(outbox), NEW e \in Range(outbox)
  PROVE  /\ e \in Queued /\ e.msg \in Messages /\ e.text \in Text /\ e.id \in Nat
         /\ Is(e.msg, Queue) /\ Is(e.msg, Taken)
         /\ ~Is(e.msg, Mine)
  <1>1. e \in Queued
    BY Members DEF Types
  <1> QED
    BY <1>1 DEF Queued, Held, Is, Queue, Taken, Mine

\* Only the message m changes, to the state pc.
Turns(m, pc) ==
  /\ message'[m].pc = pc
  /\ \A x \in Messages : x # m => message'[x] = message[x]

LEMMA TurnsFrame ==
  ASSUME NEW m \in Messages, NEW pc, Turns(m, pc),
         ~Is(m, {"waiting", "failed"}),
         Is(m, Taken) => pc \in Taken,
         pc \in {"new", "direct", "hold"} => Is(m, {"new", "direct", "hold"})
  PROVE  /\ TakenStay
         /\ \A x \in Messages : Is(x, {"waiting", "failed"}) => message'[x] = message[x]
         /\ \A x \in Messages : Is(x, {"new", "direct", "hold"})' =>
              Is(x, {"new", "direct", "hold"})
  BY DEF Turns, TakenStay, Is

LEMMA BecomesTurns ==
  ASSUME Types, NEW m \in Messages, NEW pc, Becomes(m, pc)
  PROVE  Turns(m, pc)
  BY DEF Types, Becomes, Turns

\* A change of one message's state that concerns no request.
LEMMA LinesTurn ==
  ASSUME Types, Lines, NEW m \in Messages, NEW pc, Turns(m, pc),
         ~Is(m, {"waiting", "failed"}),
         Is(m, Taken) => pc \in Taken,
         pc \in {"new", "direct", "hold"} => Is(m, {"new", "direct", "hold"}),
         UNCHANGED <<wire, got, open, worker, gen>>
  PROVE  Lines'
  <1>1. /\ TakenStay
        /\ \A x \in Messages : Is(x, {"waiting", "failed"}) => message'[x] = message[x]
        /\ \A x \in Messages : Is(x, {"new", "direct", "hold"})' =>
             Is(x, {"new", "direct", "hold"})
    BY TurnsFrame
  <1>2. \A g \in Gens, r \in wire : Serves(g, r) => \E h \in Gens : Serves(h, r)'
    BY DEF Serves, At, Item
  <1>3. \A c \in open' : c \in open \/ c > made
    OBVIOUS
  <1> QED
    BY <1>1, <1>2, <1>3, WorkersStay, RequestsStay, FreshStays DEF Lines

\* A step that concerns neither messages nor requests.
LEMMA LinesStay ==
  ASSUME Types, Lines, UNCHANGED <<message, wire, got, open, worker, gen>>
  PROVE  Lines'
  <1>1. \A g \in Gens, r \in wire : Serves(g, r) => \E h \in Gens : Serves(h, r)'
    BY DEF Serves, At, Item
  <1>2. \A c \in open' : c \in open \/ c > made
    OBVIOUS
  <1> QED
    BY <1>1, <1>2, MessagesStay, WorkersStay, RequestsStay, FreshStays DEF Lines

LEMMA CheckIs ==
  ASSUME Types, NEW m \in Messages, Check(m)
  PROVE  \E pc \in {"direct", "hold"} : Turns(m, pc)
  BY BecomesTurns DEF Check, Types, Turns

LEMMA LinesCaller ==
  ASSUME Types, Lines, NEW m \in Messages, Caller(m)
  PROVE  Lines'
  <1>1. CASE Check(m)
    <2>1. PICK pc \in {"direct", "hold"} : Turns(m, pc)
      BY <1>1, CheckIs
    <2>2. Is(m, {"new"})
      BY <1>1 DEF Check
    <2>3. /\ ~Is(m, {"waiting", "failed"}) /\ ~Is(m, Taken)
          /\ Is(m, {"new", "direct", "hold"})
      BY <2>2 DEF Is, Taken
    <2>4. UNCHANGED <<wire, got, open, worker, gen>>
      BY <1>1 DEF Check, connVars, serverVars
    <2> QED
      BY <2>1, <2>3, <2>4, LinesTurn
  <1>2. CASE SendNow(m)
    <2>0. PICK c, r : c = message[m].conn /\ r = Request(c, m, Typed[m], FALSE)
      OBVIOUS
    <2>1. Is(m, {"direct"}) /\ Unsent(m) /\ UNCHANGED <<got, open, worker, gen>>
      BY <1>2 DEF SendNow, Lines, Fresh, Is, serverVars
    <2>2. CASE c \in open
      <3>1. wire' = wire \cup {r} /\ message' = [message EXCEPT ![m].pc = "waiting"]
        BY <1>2, <2>0, <2>2 DEF SendNow
      <3>2. /\ r.conn = c /\ r.msg = m /\ r.held = FALSE /\ r.answer = "none"
        BY <2>0 DEF Request
      <3>3. Turns(m, "waiting") /\ message'[m].conn = c
        BY <2>0, <3>1 DEF Types, CallerType, Turns
      <3>4. TakenStay
        BY <2>1, <3>3 DEF TakenStay, Turns, Is, Taken
      <3>5. Workers'
        BY <2>1, <3>4, WorkersStay DEF Lines
      <3>6. Fresh'
        <4> SUFFICES ASSUME NEW x \in Messages, Is(x, {"new", "direct", "hold"})'
                     PROVE  Unsent(x)'
          BY DEF Fresh
        <4>1. x # m
          BY <3>3 DEF Turns, Is
        <4>2. Is(x, {"new", "direct", "hold"})
          BY <4>1, <3>3 DEF Turns, Is
        <4> QED
          BY <2>1, <3>1, <3>2, <4>1, <4>2, DeliveredSame DEF Lines, Fresh, Unsent
      <3>7. ASSUME NEW s \in wire
            PROVE  GoodRequest(s)'
        <4>1. GoodRequest(s) /\ s.msg # m /\ s.msg \in Messages
          BY <2>1, RequestMsg DEF Lines, Requests, Unsent
        <4>2. message'[s.msg] = message[s.msg]
          BY <3>3, <4>1 DEF Turns
        <4>3. \A g \in Gens : Serves(g, s)' <=> Serves(g, s)
          BY <2>1 DEF Serves, At, Item
        <4> QED
          BY <2>1, <4>1, <4>2, <4>3, DeliveredSame DEF GoodRequest, Is, Waits
      <3>8. GoodRequest(r)'
        <4>1. Waits(m, c)'
          BY <3>3 DEF Waits, Turns, Is
        <4>2. ~Delivered(m)'
          BY <2>1, DeliveredSame DEF Unsent
        <4> QED
          BY <2>1, <2>2, <3>2, <4>1, <4>2 DEF GoodRequest, Waits, Is
      <3>9. ASSUME NEW s \in wire, NEW t \in wire, SameSource(s, t)'
            PROVE  s = t
        <4>1. SameSource(s, t)
          BY <2>1, <3>9 DEF SameSource
        <4> QED
          BY <4>1 DEF Lines, Requests
      <3>10. \A s \in wire : ~SameSource(s, r)' /\ ~SameSource(r, s)'
        BY <2>1, <3>2 DEF SameSource, Unsent
      <3>11. Requests'
        BY <3>1, <3>7, <3>8, <3>9, <3>10 DEF Requests
      <3> QED
        BY <3>5, <3>6, <3>11 DEF Lines
    <2>3. CASE c \notin open
      <3>1. Turns(m, "hold") /\ UNCHANGED wire
        BY <1>2, <2>0, <2>3, BecomesTurns DEF SendNow
      <3>2. /\ ~Is(m, {"waiting", "failed"}) /\ ~Is(m, Taken)
            /\ Is(m, {"new", "direct", "hold"})
        BY <2>1 DEF Is, Taken
      <3> QED
        BY <2>1, <3>1, <3>2, LinesTurn
    <2> QED
      BY <2>2, <2>3
  <1>3. CASE Hold(m)
    <2>1. Is(m, {"hold"}) /\ UNCHANGED <<wire, got, open, worker, gen>>
      BY <1>3 DEF Hold, connVars, serverVars
    <2>2. PICK pc \in {"held", "failed"} : Turns(m, pc)
      BY <1>3, BecomesTurns DEF Hold
    <2>3. ~Is(m, {"waiting", "failed"}) /\ ~Is(m, Taken)
      BY <2>1 DEF Is, Taken
    <2> QED
      BY <2>1, <2>2, <2>3, LinesTurn
  <1> QED
    BY <1>1, <1>2, <1>3 DEF Caller

LEMMA LinesUser ==
  ASSUME Types, Lines, Held(outbox), NEW i \in DOMAIN outbox,
         EditHeld(i) \/ RemoveHeld(i)
  PROVE  Lines'
  <1>1. CASE EditHeld(i)
    BY <1>1, LinesStay DEF EditHeld, callerVars, connVars, serverVars
  <1>2. CASE RemoveHeld(i)
    <2>1. /\ outbox[i].msg \in Messages
          /\ Is(outbox[i].msg, Taken) /\ ~Is(outbox[i].msg, Mine)
      BY Members, HeldMsg DEF Types
    <2>2. \E pc \in {"abandoned", "removed"} : Turns(outbox[i].msg, pc)
      BY <1>2, <2>1, BecomesTurns DEF RemoveHeld
    <2>3. ~Is(outbox[i].msg, {"waiting", "failed"})
      BY <2>1 DEF Is, Mine
    <2>4. UNCHANGED <<wire, got, open, worker, gen>>
      BY <1>2 DEF RemoveHeld, connVars, serverVars
    <2> QED
      BY <2>1, <2>2, <2>3, <2>4, LinesTurn DEF Taken
  <1> QED
    BY <1>1, <1>2

-----------------------------------------------------------------------------
(* What is on the lines, after a step of a worker *)

\* A worker that is at work has a link, old or new.
LEMMA WorkerOfGen ==
  ASSUME Types, Workers, NEW g \in Gens, worker[g].pc # "ended"
  PROVE  g <= gen /\ gen \in Nat /\ g \in Nat
  BY GenInGens, EndedIs DEF Workers, GoodWorker, Gens

\* A worker that neither waits nor comes to wait.
LEMMA LinesTurns ==
  ASSUME Types, Lines, NEW g \in Gens, NEW pc, NEW c, NEW item, NEW outcome,
         Turn(g, pc, c, item, outcome), ~At(g, "waiting"),
         worker[g].pc # "ended",
         UNCHANGED <<wire, got, gen>>,
         c = worker[g].conn \/ c = 0 \/ \A h \in Gens : worker[h].conn # c,
         open \subseteq open', \A x \in open' : x \in open \/ x > made,
         TakenStay,
         \A m \in Messages : Is(m, {"waiting", "failed"}) => message'[m] = message[m],
         \A m \in Messages : Is(m, {"new", "direct", "hold"})' =>
           Is(m, {"new", "direct", "hold"}),
         pc # "waiting",
         pc \in {"look", "send", "settle"} =>
           item.msg \in Messages /\ Is(item.msg, Taken)
  PROVE  Lines'
  <1>1. Workers'
    BY WorkerOfGen, WorkersTurn DEF Lines
  <1>2. \A h \in Gens, r \in wire : Serves(h, r) => \E k \in Gens : Serves(k, r)'
    BY ServesStays
  <1>3. Requests'
    BY <1>2, RequestsStay DEF Lines
  <1> QED
    BY <1>1, <1>3, FreshStays DEF Lines

LEMMA ActiveItem ==
  ASSUME Types, Lines, NEW g \in Gens, Active(g)
  PROVE  /\ Item(g) \in Queued /\ Item(g).msg \in Messages
         /\ Item(g).text \in Text /\ Is(Item(g).msg, Taken)
  BY ItemMsg DEF Lines, Workers, GoodWorker

\* Which message a refusal concerns.
LEMMA RefusalIs ==
  ASSUME Types, NEW id, NEW outcome, Refusal(id, outcome)
  PROVE  \/ UNCHANGED message /\ (outcome # "refused" \/ ~HasId(outbox, id))
         \/ \E e \in Range(outbox) :
              outcome = "refused" /\ e.id = id /\ Turns(e.msg, "refused")
                /\ message' \in [Messages -> CallerType]
  <1>1. CASE outcome = "refused" /\ HasId(outbox, id)
    <2> DEFINE held == CHOOSE i \in DOMAIN outbox : outbox[i].id = id
    <2>1. held \in DOMAIN outbox /\ outbox[held].id = id
      BY <1>1 DEF HasId
    <2>2. Becomes(outbox[held].msg, "refused")
      BY <1>1 DEF Refusal
    <2> HIDE DEF held
    <2>3. outbox[held] \in Range(outbox) /\ outbox[held].msg \in Messages
      BY <2>1, Members DEF Types, Queued
    <2>4. Turns(outbox[held].msg, "refused")
      BY <2>2, <2>3, BecomesTurns
    <2>5. message \in [Messages -> CallerType]
      BY DEF Types
    <2>6. message' \in [Messages -> CallerType]
      BY <2>2, <2>3, <2>5, BecomesIs DEF Taken
    <2> QED
      BY <1>1, <2>1, <2>3, <2>4, <2>6
  <1>2. CASE ~(outcome = "refused" /\ HasId(outbox, id))
    BY <1>2 DEF Refusal
  <1> QED
    BY <1>1, <1>2

LEMMA LinesWorker ==
  ASSUME Types, Lines, Held(outbox), NEW g \in Gens, Worker(g)
  PROVE  Lines'
  <1>0. ASSUME UNCHANGED message
        PROVE  /\ TakenStay
               /\ \A m \in Messages : message'[m] = message[m]
               /\ \A m \in Messages : Is(m, {"new", "direct", "hold"})' =>
                    Is(m, {"new", "direct", "hold"})
    BY <1>0, MessagesStay
  <1>1. CASE Connect(g)
    <2>1. Turn(g, "on", made + 1, Item(g), worker[g].outcome)
      BY <1>1, ConnectIs
    <2>2. open' = open \cup {made + 1} /\ made \in Nat
      BY <1>1 DEF Connect, Types, Conns
    <2>3. \A h \in Gens : worker[h].conn # made + 1
      BY <2>2, WorkerFields DEF Types, Conns
    <2>4. \A x \in open' : x \in open \/ x > made
      BY <2>2
    <2>5. worker[g].pc # "ended" /\ ~At(g, "waiting")
            /\ UNCHANGED <<wire, got, gen, message>>
      BY <1>1 DEF Connect, At, callerVars, serverVars
    <2> QED
      BY <1>0, <2>1, <2>2, <2>3, <2>4, <2>5, LinesTurns
  <1>2. CASE Disconnected(g)
    <2>1. Turn(g, "off", worker[g].conn, Item(g), worker[g].outcome)
      BY <1>2, GoIs DEF Disconnected, WorkerPc
    <2>2. worker[g].pc # "ended" /\ ~At(g, "waiting")
            /\ UNCHANGED <<wire, got, gen, message, open>>
      BY <1>2 DEF Disconnected, At, callerVars, connVars, serverVars
    <2> QED
      BY <1>0, <2>1, <2>2, LinesTurns
  <1>3. CASE Retire(g)
    <2>1. Turn(g, "ended", 0, NoItem, "none")
      BY <1>3, RetireIs DEF Retire
    <2>2. worker[g].pc # "ended" /\ ~At(g, "waiting")
            /\ UNCHANGED <<wire, got, gen, message, open>>
      BY <1>3 DEF Retire, At, callerVars, connVars, serverVars
    <2> QED
      BY <1>0, <2>1, <2>2, LinesTurns
  <1>4. CASE Flush(g)
    <2>1. Turn(g, "flush", worker[g].conn, Item(g), worker[g].outcome)
      BY <1>4, GoIs DEF Flush, WorkerPc
    <2>2. worker[g].pc # "ended" /\ ~At(g, "waiting")
            /\ UNCHANGED <<wire, got, gen, message, open>>
      BY <1>4 DEF Flush, At, callerVars, connVars, serverVars
    <2> QED
      BY <1>0, <2>1, <2>2, LinesTurns
  <1>5. CASE Pick(g)
    <2>1. worker[g].pc # "ended" /\ ~At(g, "waiting")
            /\ UNCHANGED <<wire, got, gen, message, open>>
      BY <1>5 DEF Pick, At, callerVars, connVars, serverVars
    <2>2. CASE AnyReady(outbox)
      <3> DEFINE next == NextReady(outbox)
                 pc == IF next.uncertain THEN "look" ELSE "send"
      <3>1. Turn(g, pc, worker[g].conn, next, worker[g].outcome)
        BY <1>5, <2>2, PickIs
      <3>2. next.msg \in Messages /\ Is(next.msg, Taken)
        <4>1. next \in Range(outbox)
          BY <2>2, NextReadyIn DEF Types
        <4> HIDE DEF next
        <4> QED
          BY <4>1, HeldMsg
      <3>3. pc # "waiting"
        OBVIOUS
      <3> HIDE DEF next, pc
      <3> QED
        BY <1>0, <2>1, <3>1, <3>2, <3>3, LinesTurns
    <2>3. CASE ~AnyReady(outbox)
      <3>1. Turn(g, "on", worker[g].conn, Item(g), worker[g].outcome)
        BY <1>5, <2>3, GoIs DEF Pick, WorkerPc
      <3> QED
        BY <1>0, <2>1, <3>1, LinesTurns
    <2> QED
      BY <2>2, <2>3
  <1>6. CASE Look(g)
    <2>1. worker[g].pc # "ended" /\ ~At(g, "waiting") /\ Active(g)
            /\ UNCHANGED <<wire, got, gen, message, open>>
      BY <1>6 DEF Look, At, Active, callerVars, connVars, serverVars
    <2>2. Item(g).msg \in Messages /\ Is(Item(g).msg, Taken)
      BY <2>1, ActiveItem
    <2>3. CASE Result(g, "sent")
      <3>1. Turn(g, "settle", worker[g].conn, Item(g), "sent")
        BY <2>3, ResultIs DEF Outcome
      <3> QED
        BY <1>0, <2>1, <2>2, <3>1, LinesTurns
    <2>4. CASE Go(g, "send")
      <3>1. Turn(g, "send", worker[g].conn, Item(g), worker[g].outcome)
        BY <2>4, GoIs DEF WorkerPc
      <3> QED
        BY <1>0, <2>1, <2>2, <3>1, LinesTurns
    <2> QED
      BY <1>6, <2>3, <2>4 DEF Look
  <1>7. CASE Send(g)
    <2>1. worker[g].pc # "ended" /\ At(g, "send") /\ ~At(g, "waiting") /\ Active(g)
            /\ UNCHANGED <<got, gen, message, open>>
      BY <1>7 DEF Send, At, Active, callerVars, serverVars
    <2>2. Item(g).msg \in Messages /\ Is(Item(g).msg, Taken)
      BY <2>1, ActiveItem
    <2>3. PICK c, r, m, t : /\ c = worker[g].conn /\ m = Item(g).msg /\ t = Item(g).text
                            /\ r = Request(c, m, t, TRUE)
      OBVIOUS
    <2>4. CASE c \in open
      <3>1. Turn(g, "waiting", c, Item(g), worker[g].outcome)
        BY <1>7, <2>3, <2>4, GoIs DEF Send, WorkerPc
      <3>2. wire' = wire \cup {r}
        BY <1>7, <2>3, <2>4 DEF Send, Item
      <3>3. /\ r.conn = c /\ r.msg = m /\ r.text = t /\ r.held = TRUE
            /\ r.answer = "none"
        BY <2>3 DEF Request
      <3>4. Workers'
        BY <1>0, <2>1, <2>2, <2>3, <2>4, <3>1, WorkerOfGen, WorkersTurn DEF Lines
      <3>5. Fresh'
        <4> SUFFICES ASSUME NEW x \in Messages, Is(x, {"new", "direct", "hold"})'
                     PROVE  Unsent(x)'
          BY DEF Fresh
        <4>1. Is(x, {"new", "direct", "hold"}) /\ Unsent(x)
          BY <1>0, <2>1 DEF Lines, Fresh
        <4>2. x # m
          BY <2>2, <2>3, <4>1 DEF Is, Taken
        <4> QED
          BY <2>1, <3>2, <3>3, <4>1, <4>2, DeliveredSame DEF Unsent
      <3>6. Serves(g, r)'
        BY <2>3, <3>1, <3>3 DEF Serves, Turn, At, Item
      <3>7. GoodRequest(r)'
        <4>1. Is(m, Taken)'
          BY <2>1, <2>2, <2>3 DEF Is
        <4> QED
          BY <3>3, <3>6, <4>1 DEF GoodRequest
      <3>8. ASSUME NEW s \in wire
            PROVE  /\ GoodRequest(s)'
                   /\ ~SameSource(s, r)' /\ ~SameSource(r, s)'
        <4>1. GoodRequest(s)
          BY DEF Lines, Requests
        <4>2. \A h \in Gens : Serves(h, s) => Serves(h, s)'
          BY <2>1, <3>1, ServesStays
        <4>3. s.held /\ s.conn = c => FALSE
          <5> SUFFICES ASSUME s.held, s.conn = c
                       PROVE  FALSE
            OBVIOUS
          <5>1. PICK h \in Gens : Serves(h, s)
            BY <2>4, <4>1 DEF GoodRequest
          <5>2. worker[h].conn = worker[g].conn /\ c # 0
            BY <2>3, <2>4, <5>1 DEF Serves, Types, Conns
          <5>3. h = g
            BY <2>3, <5>2 DEF Lines, Workers
          <5> QED
            BY <2>1, <5>1, <5>3 DEF Serves
        <4>4. GoodRequest(s)'
          <5>1. Delivered(s.msg)' <=> Delivered(s.msg)
            BY <2>1, DeliveredSame
          <5>2. /\ \A S : Is(s.msg, S)' <=> Is(s.msg, S)
                /\ Waits(s.msg, s.conn)' <=> Waits(s.msg, s.conn)
            BY <2>1 DEF Is, Waits
          <5> QED
            BY <2>1, <4>1, <4>2, <5>1, <5>2 DEF GoodRequest
        <4> QED
          BY <3>3, <4>3, <4>4 DEF SameSource
      <3>9. ASSUME NEW s \in wire, NEW x \in wire, SameSource(s, x)'
            PROVE  s = x
        <4>1. SameSource(s, x)
          BY <2>1, <3>9 DEF SameSource
        <4> QED
          BY <4>1 DEF Lines, Requests
      <3>10. Requests'
        BY <3>2, <3>7, <3>8, <3>9 DEF Requests
      <3> QED
        BY <3>4, <3>5, <3>10 DEF Lines
    <2>5. CASE c \notin open
      <3>1. Turn(g, "settle", c, Item(g), "notSent") /\ UNCHANGED wire
        BY <1>7, <2>3, <2>5, ResultIs DEF Send, Outcome
      <3> QED
        BY <1>0, <2>1, <2>2, <2>3, <3>1, LinesTurns
    <2> QED
      BY <2>4, <2>5
  <1>8. CASE Settle(g)
    <2>1. worker[g].pc # "ended" /\ ~At(g, "waiting")
            /\ UNCHANGED <<wire, got, gen, open>>
      BY <1>8 DEF Settle, At, connVars, serverVars
    <2>2. CASE g # gen
      <3>1. Turn(g, "ended", 0, NoItem, "none") /\ UNCHANGED message
        BY <1>8, <2>2, RetireIs DEF Settle, Current
      <3> QED
        BY <1>0, <2>1, <3>1, LinesTurns
    <2>3. CASE g = gen
      <3> DEFINE pc == IF worker[g].outcome \in {"notSent", "lost"} THEN "on" ELSE "flush"
      <3>1. Turn(g, pc, worker[g].conn, NoItem, "none")
        BY <1>8, <2>3, SettleIs
      <3>2. pc \notin {"look", "send", "waiting", "settle"}
        OBVIOUS
      <3> HIDE DEF pc
      <3>3. Refusal(Item(g).id, worker[g].outcome)
        BY <1>8, <2>3 DEF Settle, Current, Item
      <3>4. /\ TakenStay
            /\ \A x \in Messages : Is(x, {"waiting", "failed"}) => message'[x] = message[x]
            /\ \A x \in Messages : Is(x, {"new", "direct", "hold"})' =>
                 Is(x, {"new", "direct", "hold"})
        <4>1. CASE UNCHANGED message
          BY <1>0, <4>1
        <4>2. CASE \E e \in Range(outbox) : Turns(e.msg, "refused")
          <5>1. PICK e \in Range(outbox) : Turns(e.msg, "refused")
            BY <4>2
          <5>2. e.msg \in Messages /\ ~Is(e.msg, {"waiting", "failed"})
            BY HeldMsg DEF Is, Mine
          <5> QED
            BY <5>1, <5>2, TurnsFrame DEF Taken
        <4> QED
          BY <3>3, <4>1, <4>2, RefusalIs
      <3> QED
        BY <2>1, <3>1, <3>2, <3>4, LinesTurns
    <2> QED
      BY <2>2, <2>3
  <1> QED
    BY <1>1, <1>2, <1>3, <1>4, <1>5, <1>6, <1>7, <1>8 DEF Worker

-----------------------------------------------------------------------------
(* What is on the lines, after the other steps *)

LEMMA StoreFrame ==
  ASSUME Types, Held(outbox), StoreSessions
  PROVE  /\ TakenStay
         /\ \A x \in Messages : ~Is(x, Queue) => message'[x] = message[x]
         /\ \A x \in Messages : Is(x, Mine)' => message'[x] = message[x]
         /\ \A x \in Messages : Is(x, {"held", "refused"})' => message'[x] = message[x]
  <1>1. ASSUME NEW x \in Messages
        PROVE  \/ message'[x] = message[x]
               \/ Is(x, Queue) /\ Is(x, {"cut", "dropped"})'
    <2>1. CASE \E e \in Gone : e.msg = x
      <3>1. Is(x, Queue)
        BY <2>1, HeldMsg DEF Gone
      <3> QED
        BY <2>1, <3>1, StoreIs DEF Is
    <2>2. CASE ~\E e \in Gone : e.msg = x
      BY <2>2, StoreIs
    <2> QED
      BY <2>1, <2>2
  <1> QED
    BY <1>1 DEF TakenStay, Is, Taken, Mine, Queue

LEMMA LinesListing ==
  ASSUME Types, Lines, Held(outbox), Listing
  PROVE  Lines'
  <1>1. CASE StoreSessions
    <2>1. UNCHANGED <<wire, got, open, worker, gen>>
      BY <1>1 DEF StoreSessions, connVars, serverVars
    <2>2. /\ TakenStay
          /\ \A x \in Messages : Is(x, {"waiting", "failed"}) => message'[x] = message[x]
          /\ \A x \in Messages : Is(x, {"new", "direct", "hold"})' =>
               Is(x, {"new", "direct", "hold"})
      BY <1>1, StoreFrame DEF Is, Queue, Mine
    <2>3. \A g \in Gens, r \in wire : Serves(g, r) => \E h \in Gens : Serves(h, r)'
      BY <2>1 DEF Serves, At, Item
    <2>4. \A c \in open' : c \in open \/ c > made
      BY <2>1
    <2> QED
      BY <2>1, <2>2, <2>3, <2>4, WorkersStay, RequestsStay, FreshStays DEF Lines
  <1>2. ASSUME NEW c \in open, ReadList(c)
        PROVE  Lines'
    BY <1>2, LinesStay DEF ReadList, callerVars, connVars, serverVars
  <1> QED
    BY <1>1, <1>2 DEF Listing

LEMMA WaitsIs ==
  ASSUME Types, NEW m \in Messages, NEW c
  PROVE  Waits(m, c) <=> message[m] = [pc |-> "waiting", conn |-> c]
  BY DEF Types, CallerType, Waits, Is

LEMMA LinesDrop ==
  ASSUME Types, Lines, NEW c, Drop(c)
  PROVE  Lines'
  <1>1. PICK unwritten \in SUBSET Asked(c) :
          /\ wire' = {r \in wire : r.conn # c} \cup (Asked(c) \ unwritten)
          /\ worker' = WorkersAfterDrop(c, unwritten)
          /\ message' = CallersAfterDrop(c, unwritten)
    BY DropIs
  <1>2. /\ c \in open /\ open' = open \ {c}
        /\ UNCHANGED <<got, gen>>
    BY DEF Drop, serverVars
  <1>3. ASSUME NEW m \in Messages
        PROVE  IF Waits(m, c)
               THEN message'[m].pc =
                      IF \E r \in unwritten : ~r.held /\ r.msg = m THEN "hold" ELSE "failed"
               ELSE message'[m] = message[m]
    <2>1. /\ message[m] = [pc |-> "waiting", conn |-> c] =>
               message'[m].pc =
                 IF \E r \in unwritten : ~r.held /\ r.msg = m THEN "hold" ELSE "failed"
          /\ message[m] # [pc |-> "waiting", conn |-> c] => message'[m] = message[m]
      BY <1>1, DropCaller
    <2> QED
      BY <2>1, WaitsIs
  <1>4. TakenStay
    BY <1>3 DEF TakenStay, Waits, Is, Taken
  <1>5. ASSUME NEW g \in Gens
        PROVE  /\ worker'[g].conn = worker[g].conn /\ worker'[g].item = worker[g].item
               /\ IF At(g, "waiting") /\ worker[g].conn = c
                  THEN worker'[g].pc = "settle"
                  ELSE worker'[g] = worker[g]
    BY <1>1, DropWorker
  <1>6. Workers'
    <2>1. ASSUME NEW g \in Gens
          PROVE  GoodWorker(g)'
      <3>1. GoodWorker(g)
        BY DEF Lines, Workers
      <3>2. Active(g)' => Active(g)
        BY <1>5 DEF Active, At
      <3>3. Active(g) => Is(Item(g).msg, Taken)'
        BY <1>4, <1>5, <3>1, ItemMsg DEF GoodWorker, TakenStay, Is, Item
      <3>4. At(g, "waiting")' => worker'[g].conn \in open'
        BY <1>2, <1>5, <3>1 DEF GoodWorker, At
      <3>5. g > gen => worker'[g] = Ended
        BY <1>5, <3>1, EndedIs DEF GoodWorker, At
      <3> QED
        BY <1>2, <3>2, <3>3, <3>4, <3>5 DEF GoodWorker
    <2>2. \A g, h \in Gens :
       worker'[g].conn = worker'[h].conn /\ worker'[g].conn # 0 => g = h
      BY <1>5 DEF Lines, Workers
    <2> QED
      BY <2>1, <2>2 DEF Workers
  <1>7. wire' \subseteq wire
    BY <1>1 DEF Asked
  <1>8. Fresh'
    <2> SUFFICES ASSUME NEW m \in Messages, Is(m, {"new", "direct", "hold"})'
                 PROVE  Unsent(m)'
      BY DEF Fresh
    <2>1. CASE Is(m, {"new", "direct", "hold"})
      BY <1>2, <1>7, <2>1, DeliveredSame DEF Lines, Fresh, Unsent
    <2>2. CASE ~Is(m, {"new", "direct", "hold"})
      <3>1. Waits(m, c) /\ message'[m].pc # "failed"
        BY <1>3, <2>2 DEF Is
      <3>2. PICK r \in unwritten : ~r.held /\ r.msg = m
        BY <1>3, <3>1
      <3>3. r \in wire /\ r.answer = "none" /\ r.conn = c
        BY <3>2 DEF Asked
      <3>4. ~Delivered(m)
        BY <3>2, <3>3 DEF Lines, Requests, GoodRequest
      <3>5. ASSUME NEW s \in wire', s.msg = m
            PROVE  FALSE
        <4>1. s \in wire
          BY <1>7
        <4>2. ~s.held
          <5>1. GoodRequest(s)
            BY <4>1 DEF Lines, Requests
          <5> QED
            BY <3>1, <3>5, <5>1 DEF GoodRequest, Waits, Is, Taken
        <4>3. s = r
          BY <3>2, <3>3, <3>5, <4>1, <4>2 DEF Lines, Requests, SameSource
        <4> QED
          BY <1>1, <3>2, <3>3, <4>3
      <3> QED
        BY <1>2, <3>4, <3>5, DeliveredSame DEF Unsent
    <2> QED
      BY <2>1, <2>2
  <1>9. ASSUME NEW r \in wire'
        PROVE  GoodRequest(r)'
    <2>1. r \in wire /\ GoodRequest(r) /\ r.msg \in Messages
      BY <1>7, RequestMsg DEF Lines, Requests
    <2>2. Delivered(r.msg)' <=> Delivered(r.msg)
      BY <1>2, DeliveredSame
    <2>3. Is(r.msg, Taken) => Is(r.msg, Taken)'
      BY <1>4, <2>1 DEF TakenStay
    <2>4. CASE r.conn = c
      <3>1. r.answer = "none" /\ r \notin unwritten /\ r.conn \notin open' /\ r.conn \in open
        BY <1>1, <1>2, <2>4 DEF Asked
      <3>2. ASSUME ~r.held
            PROVE  Is(r.msg, {"failed"})'
        <4>1. Waits(r.msg, c)
          BY <2>1, <2>4, <3>1, <3>2 DEF GoodRequest
        <4>2. ~\E s \in unwritten : ~s.held /\ s.msg = r.msg
          <5> SUFFICES ASSUME NEW s \in unwritten, ~s.held, s.msg = r.msg
                       PROVE  FALSE
            OBVIOUS
          <5>1. s \in wire
            BY DEF Asked
          <5>2. s = r
            BY <2>1, <3>2, <5>1 DEF Lines, Requests, SameSource
          <5> QED
            BY <3>1, <5>2
        <4> QED
          BY <1>3, <2>1, <4>1, <4>2 DEF Is
      <3> QED
        BY <2>1, <2>2, <2>3, <3>1, <3>2 DEF GoodRequest
    <2>5. CASE r.conn # c
      <3>1. r.conn \in open' <=> r.conn \in open
        BY <1>2, <2>5
      <3>2. \A g \in Gens : Serves(g, r) => Serves(g, r)'
        BY <1>5, <2>5 DEF Serves, At, Item
      <3>3. /\ Waits(r.msg, r.conn) => Waits(r.msg, r.conn)'
            /\ Is(r.msg, {"failed"}) => Is(r.msg, {"failed"})'
        BY <1>3, <2>1, <2>5 DEF Waits, Is
      <3> QED
        BY <2>1, <2>2, <2>3, <3>1, <3>2, <3>3 DEF GoodRequest
    <2> QED
      BY <2>4, <2>5
  <1>10. ASSUME NEW r \in wire', NEW s \in wire', SameSource(r, s)'
         PROVE  r = s
    <2>1. SameSource(r, s)
      BY <1>2, <1>10 DEF SameSource
    <2> QED
      BY <1>7, <2>1 DEF Lines, Requests
  <1>11. Requests'
    BY <1>9, <1>10 DEF Requests
  <1> QED
    BY <1>6, <1>8, <1>11 DEF Lines

\* What the server took.
LEMMA GotGrows ==
  ASSUME Types, NEW e \in TakenType, got' = Append(got, e)
  PROVE  /\ Len(got) \in Nat /\ DOMAIN got = 1..Len(got)
         /\ DOMAIN got' = 1..(Len(got) + 1)
         /\ \A i \in DOMAIN got : got'[i] = got[i]
         /\ got'[Len(got) + 1] = e
         /\ \A m : Delivered(m)' <=> Delivered(m) \/ m = e.msg
  <1>1. got \in Seq(TakenType)
    BY DEF Types
  <1>2. Len(got) \in Nat /\ DOMAIN got = 1..Len(got)
    BY <1>1, LenProperties
  <1>3. /\ DOMAIN got' = 1..(Len(got) + 1)
        /\ \A i \in 1..Len(got) : got'[i] = got[i]
        /\ got'[Len(got) + 1] = e
    BY <1>1, AppendProperties, LenProperties
  <1>4. ASSUME NEW m
        PROVE  Delivered(m)' <=> Delivered(m) \/ m = e.msg
    BY <1>2, <1>3 DEF Delivered
  <1> QED
    BY <1>2, <1>3, <1>4

LEMMA TakeDelivers ==
  ASSUME Types, NEW r \in wire, NEW ok \in BOOLEAN,
         got' = IF ok THEN Append(got, [msg |-> r.msg, text |-> r.text]) ELSE got
  PROVE  \A m : Delivered(m)' <=> Delivered(m) \/ (ok /\ m = r.msg)
  <1> DEFINE e == [msg |-> r.msg, text |-> r.text]
  <1>1. e \in TakenType /\ e.msg = r.msg
    BY RequestMsg DEF TakenType
  <1>2. CASE ok
    <2>1. got' = Append(got, e)
      BY <1>2
    <2> HIDE DEF e
    <2> QED
      BY <1>1, <1>2, <2>1, GotGrows
  <1>3. CASE ~ok
    BY <1>3, DeliveredSame
  <1> QED
    BY <1>2, <1>3

LEMMA LinesTake ==
  ASSUME Types, Lines, NEW r \in wire, Take(r)
  PROVE  Lines'
  <1>1. PICK ok \in BOOLEAN, answered \in SUBSET RequestType :
           /\ r.answer = "none"
           /\ got' = IF ok THEN Append(got, [msg |-> r.msg, text |-> r.text]) ELSE got
           /\ wire' = (wire \ {r}) \cup answered
           /\ r.conn \notin open => answered = {}
           /\ \A x \in answered :
                /\ x.conn = r.conn /\ x.msg = r.msg /\ x.text = r.text
                /\ x.held = r.held /\ x.answer = IF ok THEN "ok" ELSE "error"
           /\ \A x, y \in answered : x = y
           /\ UNCHANGED <<linkVars, gen, worker, callerVars, made, open, drops,
                          sessions, list>>
    BY TakeIs
  <1>2. \A m : Delivered(m)' <=> Delivered(m) \/ (ok /\ m = r.msg)
    BY <1>1, TakeDelivers
  <1>3. UNCHANGED <<message, worker, gen, open>>
    BY <1>1 DEF callerVars
  <1>4. GoodRequest(r) /\ r.msg \in Messages
    BY RequestMsg DEF Lines, Requests
  <1>5. Workers'
    BY <1>3, MessagesStay, WorkersStay DEF Lines
  <1>6. \A m, S : Is(m, S)' <=> Is(m, S)
    BY <1>3, MessagesStay
  <1>7. \A m, c : Waits(m, c)' <=> Waits(m, c)
    BY <1>3 DEF Waits, Is
  <1>8. \A g, s : Serves(g, s)' <=> Serves(g, s)
    BY <1>3 DEF Serves, At, Item
  <1>9. Fresh'
    <2> SUFFICES ASSUME NEW m \in Messages, Is(m, {"new", "direct", "hold"})'
                 PROVE  Unsent(m)'
      BY DEF Fresh
    <2>1. Unsent(m)
      BY <1>6 DEF Lines, Fresh
    <2> QED
      BY <1>1, <1>2, <2>1 DEF Unsent
  <1>10. ASSUME NEW s \in wire, s # r
         PROVE  GoodRequest(s)'
    <2>1. GoodRequest(s)
      BY DEF Lines, Requests
    <2>2. ASSUME ~s.held
          PROVE  Delivered(s.msg)' <=> Delivered(s.msg)
      <3>1. s.msg # r.msg
        <4> SUFFICES ASSUME s.msg = r.msg
                     PROVE  FALSE
          OBVIOUS
        <4>1. r.held
          BY <1>10, <2>2 DEF Lines, Requests, SameSource
        <4> QED
          BY <1>4, <2>1, <2>2, <4>1 DEF GoodRequest, Waits, Is, Taken
      <3> QED
        BY <1>2, <3>1
    <2> QED
      BY <1>2, <1>3, <1>6, <1>7, <1>8, <2>1, <2>2 DEF GoodRequest
  <1>11. ASSUME NEW x \in answered
         PROVE  GoodRequest(x)'
    <2>1. /\ x.conn = r.conn /\ x.msg = r.msg /\ x.text = r.text
          /\ x.held = r.held /\ x.answer = IF ok THEN "ok" ELSE "error"
          /\ r.conn \in open
      BY <1>1
    <2>2. (\E g \in Gens : Serves(g, r)) => \E g \in Gens : Serves(g, x)'
      BY <1>8, <2>1 DEF Serves
    <2> QED
      BY <1>2, <1>3, <1>4, <1>6, <1>7, <2>1, <2>2 DEF GoodRequest
  <1>12. ASSUME NEW s \in wire', NEW t \in wire', SameSource(s, t)'
         PROVE  s = t
    <2>1. SameSource(s, t)
      BY <1>3, <1>12 DEF SameSource
    <2>2. CASE s \in wire \ {r} /\ t \in wire \ {r}
      BY <2>1, <2>2 DEF Lines, Requests
    <2>3. CASE s \in wire \ {r} /\ t \in answered
      <3>1. SameSource(s, r)
        BY <1>1, <2>1, <2>3 DEF SameSource
      <3> QED
        BY <2>3, <3>1 DEF Lines, Requests
    <2>4. CASE s \in answered /\ t \in wire \ {r}
      <3>1. SameSource(r, t)
        BY <1>1, <2>1, <2>4 DEF SameSource
      <3> QED
        BY <2>4, <3>1 DEF Lines, Requests
    <2>5. CASE s \in answered /\ t \in answered
      BY <1>1, <2>5
    <2> QED
      BY <1>1, <2>2, <2>3, <2>4, <2>5
  <1>13. Requests'
    BY <1>1, <1>10, <1>11, <1>12 DEF Requests
  <1> QED
    BY <1>5, <1>9, <1>13 DEF Lines

\* Which worker hears an answer.
LEMMA HearsIs ==
  ASSUME Types, Lines, NEW r \in wire, Hear(r), r.held
  PROVE  \E g \in Gens :
           /\ Serves(g, r) /\ Active(g)
           /\ Turn(g, "settle", worker[g].conn, Item(g),
                   IF r.answer = "ok" THEN "sent" ELSE "refused")
  <1>1. PICK g \in Gens : /\ At(g, "waiting") /\ worker[g].conn = r.conn
                          /\ Result(g, IF r.answer = "ok" THEN "sent" ELSE "refused")
    BY DEF Hear
  <1>2. r.conn \in open
    BY DEF Hear
  <1>3. PICK h \in Gens : Serves(h, r)
    BY <1>2 DEF Lines, Requests, GoodRequest
  <1>4. h = g
    BY <1>1, <1>2, <1>3 DEF Serves, Lines, Workers, Types, Conns
  <1> DEFINE outcome == IF r.answer = "ok" THEN "sent" ELSE "refused"
  <1>5. outcome \in Outcome
    BY DEF Outcome
  <1>6. Result(g, outcome)
    BY <1>1
  <1> HIDE DEF outcome
  <1>7. Turn(g, "settle", worker[g].conn, Item(g), outcome)
    BY <1>5, <1>6, ResultIs
  <1> QED
    BY <1>1, <1>3, <1>4, <1>7 DEF outcome, Active, At

LEMMA LinesHear ==
  ASSUME Types, Lines, NEW r \in wire, Hear(r)
  PROVE  Lines'
  <1>1. /\ r.answer # "none" /\ r.conn \in open /\ wire' = wire \ {r}
        /\ UNCHANGED <<got, gen, open>>
    BY DEF Hear, serverVars
  <1>2. GoodRequest(r) /\ r.msg \in Messages
    BY RequestMsg DEF Lines, Requests
  <1>3. ASSUME NEW s \in wire', NEW t \in wire', SameSource(s, t)'
        PROVE  s = t
    <2>1. SameSource(s, t)
      BY <1>1, <1>3 DEF SameSource
    <2> QED
      BY <1>1, <2>1 DEF Lines, Requests
  <1>4. \A m : Delivered(m)' <=> Delivered(m)
    BY <1>1, DeliveredSame
  <1>5. CASE r.held
    <2>1. UNCHANGED message
      BY <1>5 DEF Hear
    <2>2. PICK g \in Gens, outcome \in Outcome :
             /\ Serves(g, r) /\ Active(g)
             /\ Turn(g, "settle", worker[g].conn, Item(g), outcome)
      <3>1. "sent" \in Outcome /\ "refused" \in Outcome
        BY DEF Outcome
      <3> QED
        BY <1>5, <3>1, HearsIs
    <2>3. Workers'
      <3>1. g <= gen
        BY <2>2, WorkerOfGen DEF Lines, Active
      <3>2. Item(g).msg \in Messages /\ Is(Item(g).msg, Taken)
        BY <2>2, ActiveItem
      <3> QED
        BY <1>1, <2>1, <2>2, <3>1, <3>2, MessagesStay, WorkersTurn DEF Lines
    <2>4. Fresh'
      <3>1. wire' \subseteq wire
        BY <1>1
      <3> QED
        BY <1>1, <2>1, <3>1, MessagesStay, FreshStays DEF Lines
    <2>5. ASSUME NEW s \in wire'
          PROVE  GoodRequest(s)'
      <3>1. s \in wire /\ s # r /\ GoodRequest(s)
        BY <1>1 DEF Lines, Requests
      <3>2. ASSUME s.held, s.conn \in open, NEW h \in Gens, Serves(h, s)
            PROVE  Serves(h, s)'
        <4>1. s.conn # r.conn
          BY <1>5, <3>1, <3>2 DEF Lines, Requests, SameSource
        <4>2. h # g
          BY <2>2, <3>2, <4>1 DEF Serves
        <4>3. worker'[h] = worker[h]
          BY <2>2, <4>2 DEF Turn
        <4> QED
          BY <3>2, <4>3 DEF Serves, At, Item
      <3>3. /\ \A S : Is(s.msg, S)' <=> Is(s.msg, S)
            /\ Waits(s.msg, s.conn)' <=> Waits(s.msg, s.conn)
        BY <2>1 DEF Is, Waits
      <3> QED
        BY <1>1, <1>4, <3>1, <3>2, <3>3 DEF GoodRequest
    <2>6. Requests'
      BY <1>3, <2>5 DEF Requests
    <2> QED
      BY <2>3, <2>4, <2>6 DEF Lines
  <1>6. CASE ~r.held
    <2>1. UNCHANGED worker
      BY <1>6 DEF Hear
    <2>2. PICK pc \in {"accepted", "rejected"} : Turns(r.msg, pc)
      BY <1>2, <1>6, BecomesTurns DEF Hear
    <2>3. Waits(r.msg, r.conn)
      BY <1>1, <1>2, <1>6 DEF GoodRequest
    <2>4. TakenStay
      BY <2>2, <2>3 DEF TakenStay, Turns, Waits, Is, Taken
    <2>5. Workers'
      BY <1>1, <2>1, <2>4, WorkersStay DEF Lines
    <2>6. Fresh'
      <3>1. wire' \subseteq wire
        BY <1>1
      <3>2. \A m \in Messages : Is(m, {"new", "direct", "hold"})' =>
              Is(m, {"new", "direct", "hold"})
        BY <2>2 DEF Turns, Is
      <3> QED
        BY <1>1, <3>1, <3>2, FreshStays DEF Lines
    <2>7. ASSUME NEW s \in wire'
          PROVE  GoodRequest(s)'
      <3>1. s \in wire /\ s # r /\ GoodRequest(s) /\ s.msg \in Messages
        BY <1>1, RequestMsg DEF Lines, Requests
      <3>2. ASSUME ~s.held
            PROVE  message'[s.msg] = message[s.msg]
        <4>1. s.msg # r.msg
          BY <1>6, <3>1, <3>2 DEF Lines, Requests, SameSource
        <4> QED
          BY <2>2, <3>1, <4>1 DEF Turns
      <3>3. \A h : Serves(h, s)' <=> Serves(h, s)
        BY <2>1 DEF Serves, At, Item
      <3>4. Is(s.msg, Taken) => Is(s.msg, Taken)'
        BY <2>4, <3>1 DEF TakenStay
      <3> QED
        BY <1>1, <1>4, <3>1, <3>2, <3>3, <3>4 DEF GoodRequest, Waits, Is
    <2>8. Requests'
      BY <1>3, <2>7 DEF Requests
    <2> QED
      BY <2>5, <2>6, <2>8 DEF Lines
  <1> QED
    BY <1>5, <1>6

LEMMA RestartIs ==
  ASSUME Types, Restart
  PROVE  /\ outbox' = file /\ UNCHANGED <<file, before, made, got, sessions>>
         /\ gen' = gen + 1 /\ gen' \in Gens
         /\ open' = {} /\ wire' = {r \in wire : r.answer = "none"}
         /\ \A g \in Gens : worker'[g] = IF g = gen' THEN NewWorker ELSE Ended
         /\ \A m \in Messages :
              IF Is(m, {"direct", "waiting", "hold"})
              THEN message'[m].pc = "failed" ELSE message'[m] = message[m]
  <1>1. gen' = gen + 1 /\ gen' \in Gens
    BY NewLinkGen DEF Restart
  <1>2. ASSUME NEW m \in Messages
        PROVE  IF Is(m, {"direct", "waiting", "hold"})
               THEN message'[m].pc = "failed" ELSE message'[m] = message[m]
    BY DEF Restart
  <1> QED
    BY <1>1, <1>2 DEF Restart, NewLink, serverVars

LEMMA ReloadIs ==
  ASSUME Types, Reload
  PROVE  /\ outbox' = file
         /\ UNCHANGED <<file, message, before, made, open, wire, got, sessions>>
         /\ gen' = gen + 1 /\ gen' \in Gens
         /\ \A g \in Gens : worker'[g] = IF g = gen' THEN NewWorker ELSE worker[g]
  <1>1. gen' = gen + 1 /\ gen' \in Gens
    BY NewLinkGen DEF Reload
  <1>2. \A g \in Gens : worker'[g] = IF g = gen' THEN NewWorker ELSE worker[g]
    BY <1>1 DEF Reload, Types, WorkerTypes
  <1> QED
    BY <1>1, <1>2 DEF Reload, NewLink, callerVars, connVars, serverVars

LEMMA LinesService ==
  ASSUME Types, Lines, Service
  PROVE  Lines'
  <1>1. CASE Restart
    <2>0. /\ gen' = gen + 1 /\ gen' \in Gens /\ UNCHANGED got
          /\ open' = {} /\ wire' = {r \in wire : r.answer = "none"}
          /\ \A g \in Gens : worker'[g] = IF g = gen' THEN NewWorker ELSE Ended
      BY <1>1, RestartIs
    <2>1. \A m \in Messages :
            IF Is(m, {"direct", "waiting", "hold"})
            THEN message'[m].pc = "failed" ELSE message'[m] = message[m]
      BY <1>1, RestartIs
    <2>2. \A m \in Messages : /\ Is(m, Taken) => Is(m, Taken)'
                              /\ Is(m, {"waiting", "failed"}) => Is(m, {"failed"})'
                              /\ Is(m, {"new", "direct", "hold"})' => Is(m, {"new"})
      BY <2>1 DEF Is, Taken
    <2>3. \A m : Delivered(m)' <=> Delivered(m)
      BY <2>0, DeliveredSame
    <2>4. Workers'
      <3>1. \A g \in Gens : GoodWorker(g)'
        BY <2>0, NewWorkerIs, EndedIs DEF GoodWorker, Active, At, Gens
      <3>2. \A g \in Gens : worker'[g].conn = 0
        BY <2>0, NewWorkerIs, EndedIs
      <3> QED
        BY <3>1, <3>2 DEF Workers
    <2>5. Fresh'
      <3> SUFFICES ASSUME NEW m \in Messages, Is(m, {"new", "direct", "hold"})'
                   PROVE  Unsent(m)'
        BY DEF Fresh
      <3>1. Is(m, {"new", "direct", "hold"})
        BY <2>2 DEF Is
      <3> QED
        BY <2>0, <2>3, <3>1 DEF Lines, Fresh, Unsent
    <2>6. ASSUME NEW r \in wire'
          PROVE  GoodRequest(r)'
      <3>1. r \in wire /\ r.answer = "none" /\ GoodRequest(r) /\ r.msg \in Messages
        BY <2>0, RequestMsg DEF Lines, Requests
      <3>2. Is(r.msg, Taken) => Is(r.msg, Taken)'
        BY <2>2, <3>1
      <3>3. ~r.held => Is(r.msg, {"failed"})'
        BY <2>2, <3>1 DEF GoodRequest, Waits, Is
      <3> QED
        BY <2>0, <2>3, <3>1, <3>2, <3>3 DEF GoodRequest
    <2>7. ASSUME NEW r \in wire', NEW s \in wire', SameSource(r, s)'
          PROVE  r = s
      BY <2>0, <2>7 DEF SameSource, Lines, Requests
    <2>8. Requests'
      BY <2>6, <2>7 DEF Requests
    <2> QED
      BY <2>4, <2>5, <2>8 DEF Lines
  <1>2. CASE Reload
    <2>0. /\ gen' = gen + 1 /\ gen' \in Gens
          /\ UNCHANGED <<message, made, open, wire, got>>
          /\ \A g \in Gens : worker'[g] = IF g = gen' THEN NewWorker ELSE worker[g]
      BY <1>2, ReloadIs
    <2>1. gen \in Gens /\ gen \in Nat /\ gen' > gen
      BY <2>0, GenInGens DEF Gens
    <2>2. Fresh'
      <3>1. wire' \subseteq wire
        BY <2>0
      <3> QED
        BY <2>0, <3>1, FreshStays, MessagesStay DEF Lines
    <2>3. worker[gen'] = Ended
      BY <2>0, <2>1 DEF Lines, Workers, GoodWorker
    <2>4. Workers'
      <3>1. ASSUME NEW g \in Gens
            PROVE  GoodWorker(g)'
        <4>1. CASE g = gen'
          BY <2>0, <2>1, <4>1, NewWorkerIs DEF GoodWorker, Active, At, Gens
        <4>2. CASE g # gen'
          <5>1. worker'[g] = worker[g] /\ GoodWorker(g)
            BY <2>0, <4>2 DEF Lines, Workers
          <5>2. g > gen' => g > gen
            BY <2>1, <2>0 DEF Gens
          <5> QED
            BY <2>0, <5>1, <5>2 DEF GoodWorker, At, Active, Item, Is
        <4> QED
          BY <4>1, <4>2
      <3>2. \A g, h \in Gens :
              worker'[g].conn = worker'[h].conn /\ worker'[g].conn # 0 => g = h
        BY <2>0, NewWorkerIs DEF Lines, Workers
      <3> QED
        BY <3>1, <3>2 DEF Workers
    <2>5. \A g \in Gens, r \in wire : Serves(g, r) => \E h \in Gens : Serves(h, r)'
      <3> SUFFICES ASSUME NEW g \in Gens, NEW r \in wire, Serves(g, r)
                   PROVE  Serves(g, r)'
        OBVIOUS
      <3>1. g # gen'
        BY <2>3, EndedIs DEF Serves, At
      <3>2. worker'[g] = worker[g]
        BY <2>0, <3>1
      <3> QED
        BY <3>2 DEF Serves, At, Item
    <2>6. \A c \in open' : c \in open \/ c > made
      BY <2>0
    <2>7. Requests'
      BY <2>0, <2>5, <2>6, MessagesStay, RequestsStay DEF Lines
    <2> QED
      BY <2>2, <2>4, <2>7 DEF Lines
  <1> QED
    BY <1>1, <1>2 DEF Service

LEMMA LinesServer ==
  ASSUME Types, Lines, Server
  PROVE  Lines'
  <1>1. ASSUME NEW s \in sessions, Delete(s)
        PROVE  Lines'
    BY <1>1, LinesStay DEF Delete, callerVars, connVars
  <1> QED
    BY <1>1, LinesTake, LinesHear DEF Server

LEMMA LinesInit == Init => Lines
  <1> SUFFICES ASSUME Init
               PROVE  Lines
    OBVIOUS
  <1>1. got = <<>> /\ DOMAIN got = {}
    BY EmptySeq, LenProperties DEF Init
  <1>2. \A m : Unsent(m)
    BY <1>1 DEF Init, Unsent, Delivered
  <1>3. \A g \in Gens : worker[g] = (IF g = 1 THEN NewWorker ELSE Ended) /\ gen = 1
    BY DEF Init
  <1>4. Workers
    BY <1>3, NewWorkerIs, EndedIs DEF Workers, GoodWorker, Active, At, Gens
  <1> QED
    BY <1>2, <1>4 DEF Lines, Requests, Fresh, Init

LEMMA LinesStep ==
  ASSUME Types, Lines, Held(outbox), [Next]_vars
  PROVE  Lines'
  <1>1. CASE Next
    <2>1. ASSUME NEW i \in DOMAIN outbox, EditHeld(i) \/ RemoveHeld(i)
          PROVE  Lines'
      BY <2>1, LinesUser
    <2> QED
      BY <1>1, <2>1, LinesCaller, LinesWorker, LinesDrop, LinesListing,
         LinesServer, LinesService DEF Next, User
  <1>2. CASE UNCHANGED vars
    BY <1>2, LinesStay DEF vars, callerVars, connVars, serverVars
  <1> QED
    BY <1>1, <1>2

-----------------------------------------------------------------------------
(* What a step does to the held messages *)

\* Messages change only with their callers.
CallersOnly ==
  \A m \in Messages : \/ message'[m] = message[m]
                      \/ Is(m, Mine) /\ Is(m, Mine)'

StillHeld == UNCHANGED <<outbox, file>> /\ CallersOnly

NewlyHeld(m, h) ==
  /\ Is(m, {"hold"}) /\ Turns(m, "held")
  /\ h \in Queued /\ h.id = NextId(outbox) /\ h.msg = m /\ h.text = Typed[m]
  /\ ~h.error /\ ~h.uncertain
  /\ Range(outbox') = Range(outbox) \cup {h} /\ file' = outbox'

Edited(e, f) ==
  /\ e \in Range(outbox) /\ e.id # sending
  /\ f.id = e.id /\ f.msg = e.msg /\ f.text = Retyped[e.msg]
  /\ ~f.error /\ f.uncertain = e.uncertain
  /\ Range(outbox') = (Range(outbox) \ {e}) \cup {f} /\ file' = outbox'
  /\ UNCHANGED message

RemovedOne(e) ==
  /\ e \in Range(outbox) /\ e.id # sending
  /\ Range(outbox') = Range(outbox) \ {e} /\ file' = outbox'
  /\ Turns(e.msg, IF e.uncertain THEN "abandoned" ELSE "removed")

\* What is left of entry e, and where it came from.
LeftOf(e, id, outcome) ==
  IF e.id # id THEN e
  ELSE IF outcome = "lost" THEN Uncertain(e)
  ELSE IF outcome = "refused" THEN Refused(e) ELSE e

Settled(id, outcome) ==
  /\ Range(outbox') =
       {LeftOf(e, id, outcome) :
          e \in {x \in Range(outbox) : outcome = "sent" => x.id # id}}
  /\ file' = outbox' \/ UNCHANGED file
  /\ \/ UNCHANGED message /\ ~(outcome = "refused" /\ \E e \in Range(outbox) : e.id = id)
     \/ \E e \in Range(outbox) :
          outcome = "refused" /\ e.id = id /\ Turns(e.msg, "refused")

Cleared ==
  /\ Range(outbox') = Range(outbox) \ Gone
  /\ file' = outbox' \/ UNCHANGED file
  /\ \A m \in Messages :
       /\ (\E e \in Gone : e.msg = m) =>
            message'[m].pc = IF \E e \in Gone : e.msg = m /\ e.id = sending
                             THEN "cut" ELSE "dropped"
       /\ ~(\E e \in Gone : e.msg = m) => message'[m] = message[m]

Relinked == outbox' = file /\ UNCHANGED file /\ gen' # gen /\ CallersOnly

LEMMA OneTurns ==
  ASSUME NEW m \in Messages, NEW pc \in Mine, Turns(m, pc), Is(m, Mine)
  PROVE  CallersOnly
  BY DEF Turns, CallersOnly, Is

LEMMA HoldIs ==
  ASSUME Types, NEW m \in Messages, Hold(m)
  PROVE  StillHeld \/ \E h : NewlyHeld(m, h)
  <1>1. Is(m, {"hold"})
    BY DEF Hold
  <1>2. CASE UNCHANGED <<outbox, file>> /\ Becomes(m, "failed")
    <2>1. Turns(m, "failed") /\ Is(m, Mine)
      BY <1>1, <1>2, BecomesTurns DEF Is, Mine
    <2> QED
      BY <1>2, <2>1, OneTurns DEF StillHeld, Mine
  <1>3. CASE ~(UNCHANGED <<outbox, file>> /\ Becomes(m, "failed"))
    <2> DEFINE h == [id |-> NextId(outbox), msg |-> m, text |-> Typed[m],
                     error |-> FALSE, uncertain |-> FALSE]
    <2>1. outbox' = Append(outbox, h) /\ file' = outbox' /\ Becomes(m, "held")
      BY <1>3 DEF Hold
    <2>2. /\ h \in Queued /\ h.id = NextId(outbox) /\ h.msg = m
          /\ h.text = Typed[m] /\ h.error = FALSE /\ h.uncertain = FALSE
      BY NextIdIs, WordsIn DEF Types, Queued
    <2> HIDE DEF h
    <2>3. Range(outbox') = Range(outbox) \cup {h}
      BY <2>1, <2>2, AppendIs DEF Types
    <2>4. Turns(m, "held")
      BY <2>1, BecomesTurns
    <2> QED
      BY <1>1, <2>1, <2>2, <2>3, <2>4 DEF NewlyHeld
  <1> QED
    BY <1>2, <1>3

LEMMA EditIs ==
  ASSUME Types, NEW i \in DOMAIN outbox, EditHeld(i)
  PROVE  \E f : Edited(outbox[i], f)
  <1> DEFINE f == [outbox[i] EXCEPT !.text = Retyped[outbox[i].msg], !.error = FALSE]
  <1>1. outbox[i] \in Queued /\ outbox[i] \in Range(outbox) /\ outbox[i].msg \in Messages
    BY Members DEF Types, Queued
  <1>2. /\ f \in Queued /\ f.id = outbox[i].id /\ f.msg = outbox[i].msg
        /\ f.text = Retyped[outbox[i].msg] /\ f.error = FALSE
        /\ f.uncertain = outbox[i].uncertain
    BY <1>1, WordsIn DEF Queued
  <1>3. outbox' = [outbox EXCEPT ![i] = f] /\ file' = outbox'
    BY DEF EditHeld
  <1> HIDE DEF f
  <1>4. Range(outbox') = (Range(outbox) \ {outbox[i]}) \cup {f}
    <2>1. PICK o, q : o = outbox /\ q = [o EXCEPT ![i] = f]
      OBVIOUS
    <2>2. Holding(o) /\ i \in DOMAIN o /\ f \in Queued /\ f.id = o[i].id
      BY <1>2, <2>1 DEF Types
    <2>3. Range([o EXCEPT ![i] = f]) = (Range(o) \ {o[i]}) \cup {f}
      BY <2>2, ReplaceIs
    <2>4. outbox' = q
      BY <1>3, <2>1
    <2> QED
      BY <2>1, <2>3, <2>4 DEF Range
  <1>5. outbox[i].id # sending /\ UNCHANGED message
    BY DEF EditHeld, Editable, callerVars
  <1> QED
    BY <1>1, <1>2, <1>3, <1>4, <1>5 DEF Edited

LEMMA RemoveIs ==
  ASSUME Types, NEW i \in DOMAIN outbox, RemoveHeld(i)
  PROVE  RemovedOne(outbox[i])
  <1>1. outbox[i] \in Range(outbox) /\ outbox[i].msg \in Messages
    BY Members DEF Types, Queued
  <1>2. outbox' = RemoveAt(outbox, i) /\ file' = outbox' /\ outbox[i].id # sending
    BY DEF RemoveHeld, Editable
  <1>3. Range(outbox') = Range(outbox) \ {outbox[i]}
    BY <1>2, RemoveAtIs DEF Types
  <1>4. Turns(outbox[i].msg, IF outbox[i].uncertain THEN "abandoned" ELSE "removed")
    BY <1>1, BecomesTurns DEF RemoveHeld
  <1> QED
    BY <1>1, <1>2, <1>3, <1>4 DEF RemovedOne

LEMMA SettledIs ==
  ASSUME Types, NEW g \in Gens, Settle(g), g = gen
  PROVE  Settled(Item(g).id, worker[g].outcome)
  <1>1. PICK id, outcome : id = Item(g).id /\ outcome = worker[g].outcome
    OBVIOUS
  <1>2. outbox' = Outbox(outbox, id, outcome) /\ Save(outbox') /\ Refusal(id, outcome)
    BY <1>1 DEF Settle, Current, Item
  <1>3. Range(outbox') =
          {LeftOf(e, id, outcome) :
             e \in {x \in Range(outbox) : outcome = "sent" => x.id # id}}
    <2>1. CASE outcome = "sent"
      BY <1>2, <2>1, OutboxIs DEF Types, LeftOf
    <2>2. CASE outcome = "lost"
      BY <1>2, <2>2, OutboxIs DEF Types, LeftOf
    <2>3. CASE outcome = "refused"
      BY <1>2, <2>3, OutboxIs DEF Types, LeftOf
    <2>4. CASE outcome \notin {"sent", "lost", "refused"}
      BY <1>2, <2>4, OutboxIs DEF Types, LeftOf
    <2> QED
      BY <2>1, <2>2, <2>3, <2>4
  <1>4. HasId(outbox, id) <=> \E e \in Range(outbox) : e.id = id
    BY Naming DEF Types
  <1>5. Settled(id, outcome)
    BY <1>2, <1>3, <1>4, SaveIs, RefusalIs DEF Settled
  <1> QED
    BY <1>1, <1>5

LEMMA ClearedIs ==
  ASSUME Types, StoreSessions
  PROVE  UNCHANGED <<outbox, file, message>> \/ Cleared
  BY StoreIs, SaveIs DEF Cleared

LEMMA RelinkedIs ==
  ASSUME Types, Service
  PROVE  Relinked
  <1>1. CASE Restart
    <2>1. outbox' = file /\ UNCHANGED file /\ gen' # gen
      BY <1>1, RestartIs, GenInGens DEF Gens
    <2>2. \A m \in Messages :
              IF Is(m, {"direct", "waiting", "hold"})
              THEN message'[m].pc = "failed" ELSE message'[m] = message[m]
      BY <1>1, RestartIs
    <2>3. CallersOnly
      BY <2>2 DEF CallersOnly, Is, Mine
    <2> QED
      BY <2>1, <2>3 DEF Relinked
  <1>2. CASE Reload
    BY <1>2, ReloadIs, GenInGens DEF Relinked, CallersOnly, Gens
  <1> QED
    BY <1>1, <1>2 DEF Service

\* The other steps leave the held messages alone.
LEMMA StillHeldIs ==
  ASSUME Types, Lines
  PROVE  /\ \A m \in Messages : Check(m) \/ SendNow(m) => StillHeld
         /\ \A g \in Gens : Worker(g) /\ ~(Settle(g) /\ g = gen) => StillHeld
         /\ \A c \in open : Drop(c) \/ ReadList(c) => StillHeld
         /\ \A r \in wire : Take(r) \/ Hear(r) => StillHeld
         /\ \A s \in sessions : Delete(s) => StillHeld
         /\ UNCHANGED vars => StillHeld
  <1>1. ASSUME NEW m \in Messages, Check(m)
        PROVE  StillHeld
    <2>1. PICK pc \in {"direct", "hold"} : Turns(m, pc)
      BY <1>1, CheckIs
    <2>2. Is(m, Mine)
      BY <1>1 DEF Check, Is, Mine
    <2> QED
      BY <1>1, <2>1, <2>2, OneTurns DEF Check, StillHeld, linkVars, Mine
  <1>2. ASSUME NEW m \in Messages, SendNow(m)
        PROVE  StillHeld
    <2>1. Is(m, Mine)
      BY <1>2 DEF SendNow, Is, Mine
    <2>2. CASE message' = [message EXCEPT ![m].pc = "waiting"]
      <3>1. Turns(m, "waiting")
        BY <2>2 DEF Types, CallerType, Turns
      <3> QED
        BY <1>2, <2>1, <3>1, OneTurns DEF SendNow, StillHeld, linkVars, Mine
    <2>3. CASE Becomes(m, "hold")
      <3>1. Turns(m, "hold")
        BY <2>3, BecomesTurns
      <3> QED
        BY <1>2, <2>1, <3>1, OneTurns DEF SendNow, StillHeld, linkVars, Mine
    <2> QED
      BY <1>2, <2>2, <2>3 DEF SendNow
  <1>3. ASSUME NEW g \in Gens, Worker(g), ~(Settle(g) /\ g = gen)
        PROVE  StillHeld
    <2>1. UNCHANGED <<outbox, file, message>>
      BY <1>3 DEF Worker, Connect, Disconnected, Retire, Flush, Pick, Look,
                  Send, Settle, Current, linkVars, callerVars
    <2> QED
      BY <2>1 DEF StillHeld, CallersOnly
  <1>4. ASSUME NEW c \in open, Drop(c)
        PROVE  StillHeld
    <2>1. PICK unwritten \in SUBSET Asked(c) :
            message' = CallersAfterDrop(c, unwritten)
      BY <1>4, DropIs
    <2>2. ASSUME NEW m \in Messages, message'[m] # message[m]
          PROVE  Is(m, Mine) /\ Is(m, Mine)'
      <3>1. /\ message[m] = [pc |-> "waiting", conn |-> c]
            /\ message'[m].pc \in {"hold", "failed"}
        BY <2>1, <2>2, DropCaller
      <3> QED
        BY <3>1 DEF Is, Mine
    <2> QED
      BY <1>4, <2>2 DEF Drop, linkVars, StillHeld, CallersOnly
  <1>5. ASSUME NEW c \in open, ReadList(c)
        PROVE  StillHeld
    BY <1>5 DEF ReadList, linkVars, callerVars, StillHeld, CallersOnly
  <1>6. ASSUME NEW r \in wire, Take(r)
        PROVE  StillHeld
    BY <1>6 DEF Take, linkVars, callerVars, StillHeld, CallersOnly
  <1>7. ASSUME NEW r \in wire, Hear(r)
        PROVE  StillHeld
    <2>1. CASE r.held
      BY <1>7, <2>1 DEF Hear, linkVars, StillHeld, CallersOnly
    <2>2. CASE ~r.held
      <3>1. r.msg \in Messages /\ GoodRequest(r) /\ r.conn \in open
        BY <1>7, RequestMsg DEF Lines, Requests, Hear
      <3>2. PICK pc \in {"accepted", "rejected"} : Turns(r.msg, pc)
        BY <1>7, <2>2, <3>1, BecomesTurns DEF Hear
      <3>3. Is(r.msg, Mine)
        BY <2>2, <3>1 DEF GoodRequest, Waits, Is, Mine
      <3> QED
        BY <1>7, <3>1, <3>2, <3>3, OneTurns DEF Hear, linkVars, StillHeld, Mine
    <2> QED
      BY <2>1, <2>2
  <1>8. ASSUME NEW s \in sessions, Delete(s)
        PROVE  StillHeld
    BY <1>8 DEF Delete, linkVars, callerVars, StillHeld, CallersOnly
  <1>9. UNCHANGED vars => StillHeld
    BY DEF vars, linkVars, callerVars, StillHeld, CallersOnly
  <1> QED
    BY <1>1, <1>2, <1>3, <1>4, <1>5, <1>6, <1>7, <1>8, <1>9

LEMMA HeldStep ==
  ASSUME Types, Lines, [Next]_vars
  PROVE  \/ StillHeld
         \/ \E m \in Messages : \E h : NewlyHeld(m, h)
         \/ \E e, f : Edited(e, f)
         \/ \E e : RemovedOne(e)
         \/ \E g \in Gens : Settle(g) /\ g = gen /\ Settled(Item(g).id, worker[g].outcome)
         \/ Cleared
         \/ Relinked
  <1>1. CASE \E m \in Messages : Caller(m)
    BY <1>1, StillHeldIs, HoldIs DEF Caller
  <1>2. ASSUME NEW g \in Gens, Worker(g)
        PROVE  \/ StillHeld
               \/ Settle(g) /\ g = gen /\ Settled(Item(g).id, worker[g].outcome)
    BY <1>2, StillHeldIs, SettledIs
  <1>3. CASE User
    <2>1. PICK i \in DOMAIN outbox : EditHeld(i) \/ RemoveHeld(i)
      BY <1>3 DEF User
    <2> QED
      BY <2>1, EditIs, RemoveIs
  <1>4. CASE Listing
    <2>1. CASE StoreSessions
      BY <2>1, ClearedIs DEF StillHeld, CallersOnly
    <2> QED
      BY <1>4, <2>1, StillHeldIs DEF Listing
  <1>5. CASE \E c \in open : Drop(c)
    BY <1>5, StillHeldIs
  <1>6. CASE Server
    BY <1>6, StillHeldIs DEF Server
  <1>7. CASE Service
    BY <1>7, RelinkedIs
  <1>8. CASE UNCHANGED vars
    BY <1>8, StillHeldIs
  <1> QED
    BY <1>1, <1>2, <1>3, <1>4, <1>5, <1>6, <1>7, <1>8 DEF Next

-----------------------------------------------------------------------------
(* The outbox and its file hold each message once *)

\* o holds message m.
Has(o, m) == \E e \in Range(o) : e.msg = m

\* An entry of the outbox is in the file, perhaps as it was before.
Backed == \A e \in Range(outbox) : \E f \in Range(file) :
            f.msg = e.msg /\ f.id = e.id

Lists == Held(outbox) /\ Held(file) /\ Backed

HeldTypes ==
  /\ Range(outbox) \subseteq Queued /\ Range(file) \subseteq Queued
  /\ \A e, f \in Range(outbox) : e.id = f.id => e = f
  /\ \A e, f \in Range(file) : e.id = f.id => e = f

LEMMA HeldTypesIs == Types => HeldTypes
  BY Members DEF Types, HeldTypes

LEMMA QueuedIs ==
  ASSUME NEW e \in Queued
  PROVE  e.msg \in Messages /\ e.id \in Nat /\ e.text \in Text /\ e.error \in BOOLEAN
           /\ e.uncertain \in BOOLEAN
  BY DEF Queued

\* What a worker's outcome leaves of an entry.
LEMMA LeftIs ==
  ASSUME NEW e \in Queued, NEW id, NEW outcome
  PROVE  /\ LeftOf(e, id, outcome) \in Queued
         /\ LeftOf(e, id, outcome).msg = e.msg
         /\ LeftOf(e, id, outcome).id = e.id
         /\ LeftOf(e, id, outcome).text = e.text
         /\ LeftOf(e, id, outcome).error =
              (e.error \/ (e.id = id /\ outcome = "refused"))
         /\ LeftOf(e, id, outcome).uncertain =
              (e.uncertain \/ (e.id = id /\ outcome = "lost"))
         /\ e.id # id => LeftOf(e, id, outcome) = e
  <1>1. CASE e.id # id
    BY <1>1 DEF LeftOf, Queued
  <1>2. CASE e.id = id /\ outcome = "lost"
    BY <1>2 DEF LeftOf, Queued, Uncertain
  <1>3. CASE e.id = id /\ outcome = "refused"
    BY <1>3 DEF LeftOf, Queued, Refused
  <1>4. CASE e.id = id /\ outcome \notin {"lost", "refused"}
    BY <1>4 DEF LeftOf, Queued
  <1> QED
    BY <1>1, <1>2, <1>3, <1>4

LEMMA ListsStill ==
  ASSUME HeldTypes, Lists, StillHeld
  PROVE  Lists'
  <1>1. outbox' = outbox /\ file' = file
    BY DEF StillHeld
  <1>2. ASSUME NEW m \in Messages, Is(m, Queue)
        PROVE  message'[m] = message[m]
    BY <1>2 DEF StillHeld, CallersOnly, Is, Queue, Mine
  <1>3. Held(outbox)'
    BY <1>1, <1>2, QueuedIs DEF Held, Is, HeldTypes, Lists
  <1>4. Held(file)'
    BY <1>1, <1>2, QueuedIs DEF Held, Is, HeldTypes, Lists
  <1> QED
    BY <1>1, <1>3, <1>4 DEF Lists, Backed

LEMMA ListsHold ==
  ASSUME HeldTypes, Lists, NEW m \in Messages, NEW h, NewlyHeld(m, h)
  PROVE  Lists'
  <1>1. Range(outbox') = Range(outbox) \cup {h} /\ file' = outbox' /\ h.msg = m
        /\ ~h.error
    BY DEF NewlyHeld
  <1>2. \A e \in Range(outbox) : e.msg # m
    BY DEF NewlyHeld, Lists, Held, Is, Queue
  <1>3. message'[m].pc = "held" /\ \A x \in Messages : x # m => message'[x] = message[x]
    BY DEF NewlyHeld, Turns
  <1>4. \A e \in Range(outbox) : message'[e.msg] = message[e.msg]
    BY <1>2, <1>3, QueuedIs DEF HeldTypes
  <1>5. Held(outbox)'
    BY <1>1, <1>2, <1>3, <1>4 DEF Held, Is, Lists, Queue
  <1>6. Held(file)'
    BY <1>1, <1>5 DEF Held, Is
  <1>7. Backed'
    BY <1>1 DEF Backed
  <1> QED
    BY <1>5, <1>6, <1>7 DEF Lists

LEMMA ListsEdit ==
  ASSUME HeldTypes, Lists, NEW e, NEW f, Edited(e, f)
  PROVE  Lists'
  <1>1. /\ Range(outbox') = (Range(outbox) \ {e}) \cup {f} /\ file' = outbox'
        /\ f.msg = e.msg /\ ~f.error /\ message' = message /\ e \in Range(outbox)
    BY DEF Edited
  <1>2. Held(outbox)'
    BY <1>1 DEF Held, Is, Lists
  <1>3. Held(file)'
    BY <1>1, <1>2 DEF Held, Is
  <1>4. Backed'
    BY <1>1 DEF Backed
  <1> QED
    BY <1>2, <1>3, <1>4 DEF Lists

LEMMA ListsRemove ==
  ASSUME HeldTypes, Lists, NEW e, RemovedOne(e)
  PROVE  Lists'
  <1>1. /\ Range(outbox') = Range(outbox) \ {e} /\ file' = outbox' /\ e \in Range(outbox)
        /\ \A x \in Messages : x # e.msg => message'[x] = message[x]
    BY DEF RemovedOne, Turns
  <1>2. \A f \in Range(outbox') : f.msg # e.msg /\ message'[f.msg] = message[f.msg]
    BY <1>1, QueuedIs DEF HeldTypes, Lists, Held
  <1>3. Held(outbox)'
    BY <1>1, <1>2 DEF Held, Is, Lists
  <1>4. Held(file)'
    BY <1>1, <1>3 DEF Held, Is
  <1>5. Backed'
    BY <1>1 DEF Backed
  <1> QED
    BY <1>3, <1>4, <1>5 DEF Lists

LEMMA ListsSettle ==
  ASSUME HeldTypes, Lists, NEW id, NEW outcome, Settled(id, outcome)
  PROVE  Lists'
  <1>1. Range(outbox') = {LeftOf(e, id, outcome) :
                            e \in {x \in Range(outbox) : outcome = "sent" => x.id # id}}
    BY DEF Settled
  <1>2. file' = outbox' \/ file' = file
    BY DEF Settled
  <1>3. \A q \in Range(outbox') : \E e \in Range(outbox) :
          /\ q = LeftOf(e, id, outcome) /\ q.msg = e.msg /\ q.id = e.id
          /\ q.error = (e.error \/ (e.id = id /\ outcome = "refused"))
    BY <1>1, LeftIs DEF HeldTypes
  <1>4. ASSUME NEW m \in Messages
        PROVE  \/ message'[m] = message[m]
                    /\ ~(outcome = "refused" /\ \E e \in Range(outbox) : e.id = id /\ e.msg = m)
               \/ message'[m].pc = "refused"
    <2>1. CASE /\ message' = message
               /\ ~(outcome = "refused" /\ \E e \in Range(outbox) : e.id = id)
      BY <2>1
    <2>2. CASE \E e \in Range(outbox) : e.id = id /\ Turns(e.msg, "refused")
      <3>1. PICK e \in Range(outbox) : e.id = id /\ Turns(e.msg, "refused")
        BY <2>2
      <3>2. CASE e.msg = m
        BY <3>1, <3>2 DEF Turns
      <3>3. CASE e.msg # m
        BY <3>1, <3>3 DEF Turns, HeldTypes
      <3> QED
        BY <3>2, <3>3
    <2> QED
      BY <2>1, <2>2 DEF Settled
  <1>5. ASSUME NEW q \in Range(outbox')
        PROVE  message'[q.msg].pc \in Queue /\ (message'[q.msg].pc = "held" => ~q.error)
    <2>1. PICK e \in Range(outbox) :
            /\ q.msg = e.msg
            /\ q.error = (e.error \/ (e.id = id /\ outcome = "refused"))
      BY <1>3
    <2>2. e.msg \in Messages
      BY QueuedIs DEF HeldTypes
    <2>3. CASE message'[e.msg].pc = "refused"
      BY <2>1, <2>3 DEF Queue
    <2>4. CASE message'[e.msg].pc # "refused"
      BY <1>4, <2>1, <2>2, <2>4 DEF Lists, Held, Is
    <2> QED
      BY <2>3, <2>4
  <1>6. Held(outbox)'
    <2>1. ASSUME NEW q \in Range(outbox'), NEW r \in Range(outbox'), q.msg = r.msg
          PROVE  q = r
      BY <1>3, <2>1 DEF Lists, Held
    <2> QED
      BY <1>5, <2>1 DEF Held, Is
  <1>7. Held(file)'
    <2>1. CASE file' = outbox'
      BY <1>6, <2>1 DEF Held, Is
    <2>2. CASE file' = file
      <3>1. ASSUME NEW q \in Range(file)
            PROVE  message'[q.msg].pc \in Queue /\ (message'[q.msg].pc = "held" => ~q.error)
        BY <1>4, QueuedIs DEF HeldTypes, Lists, Held, Is, Queue
      <3> QED
        BY <2>2, <3>1 DEF Lists, Held, Is
    <2> QED
      BY <1>2, <2>1, <2>2
  <1>8. Backed'
    <2>1. CASE file' = outbox'
      BY <2>1 DEF Backed
    <2>2. CASE file' = file
      BY <1>3, <2>2 DEF Backed, Lists
    <2> QED
      BY <1>2, <2>1, <2>2
  <1> QED
    BY <1>6, <1>7, <1>8 DEF Lists

LEMMA ListsClear ==
  ASSUME HeldTypes, Lists, Cleared
  PROVE  Lists'
  <1>1. Range(outbox') \subseteq Range(outbox) /\ (file' = outbox' \/ file' = file)
    BY DEF Cleared
  <1>2. ASSUME NEW m \in Messages
        PROVE  message'[m].pc \in {"cut", "dropped"} \/ message'[m] = message[m]
    BY DEF Cleared
  <1>3. ASSUME NEW q \in Range(outbox) \cup Range(file)
        PROVE  message'[q.msg].pc \in Queue /\ (message'[q.msg].pc = "held" => ~q.error)
    BY <1>2, QueuedIs DEF HeldTypes, Lists, Held, Is, Queue
  <1>4. Held(outbox)'
    BY <1>1, <1>3 DEF Held, Is, Lists
  <1>5. Held(file)'
    BY <1>1, <1>3, <1>4 DEF Held, Is, Lists
  <1>6. Backed'
    <2>1. CASE file' = outbox'
      BY <2>1 DEF Backed
    <2>2. CASE file' = file
      BY <1>1, <2>2 DEF Backed, Lists
    <2> QED
      BY <1>1, <2>1, <2>2
  <1> QED
    BY <1>4, <1>5, <1>6 DEF Lists

LEMMA ListsRelink ==
  ASSUME HeldTypes, Lists, Relinked
  PROVE  Lists'
  <1>1. outbox' = file /\ file' = file
    BY DEF Relinked
  <1>2. ASSUME NEW m \in Messages, Is(m, Queue)
        PROVE  message'[m] = message[m]
    BY <1>2 DEF Relinked, CallersOnly, Is, Queue, Mine
  <1>3. Held(outbox)'
    BY <1>1, <1>2, QueuedIs DEF Held, Is, HeldTypes, Lists
  <1>4. Held(file)'
    BY <1>1, <1>3 DEF Held, Is
  <1>5. Backed'
    BY <1>1 DEF Backed
  <1> QED
    BY <1>3, <1>4, <1>5 DEF Lists

LEMMA ListsStep ==
  ASSUME Types, Lines, Lists, [Next]_vars
  PROVE  Lists'
  BY HeldTypesIs, HeldStep, ListsStill, ListsHold, ListsEdit, ListsRemove, ListsSettle,
     ListsClear, ListsRelink

LEMMA ListsInit == Init => Lists
  <1> SUFFICES ASSUME Init
               PROVE  Lists
    OBVIOUS
  <1>1. outbox = <<>> /\ file = <<>>
    BY DEF Init
  <1> QED
    BY <1>1, NothingHeld DEF Lists, Held, Backed

-----------------------------------------------------------------------------
(* What is taken stays taken, and what is gone for good stays gone *)

\* A message taken from its user is never forgotten by its caller's state.
LEMMA TakenStays ==
  ASSUME Types, Lines, Lists, [Next]_vars
  PROVE  TakenStay
  <1> SUFFICES ASSUME NEW m \in Messages, Is(m, Taken)
               PROVE  message'[m].pc \in Taken
    BY DEF TakenStay, Is
  <1>1. CASE CallersOnly
    BY <1>1 DEF CallersOnly, Is, Mine, Taken
  <1>2. ASSUME NEW x \in Messages, NEW h, NewlyHeld(x, h)
        PROVE  message'[m].pc \in Taken
    BY <1>2 DEF NewlyHeld, Turns, Is, Taken
  <1>3. ASSUME NEW e, NEW f, Edited(e, f)
        PROVE  message'[m].pc \in Taken
    BY <1>3 DEF Edited, Is
  <1>4. ASSUME NEW e, RemovedOne(e)
        PROVE  message'[m].pc \in Taken
    BY <1>4 DEF RemovedOne, Turns, Is, Taken
  <1>5. ASSUME NEW id, NEW outcome, Settled(id, outcome)
        PROVE  message'[m].pc \in Taken
    BY <1>5 DEF Settled, Turns, Is, Taken
  <1>6. CASE Cleared
    BY <1>6 DEF Cleared, Is, Taken
  <1> QED
    BY <1>1, <1>2, <1>3, <1>4, <1>5, <1>6, HeldStep DEF StillHeld, Relinked

\* The message m was cut, and no copy of it is left.
Lost(m) == Is(m, {"cut"}) /\ ~Has(file, m)

ForGood == \E m \in Messages : Lost(m)

LEMMA LostStays ==
  ASSUME Types, Lines, Lists, [Next]_vars, NEW m \in Messages, Lost(m)
  PROVE  Lost(m)'
  <1>1. ~Has(file, m) /\ ~Has(outbox, m) /\ Is(m, {"cut"}) /\ HeldTypes
    BY HeldTypesIs DEF Lost, Lists, Backed, Has
  <1> SUFFICES message'[m].pc = "cut" /\ \A q \in Range(file') : q.msg # m
    BY DEF Lost, Is, Has
  <1>2. CASE StillHeld
    BY <1>1, <1>2 DEF StillHeld, CallersOnly, Is, Mine, Has
  <1>3. ASSUME NEW x \in Messages, NEW h, NewlyHeld(x, h)
        PROVE  message'[m].pc = "cut" /\ \A q \in Range(file') : q.msg # m
    BY <1>1, <1>3 DEF NewlyHeld, Turns, Is, Has
  <1>4. ASSUME NEW e, NEW f, Edited(e, f)
        PROVE  message'[m].pc = "cut" /\ \A q \in Range(file') : q.msg # m
    BY <1>1, <1>4 DEF Edited, Is, Has
  <1>5. ASSUME NEW e, RemovedOne(e)
        PROVE  message'[m].pc = "cut" /\ \A q \in Range(file') : q.msg # m
    BY <1>1, <1>5 DEF RemovedOne, Turns, Is, Has
  <1>6. ASSUME NEW id, NEW outcome, Settled(id, outcome)
        PROVE  message'[m].pc = "cut" /\ \A q \in Range(file') : q.msg # m
    <2>1. message'[m].pc = "cut"
      BY <1>1, <1>6 DEF Settled, Turns, Is, Has
    <2>2. \A q \in Range(outbox') : \E e \in Range(outbox) : q.msg = e.msg
      BY <1>1, <1>6, LeftIs DEF Settled, HeldTypes
    <2>3. file' = outbox' \/ file' = file
      BY <1>6 DEF Settled
    <2> QED
      BY <1>1, <2>1, <2>2, <2>3 DEF Has
  <1>7. CASE Cleared
    <2>1. message'[m].pc = "cut"
      BY <1>1, <1>7 DEF Cleared, Is, Has, Gone
    <2> QED
      BY <1>1, <1>7, <2>1 DEF Cleared, Has
  <1>8. CASE Relinked
    BY <1>1, <1>8 DEF Relinked, CallersOnly, Is, Mine, Has
  <1> QED
    BY <1>2, <1>3, <1>4, <1>5, <1>6, <1>7, <1>8, HeldStep

LEMMA ForGoodStays ==
  ASSUME Types, Lines, Lists, [Next]_vars, ForGood
  PROVE  ForGood'
  BY LostStays DEF ForGood

-----------------------------------------------------------------------------
(* The messages that go before another *)

Before ==
  \A m \in Messages : \A p \in before[m] :
    p \in Messages /\ Is(p, Taken) /\ SessionOf[p] = SessionOf[m]

LEMMA BeforeChanges ==
  ASSUME Types, [Next]_vars
  PROVE  UNCHANGED before \/ \E m \in Messages : Check(m)
  BY DEF Next, Caller, SendNow, Hold, Worker, Connect, Disconnected, Retire, Flush,
         Pick, Look, Send, Settle, Drop, User, EditHeld, RemoveHeld, Listing,
         StoreSessions, ReadList, Server, Take, Hear, Delete, Service, Restart,
         Reload, callerVars, vars

LEMMA CheckBefore ==
  ASSUME Types, NEW m \in Messages, Check(m)
  PROVE  /\ before'[m] = {p \in Messages : SessionOf[p] = SessionOf[m] /\ Is(p, {"held"})}
         /\ \A x \in Messages : x # m => before'[x] = before[x]
  BY DEF Check, Types

LEMMA BeforeStep ==
  ASSUME Types, Lines, Lists, Before, [Next]_vars
  PROVE  Before'
  <1>1. TakenStay
    BY TakenStays
  <1>2. CASE UNCHANGED before
    BY <1>1, <1>2 DEF Before, TakenStay
  <1>3. ASSUME NEW x \in Messages, Check(x)
        PROVE  Before'
    <2> SUFFICES ASSUME NEW m \in Messages, NEW p \in before'[m]
                 PROVE  p \in Messages /\ Is(p, Taken)' /\ SessionOf[p] = SessionOf[m]
      BY DEF Before
    <2>1. p \in Messages /\ Is(p, Taken) /\ SessionOf[p] = SessionOf[m]
      BY <1>3, CheckBefore DEF Before, Is, Taken
    <2> QED
      BY <1>1, <2>1 DEF TakenStay
  <1> QED
    BY <1>2, <1>3, BeforeChanges

-----------------------------------------------------------------------------
(* The message being delivered *)

Proceeds ==
  /\ gen' = gen /\ sending' = sending
  /\ Active(gen) /\ worker'[gen].item = worker[gen].item
  /\ ~Settle(gen)

\* The current worker takes up a message, goes on with it, or has none.
LEMMA WorkStep ==
  ASSUME Types, Lines, [Next]_vars
  PROVE  \/ worker'[gen'].pc \notin {"look", "send", "waiting", "settle"}
         \/ Pick(gen) /\ AnyReady(outbox)
         \/ Proceeds
  <1>1. gen \in Gens
    BY GenInGens
  <1>0. Settle(gen) => worker'[gen].pc \in {"on", "flush"}
    BY <1>1, SettleIs DEF Turn
  <1>2. CASE UNCHANGED <<worker, gen, sending>>
    BY <1>0, <1>2 DEF Proceeds, Active
  <1>3. CASE \E m \in Messages : Caller(m)
    BY <1>2, <1>3 DEF Caller, Check, SendNow, Hold, linkVars
  <1>4. ASSUME NEW g \in Gens, Worker(g), g # gen
        PROVE  Proceeds \/ worker'[gen'].pc \notin {"look", "send", "waiting", "settle"}
    <2>1. UNCHANGED <<gen, sending>>
      BY <1>4 DEF Worker, Connect, Disconnected, Retire, Flush, Pick, Look,
                  Send, Settle, Current, linkVars
    <2>2. worker'[gen] = worker[gen]
      <3>1. worker \in [Gens -> WorkerType]
        BY DEF Types, WorkerTypes
      <3>2. \/ \E w : worker' = [worker EXCEPT ![g] = w]
            \/ \E pc : Go(g, pc) \/ \E o : Result(g, o)
        BY <1>4 DEF Worker, Connect, Disconnected, Retire, Flush, Pick, Look,
                    Send, Settle, Current
      <3> QED
        BY <1>1, <1>4, <3>1, <3>2 DEF Go, Result
    <2>3. ~Settle(gen) \/ worker'[gen].pc \in {"on", "flush"}
      BY <1>1, SettleIs DEF Turn
    <2> QED
      BY <2>1, <2>2, <2>3 DEF Proceeds, Active
  <1>5. CASE Worker(gen)
    <2>1. CASE Connect(gen)
      BY <1>1, <2>1, ConnectIs DEF Turn, Connect
    <2>2. CASE Disconnected(gen)
      <3>1. Turn(gen, "off", worker[gen].conn, Item(gen), worker[gen].outcome)
        BY <1>1, <2>2, GoIs DEF Disconnected, WorkerPc
      <3> QED
        BY <2>2, <3>1 DEF Turn, Disconnected
    <2>3. CASE Retire(gen)
      BY <2>3 DEF Retire, Current
    <2>4. CASE Flush(gen)
      <3>1. Turn(gen, "flush", worker[gen].conn, Item(gen), worker[gen].outcome)
        BY <1>1, <2>4, GoIs DEF Flush, WorkerPc
      <3> QED
        BY <2>4, <3>1 DEF Turn, Flush
    <2>5. CASE Pick(gen) /\ ~AnyReady(outbox)
      <3>1. Turn(gen, "on", worker[gen].conn, Item(gen), worker[gen].outcome)
        BY <1>1, <2>5, GoIs DEF Pick, WorkerPc
      <3> QED
        BY <2>5, <3>1 DEF Turn, Pick
    <2>6. CASE Look(gen)
      <3>1. \/ Go(gen, "send")
            \/ Result(gen, "sent")
        BY <2>6 DEF Look
      <3>2. worker'[gen].item = worker[gen].item
        <4>1. CASE Go(gen, "send")
          BY <1>1, <4>1, GoIs DEF Turn, Item, WorkerPc
        <4>2. CASE Result(gen, "sent")
          BY <1>1, <4>2, ResultIs DEF Turn, Item, Outcome
        <4> QED
          BY <3>1, <4>1, <4>2
      <3> QED
        BY <2>6, <3>2 DEF Look, linkVars, Proceeds, Active, At, Settle
    <2>7. CASE Send(gen)
      <3>1. \/ Go(gen, "waiting")
            \/ Result(gen, "notSent")
        BY <2>7 DEF Send
      <3>2. worker'[gen].item = worker[gen].item
        <4>1. CASE Go(gen, "waiting")
          BY <1>1, <4>1, GoIs DEF Turn, Item, WorkerPc
        <4>2. CASE Result(gen, "notSent")
          BY <1>1, <4>2, ResultIs DEF Turn, Item, Outcome
        <4> QED
          BY <3>1, <4>1, <4>2
      <3> QED
        BY <2>7, <3>2 DEF Send, linkVars, Proceeds, Active, At, Settle
    <2>8. CASE Settle(gen)
      BY <1>1, <2>8, SettleIs DEF Turn, Settle
    <2> QED
      BY <1>5, <2>1, <2>2, <2>3, <2>4, <2>5, <2>6, <2>7, <2>8 DEF Worker
  <1>6. CASE User
    BY <1>2, <1>6 DEF User, EditHeld, RemoveHeld
  <1>7. CASE Listing
    BY <1>2, <1>7 DEF Listing, StoreSessions, ReadList, linkVars
  <1>8. ASSUME NEW c \in open, Drop(c)
        PROVE  \/ Proceeds
               \/ worker'[gen'].pc \notin {"look", "send", "waiting", "settle"}
    <2>1. PICK unwritten \in SUBSET Asked(c) : worker' = WorkersAfterDrop(c, unwritten)
      BY <1>8, DropIs
    <2>2. /\ worker'[gen].item = worker[gen].item
          /\ At(gen, "waiting") \/ worker'[gen] = worker[gen]
      BY <1>1, <2>1, DropWorker
    <2>3. gen' = gen /\ sending' = sending /\ drops' = drops + 1 /\ UNCHANGED outbox
      BY <1>8 DEF Drop, linkVars
    <2>4. Settle(gen) => worker'[gen].pc \in {"on", "flush"}
      BY <1>1, SettleIs DEF Turn
    <2> QED
      BY <2>2, <2>3, <2>4 DEF Proceeds, Active, At
  <1>9. CASE Server
    <2>1. CASE UNCHANGED <<worker, gen, sending>>
      <3>1. Settle(gen) => worker'[gen].pc \in {"on", "flush"}
        BY <1>1, SettleIs DEF Turn
      <3> QED
        BY <2>1, <3>1 DEF Proceeds, Active
    <2>2. CASE \E r \in wire : Hear(r) /\ r.held
      <3>1. PICK r \in wire : Hear(r) /\ r.held
        BY <2>2
      <3>2. PICK g \in Gens :
              Turn(g, "settle", worker[g].conn, Item(g),
                   IF r.answer = "ok" THEN "sent" ELSE "refused") /\ Active(g)
        BY <3>1, HearsIs
      <3>3. worker'[gen].item = worker[gen].item
              /\ (worker'[gen] = worker[gen] \/ Active(gen))
        BY <1>1, <3>2 DEF Turn, Item
      <3>4. gen' = gen /\ sending' = sending
        BY <3>1 DEF Hear, linkVars
      <3>5. Settle(gen) => worker'[gen].pc \in {"on", "flush"}
        BY <1>1, SettleIs DEF Turn
      <3> QED
        BY <3>3, <3>4, <3>5 DEF Proceeds, Active
    <2> QED
      BY <1>9, <2>1, <2>2 DEF Server, Take, Hear, Delete, linkVars
  <1>10. CASE Service
    <2>1. /\ gen' \in Gens
          /\ worker'[gen'] = NewWorker
      BY <1>10, RestartIs, ReloadIs DEF Service
    <2> QED
      BY <2>1, NewWorkerIs
  <1>11. CASE UNCHANGED vars
    <2>1. Settle(gen) => worker'[gen].pc \in {"on", "flush"}
      BY <1>1, SettleIs DEF Turn
    <2> QED
      BY <1>11, <2>1 DEF Proceeds, Active, vars, linkVars
  <1> QED
    BY <1>3, <1>4, <1>5, <1>6, <1>7, <1>8, <1>9, <1>10, <1>11 DEF Next

-----------------------------------------------------------------------------
(* The item of the worker is an entry of the outbox, or was cut *)

\* The item is the outbox's entry for its message, or was cut; and an entry that
\* has its id though it was cut took it up after the file lost the message.
IsPicked(item) ==
  /\ sending = item.id
  /\ Is(item.msg, Taken)
  /\ \A e \in Range(outbox) : e.msg = item.msg => e = item
  /\ ~Has(outbox, item.msg) =>
       /\ Is(item.msg, {"cut"})
       /\ (\E e \in Range(outbox) : e.id = item.id) => ~Has(file, item.msg)

Picked == Active(gen) => IsPicked(Item(gen))

LEMMA PickedProceeds ==
  ASSUME Types, Lines, Lists, [Next]_vars, Proceeds,
         NEW item \in Queued, IsPicked(item)
  PROVE  IsPicked(item)'
  <1>1. item.msg \in Messages /\ item.id \in Nat /\ HeldTypes
    BY QueuedIs, HeldTypesIs
  <1>2. sending' = item.id /\ sending = item.id
    BY DEF Proceeds, IsPicked
  <1>3. Is(item.msg, Taken)'
    BY <1>1, TakenStays DEF TakenStay, IsPicked
  <1> SUFFICES
        /\ \A e \in Range(outbox') : e.msg = item.msg => e = item
        /\ (\A e \in Range(outbox') : e.msg # item.msg) =>
             /\ message'[item.msg].pc = "cut"
             /\ (\E e \in Range(outbox') : e.id = item.id) =>
                  \A e \in Range(file') : e.msg # item.msg
    BY <1>2, <1>3 DEF IsPicked, Has, Is
  <1>4. CASE StillHeld
    <2>1. message'[item.msg] = message[item.msg]
      BY <1>1, <1>4 DEF StillHeld, CallersOnly, IsPicked, Is, Mine, Taken
    <2> QED
      BY <1>4, <2>1 DEF StillHeld, IsPicked, Has, Is
  <1>5. ASSUME NEW m \in Messages, NEW h, NewlyHeld(m, h)
        PROVE  /\ \A e \in Range(outbox') : e.msg = item.msg => e = item
               /\ (\A e \in Range(outbox') : e.msg # item.msg) =>
                    /\ message'[item.msg].pc = "cut"
                    /\ (\E e \in Range(outbox') : e.id = item.id) =>
                         \A e \in Range(file') : e.msg # item.msg
    <2>1. item.msg # m
      BY <1>5 DEF NewlyHeld, IsPicked, Is, Taken
    <2>2. message'[item.msg] = message[item.msg]
      BY <1>1, <1>5, <2>1 DEF NewlyHeld, Turns
    <2>3. Range(outbox') = Range(outbox) \cup {h} /\ file' = outbox' /\ h.msg = m
      BY <1>5 DEF NewlyHeld
    <2> QED
      BY <2>1, <2>2, <2>3 DEF IsPicked, Has, Is
  <1>6. ASSUME NEW e, NEW f, Edited(e, f)
        PROVE  /\ \A q \in Range(outbox') : q.msg = item.msg => q = item
               /\ (\A q \in Range(outbox') : q.msg # item.msg) =>
                    /\ message'[item.msg].pc = "cut"
                    /\ (\E q \in Range(outbox') : q.id = item.id) =>
                         \A q \in Range(file') : q.msg # item.msg
    <2>1. e \in Range(outbox) /\ e.id # item.id /\ e.msg # item.msg
      BY <1>6 DEF Edited, IsPicked
    <2>2. /\ Range(outbox') = (Range(outbox) \ {e}) \cup {f} /\ file' = outbox'
          /\ f.msg = e.msg /\ message' = message
      BY <1>6 DEF Edited
    <2> QED
      BY <2>1, <2>2 DEF IsPicked, Has, Is
  <1>7. ASSUME NEW e, RemovedOne(e)
        PROVE  /\ \A q \in Range(outbox') : q.msg = item.msg => q = item
               /\ (\A q \in Range(outbox') : q.msg # item.msg) =>
                    /\ message'[item.msg].pc = "cut"
                    /\ (\E q \in Range(outbox') : q.id = item.id) =>
                         \A q \in Range(file') : q.msg # item.msg
    <2>1. e \in Range(outbox) /\ e.id # item.id /\ e.msg # item.msg
      BY <1>7 DEF RemovedOne, IsPicked
    <2>2. Range(outbox') = Range(outbox) \ {e} /\ file' = outbox'
      BY <1>7 DEF RemovedOne
    <2>3. message'[item.msg] = message[item.msg]
      BY <1>1, <1>7, <2>1 DEF RemovedOne, Turns
    <2> QED
      BY <2>1, <2>2, <2>3 DEF IsPicked, Has, Is
  <1>8. CASE Cleared
    <2>1. /\ Range(outbox') = Range(outbox) \ Gone
          /\ file' = outbox' \/ file' = file
      BY <1>8 DEF Cleared
    <2>2. CASE Has(outbox, item.msg)
      <3>1. item \in Range(outbox)
        BY <2>2 DEF Has, IsPicked
      <3>2. CASE item \in Gone
        <4>1. message'[item.msg].pc = "cut"
          BY <1>1, <1>2, <1>8, <3>2 DEF Cleared
        <4>2. \A e \in Range(outbox') : e.id # item.id
          BY <1>1, <2>1, <3>1, <3>2 DEF HeldTypes
        <4> QED
          BY <2>1, <4>1, <4>2 DEF IsPicked
      <3>3. CASE item \notin Gone
        BY <2>1, <3>1, <3>3 DEF IsPicked
      <3> QED
        BY <3>2, <3>3
    <2>3. CASE ~Has(outbox, item.msg)
      <3>1. message'[item.msg] = message[item.msg]
        BY <1>1, <1>8, <2>3 DEF Cleared, Has, Gone
      <3> QED
        BY <2>1, <2>3, <3>1 DEF IsPicked, Has, Is
    <2> QED
      BY <2>2, <2>3
  <1>9. CASE Relinked
    BY <1>9 DEF Relinked, Proceeds
  <1> QED
    BY <1>4, <1>5, <1>6, <1>7, <1>8, <1>9, HeldStep DEF Proceeds

LEMMA PickedStep ==
  ASSUME Types, Lines, Lists, Picked, [Next]_vars
  PROVE  Picked'
  <1>1. CASE worker'[gen'].pc \notin {"look", "send", "waiting", "settle"}
    BY <1>1 DEF Picked, Active
  <1>2. CASE Pick(gen) /\ AnyReady(outbox)
    <2>1. PICK item : item = NextReady(outbox)
      OBVIOUS
    <2>2. item \in Range(outbox) /\ item \in Queued
      BY <1>2, <2>1, NextReadyIn DEF Types
    <2>3. sending' = item.id /\ worker'[gen].item = item
      BY <1>2, <2>1, PickIs, GenInGens DEF Turn
    <2>4. UNCHANGED <<outbox, file, message, gen>>
      BY <1>2 DEF Pick, callerVars
    <2>5. Is(item.msg, Taken)
      BY <2>2 DEF Lists, Held, Is, Queue, Taken
    <2>6. \A e \in Range(outbox) : e.msg = item.msg => e = item
      BY <2>2 DEF Lists, Held
    <2>7. IsPicked(item)'
      BY <2>2, <2>3, <2>4, <2>5, <2>6 DEF IsPicked, Has, Is
    <2> QED
      BY <2>3, <2>4, <2>7 DEF Picked, Item
  <1>3. CASE Proceeds
    <2>1. PICK item : item = Item(gen)
      OBVIOUS
    <2>2. item \in Queued /\ IsPicked(item)
      BY <1>3, <2>1, ItemMsg, GenInGens DEF Proceeds, Picked
    <2>3. IsPicked(item)'
      BY <1>3, <2>2, PickedProceeds
    <2>4. worker'[gen'].item = item
      BY <1>3, <2>1 DEF Proceeds, Item
    <2> QED
      BY <2>3, <2>4 DEF Picked, Item
  <1> QED
    BY <1>1, <1>2, <1>3, WorkStep

Base == Types /\ Lines /\ Lists /\ Before /\ Picked

LEMMA BaseInit == Init => Base
  <1> SUFFICES ASSUME Init
               PROVE  Base
    OBVIOUS
  <1>1. Before
    BY DEF Init, Before
  <1>2. Picked
    BY DEF Init, Picked, Active, NewWorker, Gens
  <1> QED
    BY <1>1, <1>2, TypesInit, LinesInit, ListsInit DEF Base

LEMMA BaseStep ==
  ASSUME Base, [Next]_vars
  PROVE  Base'
  BY TypesStep, LinesStep, ListsStep, BeforeStep, PickedStep DEF Base, Lists

LEMMA BaseAlways == Spec => []Base
  BY BaseInit, BaseStep, PTL DEF Spec

-----------------------------------------------------------------------------
(* What a step does to a worker *)

ActivePc == {"look", "send", "waiting", "settle"}

\* The worker goes on with its item, on its connection.
Onward(g, from, to) ==
  /\ At(g, from) /\ worker'[g].pc = to
  /\ worker'[g].item = worker[g].item /\ worker'[g].conn = worker[g].conn

Found(g) ==
  /\ worker[g].conn \in open /\ SessionOf[Item(g).msg] \in sessions
  /\ Arrived(Item(g))

\* What the connection's end leaves of what was asked over it.
DropWith(c, unwritten) ==
  /\ unwritten \in SUBSET Asked(c)
  /\ wire' = {r \in wire : r.conn # c} \cup (Asked(c) \ unwritten)
  /\ worker' = WorkersAfterDrop(c, unwritten)
  /\ message' = CallersAfterDrop(c, unwritten)

\* The worker sends its item.
Asks(g) ==
  /\ Send(g) /\ Onward(g, "send", "waiting") /\ worker[g].conn \in open
  /\ wire' = wire \cup {Request(worker[g].conn, Item(g).msg, Item(g).text, TRUE)}

Takes(g, item) ==
  /\ g = gen /\ AnyReady(outbox) /\ item = NextReady(outbox)
  /\ worker'[g].item = item /\ worker'[g].conn = worker[g].conn
  /\ worker'[g].pc = IF item.uncertain THEN "look" ELSE "send"

Moves(g) ==
  \/ worker'[g] = worker[g]
  \/ worker'[g].pc \notin ActivePc /\ (Active(g) => Settle(g) \/ Service)
  \/ Pick(g) /\ \E item : Takes(g, item)
  \/ Look(g) /\ Onward(g, "look", "send")
  \/ Look(g) /\ Onward(g, "look", "settle") /\ worker'[g].outcome = "sent" /\ Found(g)
  \/ Asks(g) /\ UNCHANGED got
  \/ Onward(g, "send", "settle") /\ worker'[g].outcome = "notSent" /\ UNCHANGED <<wire, got>>
  \/ \E c, unwritten :
       /\ Drop(c) /\ DropWith(c, unwritten) /\ worker[g].conn = c
       /\ Onward(g, "waiting", "settle")
       /\ worker'[g].outcome = IF \E r \in unwritten : r.held THEN "notSent" ELSE "lost"
  \/ \E r \in wire :
       /\ Hear(r) /\ r.held /\ Serves(g, r) /\ Onward(g, "waiting", "settle")
       /\ worker'[g].outcome = IF r.answer = "ok" THEN "sent" ELSE "refused"

LEMMA MovesIs ==
  ASSUME Types, Lines, [Next]_vars, NEW g \in Gens
  PROVE  Moves(g)
  <1>1. worker \in [Gens -> WorkerType] /\ gen \in Gens
    BY GenInGens DEF Types, WorkerTypes
  <1>2. CASE UNCHANGED worker
    BY <1>2 DEF Moves
  <1>3. CASE \E m \in Messages : Caller(m)
    BY <1>2, <1>3 DEF Caller, Check, SendNow, Hold
  <1>4. ASSUME NEW h \in Gens, Worker(h), h # g
        PROVE  Moves(g)
    <2>1. \/ \E w : worker' = [worker EXCEPT ![h] = w]
          \/ \E pc : Go(h, pc) \/ \E o : Result(h, o)
      BY <1>4 DEF Worker, Connect, Disconnected, Retire, Flush, Pick, Look,
                  Send, Settle, Current
    <2>2. worker'[g] = worker[g]
      BY <1>1, <1>4, <2>1 DEF Go, Result
    <2> QED
      BY <2>2 DEF Moves
  <1>5. CASE Worker(g)
    <2>1. CASE Connect(g)
      BY <2>1, ConnectIs DEF Turn, Moves, ActivePc, Connect, At, Active
    <2>2. CASE Disconnected(g)
      BY <2>2, GoIs DEF Turn, Moves, ActivePc, Disconnected, WorkerPc, At, Active
    <2>3. CASE Retire(g)
      BY <2>3, RetireIs DEF Turn, Moves, ActivePc, Retire, Active
    <2>4. CASE Flush(g)
      BY <2>4, GoIs DEF Turn, Moves, ActivePc, Flush, WorkerPc, At, Active
    <2>5. CASE Pick(g)
      <3>1. CASE ~AnyReady(outbox)
        BY <2>5, <3>1, GoIs DEF Turn, Moves, ActivePc, Pick, WorkerPc, At, Active
      <3>2. CASE AnyReady(outbox)
        <4>1. Takes(g, NextReady(outbox))
          BY <2>5, <3>2, PickIs DEF Turn, Takes, Pick, Current
        <4> QED
          BY <2>5, <4>1 DEF Moves
      <3> QED
        BY <3>1, <3>2
    <2>6. CASE Look(g)
      <3>1. At(g, "look")
        BY <2>6 DEF Look
      <3>2. CASE Go(g, "send")
        <4>1. Turn(g, "send", worker[g].conn, Item(g), worker[g].outcome)
          BY <3>2, GoIs DEF WorkerPc
        <4>2. Onward(g, "look", "send")
          BY <3>1, <4>1 DEF Turn, Onward, Item
        <4> QED
          BY <2>6, <4>2 DEF Moves
      <3>3. CASE Result(g, "sent") /\ Found(g)
        <4>1. Turn(g, "settle", worker[g].conn, Item(g), "sent")
          BY <3>3, ResultIs DEF Outcome
        <4>2. Onward(g, "look", "settle") /\ worker'[g].outcome = "sent"
          BY <3>1, <4>1 DEF Turn, Onward, Item
        <4> QED
          BY <2>6, <3>3, <4>2 DEF Moves
      <3> QED
        BY <2>6, <3>2, <3>3 DEF Look, Found, Item
    <2>7. CASE Send(g)
      <3>1. At(g, "send")
        BY <2>7 DEF Send
      <3>2. CASE /\ Go(g, "waiting") /\ worker[g].conn \in open
                 /\ wire' = wire \cup {Request(worker[g].conn, Item(g).msg, Item(g).text, TRUE)}
        <4>1. Turn(g, "waiting", worker[g].conn, Item(g), worker[g].outcome)
          BY <3>2, GoIs DEF WorkerPc
        <4>2. Onward(g, "send", "waiting")
          BY <3>1, <4>1 DEF Turn, Onward, Item
        <4> QED
          BY <2>7, <3>2, <4>2 DEF Moves, Asks, Send, serverVars
      <3>3. CASE Result(g, "notSent") /\ UNCHANGED wire
        <4>1. Turn(g, "settle", worker[g].conn, Item(g), "notSent")
          BY <3>3, ResultIs DEF Outcome
        <4>2. Onward(g, "send", "settle") /\ worker'[g].outcome = "notSent"
          BY <3>1, <4>1 DEF Turn, Onward, Item
        <4> QED
          BY <2>7, <3>3, <4>2 DEF Moves, Send, serverVars
      <3> QED
        BY <2>7, <3>2, <3>3 DEF Send, Item
    <2>8. CASE Settle(g)
      <3>1. CASE g = gen
        BY <2>8, <3>1, SettleIs DEF Turn, Moves, ActivePc
      <3>2. CASE g # gen
        BY <2>8, <3>2, RetireIs DEF Turn, Moves, ActivePc, Settle, Current
      <3> QED
        BY <3>1, <3>2
    <2> QED
      BY <1>5, <2>1, <2>2, <2>3, <2>4, <2>5, <2>6, <2>7, <2>8 DEF Worker
  <1>6. CASE User
    BY <1>2, <1>6 DEF User, EditHeld, RemoveHeld
  <1>7. CASE Listing
    BY <1>2, <1>7 DEF Listing, StoreSessions, ReadList
  <1>8. ASSUME NEW c \in open, Drop(c)
        PROVE  Moves(g)
    <2>1. PICK unwritten : DropWith(c, unwritten)
      BY <1>8, DropIs DEF DropWith
    <2>2. IF At(g, "waiting") /\ worker[g].conn = c
          THEN /\ Onward(g, "waiting", "settle")
               /\ worker'[g].outcome =
                    IF \E r \in unwritten : r.held THEN "notSent" ELSE "lost"
          ELSE worker'[g] = worker[g]
      BY <2>1, DropWorker DEF DropWith, Onward
    <2>3. CASE At(g, "waiting") /\ worker[g].conn = c
      BY <1>8, <2>1, <2>2, <2>3 DEF Moves
    <2>4. CASE ~(At(g, "waiting") /\ worker[g].conn = c)
      BY <2>2, <2>4 DEF Moves
    <2> QED
      BY <2>3, <2>4
  <1>9. CASE Server
    <2>1. ASSUME NEW r \in wire, Hear(r), r.held
          PROVE  Moves(g)
      <3>1. PICK h \in Gens :
              /\ Serves(h, r)
              /\ Turn(h, "settle", worker[h].conn, Item(h),
                      IF r.answer = "ok" THEN "sent" ELSE "refused")
        BY <2>1, HearsIs
      <3>2. CASE h # g
        BY <3>1, <3>2 DEF Turn, Moves
      <3>3. CASE h = g
        <4>1. Onward(g, "waiting", "settle")
                /\ worker'[g].outcome = IF r.answer = "ok" THEN "sent" ELSE "refused"
          BY <3>1, <3>3 DEF Turn, Onward, Serves, Item
        <4> QED
          BY <2>1, <3>1, <3>3, <4>1 DEF Moves
      <3> QED
        BY <3>2, <3>3
    <2> QED
      BY <1>2, <1>9, <2>1 DEF Server, Take, Hear, Delete
  <1>10. CASE Service
    <2>1. worker'[g] \in {NewWorker, Ended, worker[g]}
      BY <1>10, RestartIs, ReloadIs DEF Service
    <2> QED
      BY <1>10, <2>1, NewWorkerIs, EndedIs DEF Moves, ActivePc
  <1>11. CASE UNCHANGED vars
    BY <1>2, <1>11 DEF vars
  <1> QED
    BY <1>3, <1>4, <1>5, <1>6, <1>7, <1>8, <1>9, <1>10, <1>11 DEF Next

-----------------------------------------------------------------------------
(* What a step does to the requests and to what the server took *)

Posts(m) ==
  /\ SendNow(m) /\ Is(m, {"direct"}) /\ message[m].conn \in open
  /\ wire' = wire \cup {Request(message[m].conn, m, Typed[m], FALSE)}

\* The server answers request r, and takes it if ok.
Answers(r, ok, answered) ==
  /\ Take(r) /\ r.answer = "none"
  /\ ok => SessionOf[r.msg] \in sessions
  /\ got' = IF ok THEN Append(got, [msg |-> r.msg, text |-> r.text]) ELSE got
  /\ wire' = (wire \ {r}) \cup answered
  /\ r.conn \notin open => answered = {}
  /\ \A x \in answered :
       /\ x.conn = r.conn /\ x.msg = r.msg /\ x.text = r.text
       /\ x.held = r.held /\ x.answer = IF ok THEN "ok" ELSE "error"

Carries ==
  \/ wire' \subseteq wire /\ UNCHANGED got
  \/ \E m \in Messages : Posts(m) /\ UNCHANGED got
  \/ \E g \in Gens : Asks(g) /\ UNCHANGED got
  \/ \E r \in wire, ok \in BOOLEAN : \E answered : Answers(r, ok, answered)

LEMMA CarriesIs ==
  ASSUME Types, Lines, [Next]_vars
  PROVE  Carries
  <1>1. CASE UNCHANGED <<wire, got>>
    BY <1>1 DEF Carries
  <1>2. ASSUME NEW m \in Messages, Caller(m)
        PROVE  Carries
    <2>1. CASE SendNow(m) /\ message[m].conn \in open
      BY <2>1 DEF SendNow, Carries, Posts, serverVars
    <2> QED
      BY <1>1, <1>2, <2>1 DEF Caller, Check, SendNow, Hold, connVars, serverVars
  <1>3. ASSUME NEW g \in Gens, Worker(g)
        PROVE  Carries
    <2>1. CASE Send(g) /\ worker[g].conn \in open
      <3>1. At(g, "send") /\ Go(g, "waiting") /\ UNCHANGED got
              /\ wire' = wire \cup {Request(worker[g].conn, Item(g).msg, Item(g).text, TRUE)}
        BY <2>1 DEF Send, serverVars, Item
      <3>2. Turn(g, "waiting", worker[g].conn, Item(g), worker[g].outcome)
        BY <3>1, GoIs DEF WorkerPc
      <3>3. Onward(g, "send", "waiting")
        BY <3>1, <3>2 DEF Turn, Onward, Item
      <3> QED
        BY <2>1, <3>1, <3>3 DEF Carries, Asks
    <2> QED
      BY <1>1, <1>3, <2>1 DEF Worker, Connect, Disconnected, Retire, Flush, Pick, Look,
         Send, Settle, connVars, serverVars
  <1>4. CASE User \/ Listing
    BY <1>1, <1>4 DEF User, EditHeld, RemoveHeld, Listing, StoreSessions, ReadList,
       connVars, serverVars
  <1>5. ASSUME NEW c \in open, Drop(c)
        PROVE  Carries
    <2>1. PICK unwritten : DropWith(c, unwritten)
      BY <1>5, DropIs DEF DropWith
    <2>2. wire' \subseteq wire
      BY <2>1 DEF DropWith, Asked
    <2> QED
      BY <1>5, <2>2 DEF Drop, Carries, serverVars
  <1>6. ASSUME NEW r \in wire, Take(r)
        PROVE  Carries
    <2>1. \E ok \in BOOLEAN : \E answered : Answers(r, ok, answered)
      BY <1>6, TakeIs DEF Answers
    <2> QED
      BY <2>1 DEF Carries
  <1>7. ASSUME NEW r \in wire, Hear(r)
        PROVE  Carries
    BY <1>7 DEF Hear, Carries, serverVars
  <1>8. ASSUME NEW s \in sessions, Delete(s)
        PROVE  Carries
    BY <1>1, <1>8 DEF Delete, connVars
  <1>9. CASE Service
    BY <1>9, RestartIs, ReloadIs DEF Service, Carries
  <1>10. CASE UNCHANGED vars
    BY <1>1, <1>10 DEF vars, connVars, serverVars
  <1> QED
    BY <1>2, <1>3, <1>4, <1>5, <1>6, <1>7, <1>8, <1>9, <1>10 DEF Next, Server

-----------------------------------------------------------------------------
(* Whose words a text is *)

\* The text is the message's, as written or as edited.
Words(m) == {Typed[m], Retyped[m]}
Own(q) == q.text \in Words(q.msg)

Worded ==
  /\ \A e \in Range(outbox) \cup Range(file) : Own(e)
  /\ \A i \in DOMAIN got : Own(got[i])
  /\ \A r \in wire : Own(r)
  /\ \A g \in Gens : Active(g) => Own(Item(g))

LEMMA ListsWorded ==
  ASSUME Types, Lines, Lists, Worded, [Next]_vars
  PROVE  \A q \in Range(outbox') \cup Range(file') : Own(q)
  <1>0. HeldTypes
    BY HeldTypesIs
  <1>1. CASE StillHeld
    BY <1>1 DEF StillHeld, Worded
  <1>2. ASSUME NEW m \in Messages, NEW h, NewlyHeld(m, h)
        PROVE  \A q \in Range(outbox') \cup Range(file') : Own(q)
    <2>1. Own(h)
      BY <1>2 DEF NewlyHeld, Own, Words
    <2> QED
      BY <1>2, <2>1 DEF NewlyHeld, Worded
  <1>3. ASSUME NEW e, NEW f, Edited(e, f)
        PROVE  \A q \in Range(outbox') \cup Range(file') : Own(q)
    <2>1. Own(f)
      BY <1>3 DEF Edited, Own, Words
    <2> QED
      BY <1>3, <2>1 DEF Edited, Worded
  <1>4. ASSUME NEW e, RemovedOne(e)
        PROVE  \A q \in Range(outbox') \cup Range(file') : Own(q)
    BY <1>4 DEF RemovedOne, Worded
  <1>5. ASSUME NEW id, NEW outcome, Settled(id, outcome)
        PROVE  \A q \in Range(outbox') \cup Range(file') : Own(q)
    <2>1. \A q \in Range(outbox') : \E e \in Range(outbox) : q.msg = e.msg /\ q.text = e.text
      BY <1>0, <1>5, LeftIs DEF Settled, HeldTypes
    <2>2. \A q \in Range(outbox') : Own(q)
      BY <2>1 DEF Worded, Own
    <2>3. file' = outbox' \/ file' = file
      BY <1>5 DEF Settled
    <2> QED
      BY <2>2, <2>3 DEF Worded
  <1>6. CASE Cleared
    BY <1>6 DEF Cleared, Worded
  <1>7. CASE Relinked
    BY <1>7 DEF Relinked, Worded
  <1> QED
    BY <1>1, <1>2, <1>3, <1>4, <1>5, <1>6, <1>7, HeldStep

LEMMA WordedStep ==
  ASSUME Types, Lines, Lists, Worded, [Next]_vars
  PROVE  Worded'
  <1>1. \A q \in Range(outbox') \cup Range(file') : Own(q)
    BY ListsWorded
  <1>2. Carries
    BY CarriesIs
  <1>3. \A r \in wire' : Own(r)
    <2>1. CASE wire' \subseteq wire
      BY <2>1 DEF Worded
    <2>2. ASSUME NEW m \in Messages, Posts(m)
          PROVE  \A r \in wire' : Own(r)
      BY <2>2 DEF Posts, Request, Worded, Own, Words
    <2>3. ASSUME NEW g \in Gens, Asks(g)
          PROVE  \A r \in wire' : Own(r)
      <3>1. Own(Item(g))
        BY <2>3 DEF Asks, Onward, At, Active, Worded
      <3> QED
        BY <2>3, <3>1 DEF Asks, Request, Worded, Own
    <2>4. ASSUME NEW r \in wire, NEW ok \in BOOLEAN, NEW answered, Answers(r, ok, answered)
          PROVE  \A x \in wire' : Own(x)
      BY <2>4 DEF Answers, Worded, Own
    <2> QED
      BY <1>2, <2>1, <2>2, <2>3, <2>4 DEF Carries
  <1>4. \A i \in DOMAIN got' : Own(got'[i])
    <2>1. CASE UNCHANGED got
      BY <2>1 DEF Worded
    <2>2. ASSUME NEW r \in wire, got' = Append(got, [msg |-> r.msg, text |-> r.text])
          PROVE  \A i \in DOMAIN got' : Own(got'[i])
      <3> DEFINE e == [msg |-> r.msg, text |-> r.text]
      <3>1. e \in TakenType /\ Own(e)
        BY RequestMsg DEF TakenType, Worded, Own
      <3> HIDE DEF e
      <3>2. /\ Len(got) \in Nat /\ DOMAIN got = 1..Len(got)
            /\ DOMAIN got' = 1..(Len(got) + 1)
            /\ \A i \in DOMAIN got : got'[i] = got[i]
            /\ got'[Len(got) + 1] = e
        BY <2>2, <3>1, GotGrows DEF e
      <3> QED
        BY <3>1, <3>2 DEF Worded
    <2> QED
      BY <1>2, <2>1, <2>2 DEF Carries, Answers
  <1>5. ASSUME NEW g \in Gens, worker'[g].pc \in ActivePc
        PROVE  Own(worker'[g].item)
    <2>1. CASE worker'[g].item = worker[g].item /\ Active(g)
      BY <2>1 DEF Worded, Item
    <2>2. CASE \E item : Takes(g, item)
      <3>1. NextReady(outbox) \in Range(outbox)
        BY <2>2, NextReadyIn DEF Takes, Types
      <3> QED
        BY <2>2, <3>1 DEF Takes, Worded
    <2> QED
      BY <1>5, <2>1, <2>2, MovesIs DEF Moves, Asks, Onward, At, Active, ActivePc
  <1> QED
    BY <1>1, <1>3, <1>4, <1>5 DEF Worded, Active, Item, ActivePc

-----------------------------------------------------------------------------
(* What the server took *)

LEMMA DeliveredGrows ==
  ASSUME Types, Lines, [Next]_vars, NEW m, Delivered(m)
  PROVE  Delivered(m)'
  <1>1. CASE UNCHANGED got
    BY <1>1 DEF Delivered
  <1>2. ASSUME NEW r \in wire, NEW ok \in BOOLEAN, NEW answered, Answers(r, ok, answered)
        PROVE  Delivered(m)'
    BY <1>2, TakeDelivers DEF Answers
  <1> QED
    BY <1>1, <1>2, CarriesIs DEF Carries

-----------------------------------------------------------------------------
(* A held message is kept *)

\* Two messages of one session never read the same, whether edited or not.
Different ==
  \A m, n \in Messages :
    m # n /\ SessionOf[m] = SessionOf[n] => Words(m) \cap Words(n) = {}

\* What a worker counts as sent, the server has.
Confirmed ==
  \A g \in Gens : At(g, "settle") /\ worker[g].outcome = "sent" => Delivered(Item(g).msg)

LEMMA ConfirmedStep ==
  ASSUME Different, Types, Lines, Worded, Confirmed, [Next]_vars
  PROVE  Confirmed'
  <1> SUFFICES ASSUME NEW g \in Gens, worker'[g].pc = "settle", worker'[g].outcome = "sent",
                      NEW m, m = worker'[g].item.msg
               PROVE  Delivered(m)'
    BY DEF Confirmed, At, Item, Delivered
  <1>1. CASE worker'[g] = worker[g]
    <2>1. Delivered(m)
      BY <1>1 DEF Confirmed, At, Item
    <2> QED
      BY <2>1, DeliveredGrows
  <1>2. CASE Onward(g, "look", "settle") /\ Found(g)
    <2>1. PICK i \in DOMAIN got : /\ SessionOf[got[i].msg] = SessionOf[Item(g).msg]
                                  /\ got[i].text = Item(g).text
      BY <1>2 DEF Found, Arrived
    <2>2. got[i].msg \in Messages /\ Own(got[i])
      <3>1. got \in Seq(TakenType)
        BY DEF Types
      <3>2. got[i] \in TakenType
        BY <2>1, <3>1, ElementOfSeq, LenProperties
      <3> QED
        BY <3>2 DEF TakenType, Worded
    <2>3. Item(g).msg \in Messages /\ Own(Item(g))
      BY <1>2, ItemMsg DEF Onward, At, Active, Worded
    <2>4. got[i].msg = Item(g).msg
      BY <2>1, <2>2, <2>3 DEF Different, Own
    <2>5. Delivered(m)
      BY <1>2, <2>4 DEF Delivered, Onward, Item
    <2> QED
      BY <2>5, DeliveredGrows
  <1>3. ASSUME NEW r \in wire, Serves(g, r), Onward(g, "waiting", "settle"), r.answer = "ok"
        PROVE  Delivered(m)'
    <2>1. Delivered(m)
      BY <1>3 DEF Lines, Requests, GoodRequest, Serves, Onward, Item
    <2> QED
      BY <2>1, DeliveredGrows
  <1>4. Moves(g)
    BY MovesIs
  <1> QED
    BY <1>1, <1>2, <1>3, <1>4 DEF Moves, Asks, Takes, Onward, ActivePc

Kept ==
  \A m \in Messages : Is(m, {"held", "refused"}) => Has(outbox, m) \/ Delivered(m)

LEMMA KeptStep ==
  ASSUME Base, Confirmed, [Next]_vars, ForGood \/ Kept
  PROVE  ForGood' \/ Kept'
  <1>0. Types /\ Lines /\ Lists /\ Picked /\ HeldTypes
    BY HeldTypesIs DEF Base
  <1>1. CASE ForGood
    BY <1>0, <1>1, ForGoodStays
  <1>2. CASE ~ForGood /\ Kept
    <2> SUFFICES ASSUME NEW m \in Messages, message'[m].pc \in {"held", "refused"}
                 PROVE  (\E q \in Range(outbox') : q.msg = m) \/ Delivered(m)'
      BY DEF Kept, Is, Has
    <2>1. ASSUME message'[m] = message[m]
          PROVE  Has(outbox, m) \/ Delivered(m)
      BY <1>2, <2>1 DEF Kept, Is
    <2>2. Delivered(m) => Delivered(m)'
      BY <1>0, DeliveredGrows
    <2>3. ASSUME CallersOnly
          PROVE  Has(outbox, m) \/ Delivered(m)
      BY <2>1, <2>3 DEF CallersOnly, Is, Mine
    <2>4. CASE StillHeld
      BY <2>2, <2>3, <2>4 DEF StillHeld, Has
    <2>5. ASSUME NEW x \in Messages, NEW h, NewlyHeld(x, h)
          PROVE  (\E q \in Range(outbox') : q.msg = m) \/ Delivered(m)'
      BY <2>1, <2>2, <2>5 DEF NewlyHeld, Turns, Has
    <2>6. ASSUME NEW e, NEW f, Edited(e, f)
          PROVE  (\E q \in Range(outbox') : q.msg = m) \/ Delivered(m)'
      BY <2>1, <2>2, <2>6 DEF Edited, Has
    <2>7. ASSUME NEW e, RemovedOne(e)
          PROVE  (\E q \in Range(outbox') : q.msg = m) \/ Delivered(m)'
      BY <2>1, <2>2, <2>7 DEF RemovedOne, Turns, Has
    <2>8. CASE \E g \in Gens : Settle(g) /\ g = gen
                                 /\ Settled(Item(g).id, worker[g].outcome)
      <3>1. Settle(gen) /\ Settled(Item(gen).id, worker[gen].outcome) /\ gen \in Gens
        BY <2>8
      <3>2. PICK id, outcome : id = Item(gen).id /\ outcome = worker[gen].outcome
        OBVIOUS
      <3>3. Has(outbox, m) \/ Delivered(m)
        <4>1. CASE message'[m] = message[m]
          BY <2>1, <4>1
        <4>2. CASE message'[m] # message[m]
          BY <3>1, <4>2 DEF Settled, Turns, Has
        <4> QED
          BY <4>1, <4>2
      <3>4. ASSUME NEW e \in Range(outbox), e.msg = m
            PROVE  (\E q \in Range(outbox') : q.msg = m) \/ Delivered(m)
        <4>1. CASE outcome = "sent" => e.id # id
          <5>1. LeftOf(e, id, outcome) \in Range(outbox')
            BY <3>1, <3>2, <4>1 DEF Settled
          <5>2. LeftOf(e, id, outcome).msg = e.msg
            BY <1>0, LeftIs DEF HeldTypes
          <5> QED
            BY <3>4, <5>1, <5>2
        <4>2. CASE outcome = "sent" /\ e.id = id
          <5>1. At(gen, "settle") /\ Active(gen)
            BY <3>1 DEF Settle, At, Active
          <5>2. Delivered(Item(gen).msg) /\ IsPicked(Item(gen)) /\ Item(gen).msg \in Messages
            BY <1>0, <3>1, <3>2, <4>2, <5>1, ItemMsg DEF Confirmed, Picked
          <5>3. CASE Has(outbox, Item(gen).msg)
            <6>1. Item(gen) \in Range(outbox)
              BY <5>2, <5>3 DEF IsPicked, Has
            <6>2. e = Item(gen)
              BY <1>0, <3>2, <4>2, <6>1 DEF HeldTypes
            <6> QED
              BY <3>4, <5>2, <6>2
          <5>4. CASE ~Has(outbox, Item(gen).msg)
            <6>1. Lost(Item(gen).msg)
              BY <3>2, <4>2, <5>2, <5>4 DEF IsPicked, Lost
            <6> QED
              BY <1>2, <5>2, <6>1 DEF ForGood
          <5> QED
            BY <5>3, <5>4
        <4> QED
          BY <4>1, <4>2
      <3> QED
        BY <2>2, <3>3, <3>4 DEF Has
    <2>9. CASE Cleared
      <3>1. ~(\E e \in Gone : e.msg = m) /\ message'[m] = message[m]
        BY <2>9 DEF Cleared
      <3>2. Range(outbox') = Range(outbox) \ Gone
        BY <2>9 DEF Cleared
      <3> QED
        BY <2>1, <2>2, <3>1, <3>2 DEF Has
    <2>10. CASE Relinked
      <3>1. Has(outbox, m) => Has(file, m)
        BY <1>0 DEF Lists, Backed, Has
      <3> QED
        BY <2>2, <2>3, <2>10, <3>1 DEF Relinked, Has
    <2> QED
      BY <1>0, <2>4, <2>5, <2>6, <2>7, <2>8, <2>9, <2>10, HeldStep
  <1> QED
    BY <1>1, <1>2

Holds == Base /\ Worded /\ Confirmed /\ (ForGood \/ Kept)

LEMMA HoldsInit == Init => Holds
  <1> SUFFICES ASSUME Init
               PROVE  Holds
    OBVIOUS
  <1>1. Base
    BY BaseInit
  <1>2. Range(outbox) = {} /\ Range(file) = {} /\ wire = {} /\ DOMAIN got = {}
    BY NothingHeld, EmptySeq, LenProperties DEF Init
  <1>3. \A g \in Gens : worker[g].pc \in {"off", "ended"}
    BY NewWorkerIs, EndedIs DEF Init
  <1>4. Worded /\ Confirmed
    BY <1>2, <1>3 DEF Worded, Confirmed, Active, At
  <1>5. Kept
    BY DEF Init, Kept, Is
  <1> QED
    BY <1>1, <1>4, <1>5 DEF Holds

LEMMA HoldsStep ==
  ASSUME Different, Holds, [Next]_vars
  PROVE  Holds'
  BY BaseStep, WordedStep, ConfirmedStep, KeptStep DEF Holds, Base

LEMMA HoldsAlways ==
  ASSUME Different
  PROVE  Spec => []Holds
  <1>1. Holds /\ [Next]_vars => Holds'
    BY HoldsStep
  <1> QED
    BY <1>1, HoldsInit, PTL DEF Spec

\* A message a user was told is held or refused is in the outbox, or the server
\* has it, unless one was cut.  That a look takes no message for another is a
\* hypothesis: Federation::arrived compares texts.
THEOREM HeldMessageIsKept ==
  ASSUME Different
  PROVE  Spec => []HeldIsKeptUnlessCut
  <1>1. Holds => HeldIsKeptUnlessCut
    <2> SUFFICES ASSUME Holds, ~Confused
                 PROVE  HeldIsKept
      BY DEF HeldIsKeptUnlessCut
    <2>1. ~ForGood
      BY DEF Confused, ForGood, Lost
    <2>2. \A m : InOutbox(outbox, m) <=> Has(outbox, m)
      BY Naming DEF Holds, Base, Types, Has
    <2> QED
      BY <2>1, <2>2 DEF HeldIsKept, Holds, Kept
  <1> QED
    BY <1>1, HoldsAlways, PTL

-----------------------------------------------------------------------------
(* Messages of a session reach the server in order *)

\* The message m is on its way past the outbox.
On(m) ==
  \/ \E r \in wire : r.msg = m
  \/ Is(m, {"direct"})
  \/ \E g \in Gens : Active(g) /\ Item(g).msg = m

Ahead(o, p, m) == \A e, f \in Range(o) : e.msg = p /\ f.msg = m => e.id < f.id

Follows(p, m) ==
  /\ Delivered(m) => Delivered(p) /\ First(p) < First(m)
  /\ On(m) => Delivered(p)
  /\ Ahead(outbox, p, m) /\ Ahead(file, p, m)

Orderly ==
  \A m \in Messages : \A p \in before[m] : Is(p, {"held"}) => Follows(p, m)

LEMMA DirectIs ==
  ASSUME Types, Lines, Lists, [Next]_vars, NEW m \in Messages, message'[m].pc = "direct"
  PROVE  Is(m, {"direct"}) \/ Check(m)
  <1>1. CASE message'[m] = message[m]
    BY <1>1 DEF Is
  <1>2. ASSUME NEW x \in Messages, Caller(x)
        PROVE  Is(m, {"direct"}) \/ Check(m)
    <2>1. CASE x = m
      <3>1. Hold(m) => message'[m].pc \in {"held", "failed"}
        BY BecomesTurns DEF Hold, Turns
      <3> QED
        BY <1>2, <2>1, <3>1 DEF Caller, SendNow
    <2>2. CASE x # m
      BY <1>1, <1>2, <2>2 DEF Caller, Check, SendNow, Hold, Becomes, Types
    <2> QED
      BY <2>1, <2>2
  <1>3. CASE \E g \in Gens : Worker(g)
    <2>1. CASE UNCHANGED message
      BY <1>1, <2>1
    <2>2. CASE \E g \in Gens : Settle(g) /\ g = gen
      <3>1. PICK g \in Gens : Settled(Item(g).id, worker[g].outcome)
        BY <2>2, SettledIs
      <3> QED
        BY <1>1, <3>1 DEF Settled, Turns
    <2> QED
      BY <1>3, <2>1, <2>2 DEF Worker, Connect, Disconnected, Retire, Flush, Pick, Look,
         Send, Settle, Current, callerVars
  <1>4. CASE User
    <2>1. PICK i \in DOMAIN outbox : EditHeld(i) \/ RemoveHeld(i)
      BY <1>4 DEF User
    <2>2. CASE EditHeld(i)
      BY <1>1, <2>2 DEF EditHeld, callerVars
    <2>3. CASE RemoveHeld(i)
      <3>1. RemovedOne(outbox[i])
        BY <2>3, RemoveIs
      <3> QED
        BY <1>1, <3>1 DEF RemovedOne, Turns
    <2> QED
      BY <2>1, <2>2, <2>3
  <1>5. CASE Listing
    <2>1. CASE StoreSessions
      BY <1>1, <2>1, ClearedIs DEF Cleared
    <2> QED
      BY <1>1, <1>5, <2>1 DEF Listing, ReadList, callerVars
  <1>6. ASSUME NEW c \in open, Drop(c)
        PROVE  Is(m, {"direct"}) \/ Check(m)
    <2>1. PICK unwritten : message' = CallersAfterDrop(c, unwritten)
      BY <1>6, DropIs
    <2> QED
      BY <1>1, <2>1, DropCaller
  <1>7. CASE Server
    <2>1. ASSUME NEW r \in wire, Hear(r)
          PROVE  Is(m, {"direct"}) \/ Check(m)
      <3>1. CASE UNCHANGED message
        BY <1>1, <3>1
      <3>2. CASE Becomes(r.msg, "accepted") \/ Becomes(r.msg, "rejected")
        BY <1>1, <3>2, RequestMsg, BecomesTurns DEF Turns
      <3> QED
        BY <2>1, <3>1, <3>2 DEF Hear
    <2> QED
      BY <1>1, <1>7, <2>1 DEF Server, Take, Delete, callerVars
  <1>8. CASE Service
    BY <1>1, <1>8, RestartIs, ReloadIs DEF Service
  <1>9. CASE UNCHANGED vars
    BY <1>1, <1>9 DEF vars, callerVars
  <1> QED
    BY <1>2, <1>3, <1>4, <1>5, <1>6, <1>7, <1>8, <1>9 DEF Next

\* A message sets out when its user sends it or its turn comes.
LEMMA SetsOut ==
  ASSUME Types, Lines, Lists, [Next]_vars, NEW m \in Messages, On(m)'
  PROVE  On(m) \/ Check(m) \/ \E g \in Gens, item \in Queued : Takes(g, item) /\ item.msg = m
  <1>1. CASE \E r \in wire' : r.msg = m
    <2>1. CASE wire' \subseteq wire
      BY <1>1, <2>1 DEF On
    <2>2. ASSUME NEW x \in Messages, Posts(x)
          PROVE  On(m)
      BY <1>1, <2>2 DEF Posts, Request, On
    <2>3. ASSUME NEW g \in Gens, Asks(g)
          PROVE  On(m)
      <3>1. Active(g)
        BY <2>3 DEF Asks, Onward, At, Active
      <3> QED
        BY <1>1, <2>3, <3>1 DEF Asks, Request, On
    <2>4. ASSUME NEW r \in wire, NEW ok \in BOOLEAN, NEW answered, Answers(r, ok, answered)
          PROVE  On(m)
      BY <1>1, <2>4 DEF Answers, On
    <2> QED
      BY <2>1, <2>2, <2>3, <2>4, CarriesIs DEF Carries
  <1>2. CASE message'[m].pc = "direct"
    BY <1>2, DirectIs DEF On
  <1>3. CASE \E g \in Gens : worker'[g].pc \in ActivePc /\ worker'[g].item.msg = m
    <2>1. PICK g \in Gens : worker'[g].pc \in ActivePc /\ worker'[g].item.msg = m
      BY <1>3
    <2>2. CASE \E item : Takes(g, item)
      <3>1. PICK item : Takes(g, item)
        BY <2>2
      <3>2. item \in Queued /\ item.msg = m
        BY <2>1, <3>1, NextReadyIn DEF Takes, Types
      <3> QED
        BY <3>1, <3>2
    <2>3. CASE Active(g) /\ worker'[g].item = worker[g].item
      BY <2>1, <2>3 DEF On, Item
    <2> QED
      BY <2>1, <2>2, <2>3, MovesIs DEF Moves, Asks, Onward, At, Active, ActivePc
  <1> QED
    BY <1>1, <1>2, <1>3 DEF On, Is, Active, Item, ActivePc

\* A message that is held and was taken before was held before.
LEMMA HeldWas ==
  ASSUME Types, Lines, Lists, [Next]_vars, NEW p \in Messages, Is(p, Taken),
         message'[p].pc = "held"
  PROVE  message'[p] = message[p]
  <1>1. CASE CallersOnly
    BY <1>1 DEF CallersOnly, Is, Mine
  <1>2. ASSUME NEW x \in Messages, NEW h, NewlyHeld(x, h)
        PROVE  message'[p] = message[p]
    BY <1>2 DEF NewlyHeld, Turns, Is, Taken
  <1>3. ASSUME NEW e, NEW f, Edited(e, f)
        PROVE  message'[p] = message[p]
    BY <1>3 DEF Edited
  <1>4. ASSUME NEW e, RemovedOne(e)
        PROVE  message'[p] = message[p]
    BY <1>4 DEF RemovedOne, Turns
  <1>5. ASSUME NEW id, NEW outcome, Settled(id, outcome)
        PROVE  message'[p] = message[p]
    BY <1>5 DEF Settled, Turns
  <1>6. CASE Cleared
    BY <1>6 DEF Cleared
  <1> QED
    BY <1>1, <1>2, <1>3, <1>4, <1>5, <1>6, HeldStep DEF StillHeld, Relinked

LEMMA AheadStep ==
  ASSUME Types, Lines, Lists, [Next]_vars, NEW p \in Messages, NEW m \in Messages,
         Is(p, Taken), Ahead(outbox, p, m), Ahead(file, p, m)
  PROVE  /\ \A e, f \in Range(outbox') : e.msg = p /\ f.msg = m => e.id < f.id
         /\ \A e, f \in Range(file') : e.msg = p /\ f.msg = m => e.id < f.id
  <1>0. HeldTypes
    BY HeldTypesIs
  <1> DEFINE P(s) == \A e, f \in s : e.msg = p /\ f.msg = m => e.id < f.id
  <1>1. P(Range(outbox)) /\ P(Range(file))
    BY DEF Ahead
  <1> SUFFICES P(Range(outbox')) /\ P(Range(file'))
    OBVIOUS
  <1>2. CASE StillHeld \/ Relinked
    BY <1>1, <1>2 DEF StillHeld, Relinked
  <1>3. ASSUME NEW x \in Messages, NEW h, NewlyHeld(x, h)
        PROVE  P(Range(outbox')) /\ P(Range(file'))
    <2>1. x # p
      BY <1>3 DEF NewlyHeld, Is, Taken
    <2>2. \A e \in Range(outbox) : e.id < NextId(outbox)
      BY NextIdIs DEF Types
    <2>3. /\ Range(outbox') = Range(outbox) \cup {h} /\ file' = outbox'
          /\ h.msg = x /\ h.id = NextId(outbox)
      BY <1>3 DEF NewlyHeld
    <2> QED
      BY <1>1, <2>1, <2>2, <2>3
  <1>4. ASSUME NEW e, NEW f, Edited(e, f)
        PROVE  P(Range(outbox')) /\ P(Range(file'))
    <2>1. /\ Range(outbox') = (Range(outbox) \ {e}) \cup {f} /\ file' = outbox'
          /\ f.msg = e.msg /\ f.id = e.id /\ e \in Range(outbox)
      BY <1>4 DEF Edited
    <2> QED
      BY <1>1, <2>1
  <1>5. ASSUME NEW e, RemovedOne(e)
        PROVE  P(Range(outbox')) /\ P(Range(file'))
    BY <1>1, <1>5 DEF RemovedOne
  <1>6. ASSUME NEW id, NEW outcome, Settled(id, outcome)
        PROVE  P(Range(outbox')) /\ P(Range(file'))
    <2>1. \A q \in Range(outbox') : \E e \in Range(outbox) : q.msg = e.msg /\ q.id = e.id
      BY <1>0, <1>6, LeftIs DEF Settled, HeldTypes
    <2>2. P(Range(outbox'))
      BY <1>1, <2>1
    <2>3. file' = outbox' \/ file' = file
      BY <1>6 DEF Settled
    <2> QED
      BY <1>1, <2>2, <2>3
  <1>7. CASE Cleared
    BY <1>1, <1>7 DEF Cleared
  <1> QED
    BY <1>2, <1>3, <1>4, <1>5, <1>6, <1>7, HeldStep

\* Where the server first took a message.
Place(s, m) == Min({i \in DOMAIN s : s[i].msg = m})

LEMMA PlaceIs ==
  ASSUME NEW s, NEW n \in Nat, DOMAIN s = 1..n, NEW m, NEW k \in DOMAIN s, s[k].msg = m
  PROVE  /\ Place(s, m) \in DOMAIN s /\ s[Place(s, m)].msg = m
         /\ \A i \in DOMAIN s : s[i].msg = m => Place(s, m) <= i
  <1> DEFINE T == {i \in DOMAIN s : s[i].msg = m}
  <1>1. T \in SUBSET Nat /\ T # {}
    OBVIOUS
  <1> HIDE DEF T
  <1>2. PICK x \in T : \A y \in T : x <= y
    BY <1>1, Smallest
  <1>3. Min(T) \in T /\ \A y \in T : Min(T) <= y
    BY <1>2 DEF Min
  <1>4. Place(s, m) = Min(T)
    BY DEF Place, T
  <1> QED
    BY <1>3, <1>4 DEF T

LEMMA FirstGrows ==
  ASSUME Types, NEW e \in TakenType, got' = Append(got, e), NEW m
  PROVE  /\ Delivered(m) => First(m)' = First(m) /\ First(m) \in DOMAIN got
         /\ ~Delivered(m) /\ e.msg = m => First(m)' = Len(got) + 1
  <1>1. PICK s, q : s = got /\ q = got'
    OBVIOUS
  <1>2. /\ Len(s) \in Nat /\ DOMAIN s = 1..Len(s) /\ DOMAIN q = 1..(Len(s) + 1)
        /\ \A i \in DOMAIN s : q[i] = s[i]
        /\ q[Len(s) + 1] = e
    BY <1>1, GotGrows
  <1>3. First(m) = Place(s, m) /\ First(m)' = Place(q, m)
    BY <1>1 DEF First, Place
  <1>4. ASSUME Delivered(m)
        PROVE  Place(q, m) = Place(s, m) /\ Place(s, m) \in DOMAIN s
    <2>1. PICK k \in DOMAIN s : s[k].msg = m
      BY <1>1, <1>4 DEF Delivered
    <2>2. /\ Place(s, m) \in DOMAIN s /\ s[Place(s, m)].msg = m
          /\ \A i \in DOMAIN s : s[i].msg = m => Place(s, m) <= i
      BY <1>2, <2>1, PlaceIs
    <2>3. k \in DOMAIN q /\ q[k].msg = m /\ Len(s) + 1 \in Nat
      BY <1>2, <2>1
    <2>4. /\ Place(q, m) \in DOMAIN q /\ q[Place(q, m)].msg = m
          /\ \A i \in DOMAIN q : q[i].msg = m => Place(q, m) <= i
      BY <1>2, <2>3, PlaceIs
    <2>5. Place(q, m) <= Place(s, m)
      BY <1>2, <2>2, <2>4
    <2>6. Place(q, m) \in DOMAIN s /\ s[Place(q, m)].msg = m
      BY <1>2, <2>2, <2>4, <2>5
    <2>7. Place(s, m) <= Place(q, m)
      BY <2>2, <2>6
    <2> QED
      BY <1>2, <2>2, <2>5, <2>6, <2>7
  <1>5. ASSUME ~Delivered(m), e.msg = m
        PROVE  Place(q, m) = Len(s) + 1
    <2>1. \A i \in DOMAIN s : s[i].msg # m
      BY <1>1, <1>5 DEF Delivered
    <2>2. Len(s) + 1 \in DOMAIN q /\ q[Len(s) + 1].msg = m /\ Len(s) + 1 \in Nat
      BY <1>2, <1>5
    <2>3. Place(q, m) \in DOMAIN q /\ q[Place(q, m)].msg = m
      BY <1>2, <2>2, PlaceIs
    <2> QED
      BY <1>2, <2>1, <2>3
  <1> QED
    BY <1>1, <1>3, <1>4, <1>5

LEMMA DeliveryOrder ==
  ASSUME Types, Lines, [Next]_vars, NEW p \in Messages, NEW m \in Messages,
         Delivered(m) => Delivered(p) /\ First(p) < First(m),
         On(m) => Delivered(p)
  PROVE  Delivered(m)' => Delivered(p)' /\ First(p)' < First(m)'
  <1>1. CASE UNCHANGED got
    BY <1>1, DeliveredSame
  <1>2. ASSUME NEW r \in wire, NEW ok \in BOOLEAN, NEW answered, Answers(r, ok, answered),
               ok
        PROVE  Delivered(m)' => Delivered(p)' /\ First(p)' < First(m)'
    <2> DEFINE e == [msg |-> r.msg, text |-> r.text]
    <2>1. e \in TakenType /\ e.msg = r.msg
      BY RequestMsg DEF TakenType
    <2>2. got' = Append(got, e)
      BY <1>2 DEF Answers
    <2> HIDE DEF e
    <2>3. /\ Len(got) \in Nat /\ DOMAIN got = 1..Len(got)
          /\ Delivered(m)' <=> Delivered(m) \/ m = e.msg
          /\ Delivered(p)' <=> Delivered(p) \/ p = e.msg
      BY <2>1, <2>2, GotGrows
    <2>4. /\ Delivered(p) => First(p)' = First(p) /\ First(p) \in DOMAIN got
          /\ Delivered(m) => First(m)' = First(m)
          /\ ~Delivered(m) /\ e.msg = m => First(m)' = Len(got) + 1
      BY <2>1, <2>2, FirstGrows
    <2>5. e.msg = m => Delivered(p)
      BY <2>1 DEF On
    <2> QED
      BY <2>3, <2>4, <2>5
  <1> QED
    BY <1>1, <1>2, CarriesIs DEF Carries, Answers

LEMMA OrderlyStep ==
  ASSUME Holds, [Next]_vars, ForGood \/ Orderly
  PROVE  ForGood' \/ Orderly'
  <1>0. Types /\ Lines /\ Lists /\ Before /\ HeldTypes /\ gen \in Gens
    BY HeldTypesIs, GenInGens DEF Holds, Base
  <1>1. CASE ForGood
    BY <1>0, <1>1, ForGoodStays
  <1>2. CASE ~ForGood /\ Orderly /\ Kept
    <2> SUFFICES ASSUME NEW m \in Messages, NEW p \in before'[m], message'[p].pc = "held"
                 PROVE  Follows(p, m)'
      BY DEF Orderly, Is
    <2>1. CASE Check(m)
      <3>1. /\ p \in Messages /\ SessionOf[p] = SessionOf[m] /\ Is(p, {"held"})
            /\ Is(m, {"new"}) /\ ~Is(m, Taken) /\ Unsent(m)
        BY <1>0, <2>1, CheckBefore DEF Check, Is, Taken, Lines, Fresh
      <3>2. UNCHANGED <<outbox, file, worker, got, wire>>
        BY <2>1 DEF Check, linkVars, connVars, serverVars
      <3>3. ~Has(outbox, m) /\ ~Has(file, m)
        BY <1>0, <3>1 DEF Lists, Held, Has, Is, Queue
      <3>4. ASSUME message'[m].pc = "direct"
            PROVE  Delivered(p)
        <4>1. ~HeldFor(outbox, SessionOf[m])
          <5>1. Becomes(m, "hold") => message'[m].pc = "hold"
            BY <1>0, BecomesTurns DEF Turns
          <5> QED
            BY <2>1, <3>4, <5>1 DEF Check
        <4>2. ASSUME Has(outbox, p)
              PROVE  FALSE
          <5>1. PICK e \in Range(outbox) : e.msg = p
            BY <4>2 DEF Has
          <5>2. ~e.error
            BY <1>0, <3>1, <5>1 DEF Lists, Held
          <5>3. PICK i \in DOMAIN outbox : e = outbox[i]
            BY <1>0, Members DEF Types
          <5> QED
            BY <3>1, <4>1, <5>1, <5>2, <5>3 DEF HeldFor, Ready
        <4> QED
          BY <1>2, <3>1, <4>2 DEF Kept, Is
      <3>5. ~Delivered(m) /\ (\A r \in wire : r.msg # m)
        BY <3>1 DEF Unsent
      <3>6. \A g \in Gens : Active(g) => Item(g).msg # m
        BY <1>0, <3>1, ActiveItem DEF Is
      <3>7. Delivered(p) => Delivered(p)'
        BY <3>2 DEF Delivered
      <3>8. On(m)' => message'[m].pc = "direct"
        BY <3>2, <3>5, <3>6 DEF On, Is, Active, Item
      <3>9. ~Delivered(m)'
        BY <3>2, <3>5 DEF Delivered
      <3>10. Ahead(outbox, p, m)' /\ Ahead(file, p, m)'
        BY <3>2, <3>3 DEF Ahead, Has
      <3> QED
        BY <3>4, <3>7, <3>8, <3>9, <3>10 DEF Follows
    <2>2. CASE ~Check(m)
      <3>1. p \in before[m]
        BY <1>0, <2>2, BeforeChanges, CheckBefore
      <3>2. p \in Messages /\ Is(p, Taken) /\ SessionOf[p] = SessionOf[m]
        BY <1>0, <3>1 DEF Before
      <3>3. Is(p, {"held"})
        BY <1>0, <3>2, HeldWas DEF Is
      <3>4. Follows(p, m)
        BY <1>2, <3>1, <3>3 DEF Orderly
      <3>5. ASSUME NEW g \in Gens, NEW item \in Queued, Takes(g, item), item.msg = m
            PROVE  Delivered(p)
        <4>1. ASSUME Has(outbox, p)
              PROVE  FALSE
          <5>1. PICK i \in DOMAIN outbox :
                  /\ item = outbox[i]
                  /\ \A k \in DOMAIN outbox : Ready(outbox[k]) => i <= k
            BY <1>0, <3>5, NextReadyIs DEF Takes, Types
          <5>2. PICK e \in Range(outbox) : e.msg = p
            BY <4>1 DEF Has
          <5>3. ~e.error
            BY <1>0, <3>3, <5>2 DEF Lists, Held
          <5>4. PICK k \in DOMAIN outbox : e = outbox[k]
            BY <1>0, Members DEF Types
          <5>5. i <= k /\ item \in Range(outbox)
            BY <1>0, <5>1, <5>3, <5>4, Members DEF Ready, Types
          <5>6. e.id < item.id
            BY <3>4, <3>5, <5>2, <5>5 DEF Follows, Ahead
          <5>7. Increasing(outbox) /\ DOMAIN outbox \subseteq Nat
            BY <1>0, Members DEF Types, Holding
          <5>8. i < k => item.id < e.id
            BY <5>1, <5>4, <5>7 DEF Increasing
          <5>9. item.id \in Nat /\ e.id \in Nat
            BY <1>0, <5>2, <5>5, QueuedIs DEF HeldTypes
          <5>10. i = k \/ i < k
            BY <5>5, <5>7
          <5>11. i = k => item.id = e.id
            BY <5>1, <5>4
          <5> QED
            BY <5>6, <5>8, <5>9, <5>10, <5>11
        <4> QED
          BY <1>2, <3>2, <3>3, <4>1 DEF Kept, Is
      <3>6. On(m)' => Delivered(p)
        <4>1. ASSUME On(m)'
              PROVE  On(m) \/ \E g \in Gens, item \in Queued : Takes(g, item) /\ item.msg = m
          BY <1>0, <2>2, <4>1, SetsOut
        <4> QED
          BY <3>4, <3>5, <4>1 DEF Follows
      <3>7. On(m)' => Delivered(p)'
        BY <1>0, <3>6, DeliveredGrows
      <3>8. Delivered(m)' => Delivered(p)' /\ First(p)' < First(m)'
        BY <1>0, <3>2, <3>4, DeliveryOrder DEF Follows
      <3>9. Ahead(outbox, p, m)' /\ Ahead(file, p, m)'
        <4>1. Ahead(outbox, p, m) /\ Ahead(file, p, m)
          BY <3>4 DEF Follows
        <4> QED
          BY <1>0, <3>2, <4>1, AheadStep DEF Ahead
      <3> QED
        BY <3>7, <3>8, <3>9 DEF Follows
    <2> QED
      BY <2>1, <2>2
  <1> QED
    BY <1>1, <1>2 DEF Holds

\* A message sent while others were held for its session reaches the server
\* after them, unless one was cut; the hypothesis is that of HeldMessageIsKept.
THEOREM MessagesArriveInOrder ==
  ASSUME Different
  PROVE  Spec => []InOrder
  <1>1. Init => ForGood \/ Orderly
    BY DEF Init, Orderly
  <1>2. Holds /\ (ForGood \/ Orderly) /\ [Next]_vars => ForGood' \/ Orderly'
    BY OrderlyStep
  <1>3. Holds /\ (ForGood \/ Orderly) => InOrder
    <2> SUFFICES ASSUME Holds, ForGood \/ Orderly, ~Confused,
                        NEW m \in Messages, NEW p \in Messages,
                        p \in before[m], Is(p, {"held"}), Delivered(m)
                 PROVE  Delivered(p) /\ First(p) < First(m)
      BY DEF InOrder
    <2>1. ~ForGood
      BY DEF Confused, ForGood, Lost
    <2> QED
      BY <2>1 DEF Orderly, Follows
  <1> QED
    BY <1>1, <1>2, <1>3, HoldsAlways, PTL DEF Spec

-----------------------------------------------------------------------------
(* A removed message is not sent *)

\* The link is the one the service started with.
Calm == faults \cap {"restart", "reload"} = {}

LEMMA FaultsGrow ==
  ASSUME [Next]_vars
  PROVE  faults \subseteq faults'
  BY DEF Next, Caller, Check, SendNow, Hold, Worker, Connect, Disconnected, Retire, Flush,
         Pick, Look, Send, Settle, Drop, User, EditHeld, RemoveHeld, Listing,
         StoreSessions, ReadList, Server, Take, Hear, Delete, Service, Restart,
         Reload, vars, Fails, Save

LEMMA CalmIs ==
  ASSUME Types, Lines, Calm
  PROVE  /\ gen = 1 /\ 1 \in Gens
         /\ \A g \in Gens : worker[g].pc # "ended" => g = 1
  <1>1. gen = 1
    BY DEF Types, GenIs, Calm
  <1>2. \A g \in Gens : g # 1 => g > 1
    BY DEF Gens
  <1> QED
    BY <1>1, <1>2, EndedIs DEF Lines, Workers, GoodWorker, Gens

LEMMA CalmStep ==
  ASSUME Types, [Next]_vars, Calm'
  PROVE  Calm /\ gen' = 1 /\ ~Service
  <1>1. Calm
    BY FaultsGrow DEF Calm
  <1>2. GenIs'
    BY TypesStep DEF Types
  <1>3. gen' = 1
    BY <1>2 DEF GenIs, Calm
  <1>4. ~Service
    BY DEF Service, Restart, Reload, Fails, Calm
  <1> QED
    BY <1>1, <1>3, <1>4

LEMMA UnsentStays ==
  ASSUME Types, Lines, [Next]_vars, NEW m, Unsent(m), ~Is(m, {"direct"}),
         ~\E g \in Gens : Asks(g) /\ Item(g).msg = m
  PROVE  Unsent(m)'
  <1>1. CASE wire' \subseteq wire /\ UNCHANGED got
    BY <1>1 DEF Unsent, Delivered
  <1>2. ASSUME NEW x \in Messages, Posts(x), UNCHANGED got
        PROVE  Unsent(m)'
    BY <1>2 DEF Posts, Request, Unsent, Delivered
  <1>3. ASSUME NEW g \in Gens, Asks(g), UNCHANGED got
        PROVE  Unsent(m)'
    BY <1>3 DEF Asks, Request, Unsent, Delivered
  <1>4. ASSUME NEW r \in wire, NEW ok \in BOOLEAN, NEW answered, Answers(r, ok, answered)
        PROVE  Unsent(m)'
    <2>1. Delivered(m)' <=> Delivered(m) \/ (ok /\ m = r.msg)
      BY <1>4, TakeDelivers DEF Answers
    <2> QED
      BY <1>4, <2>1 DEF Answers, Unsent
  <1> QED
    BY <1>1, <1>2, <1>3, <1>4, CarriesIs DEF Carries

\* Worker 1 is at message m.
Busy(m) == Active(1) /\ Item(1).msg = m

\* What the worker may count on while it delivers an item that is not in doubt.
Certain(item, pc, outcome, conn) ==
  /\ pc # "look"
  /\ pc = "send" => Unsent(item.msg)
  /\ pc = "settle" /\ outcome \in {"notSent", "refused"} => Unsent(item.msg)
  /\ pc = "waiting" =>
       \A r \in wire : r.msg = item.msg =>
         r.held /\ r.conn = conn /\ (r.answer # "ok" => ~Delivered(item.msg))

RemovedUnsent == \A m \in Messages : Is(m, {"removed"}) => Unsent(m)

WaitingUnsent ==
  \A e \in Range(outbox) : ~e.uncertain /\ ~Busy(e.msg) => Unsent(e.msg)

ItemCertain ==
  Active(1) /\ ~Item(1).uncertain =>
    Certain(Item(1), worker[1].pc, worker[1].outcome, worker[1].conn)

Doubtless == Calm => RemovedUnsent /\ WaitingUnsent /\ ItemCertain

\* Only worker 1 sends, and only the item it is at.
LEMMA QuietStays ==
  ASSUME Base, Calm, [Next]_vars, NEW m \in Messages, Is(m, Taken), ~Busy(m), Unsent(m)
  PROVE  Unsent(m)'
  <1>1. Types /\ Lines
    BY DEF Base
  <1>2. ASSUME NEW g \in Gens, Asks(g)
        PROVE  Item(g).msg # m
    <2>1. g = 1 /\ Active(g)
      BY <1>1, <1>2, CalmIs DEF Asks, Onward, At, Active
    <2> QED
      BY <2>1 DEF Busy
  <1>3. ~Is(m, {"direct"})
    BY DEF Is, Taken
  <1> QED
    BY <1>1, <1>2, <1>3, UnsentStays

\* The message being delivered has not been removed.
LEMMA ItemStays ==
  ASSUME Base, Calm, Active(1)
  PROVE  /\ IsPicked(Item(1)) /\ Item(1) \in Queued /\ Item(1).msg \in Messages
         /\ ~Is(Item(1).msg, {"removed"}) /\ Is(Item(1).msg, Taken)
  <1>1. Types /\ Lines /\ Lists /\ gen = 1 /\ 1 \in Gens
    BY CalmIs DEF Base
  <1>2. IsPicked(Item(1))
    BY <1>1 DEF Base, Picked
  <1>3. Item(1) \in Queued /\ Item(1).msg \in Messages
    BY <1>1, ItemMsg
  <1>4. CASE Has(outbox, Item(1).msg)
    <2>1. Is(Item(1).msg, Queue)
      BY <1>1, <1>4 DEF Has, Lists, Held
    <2> QED
      BY <1>2, <1>3, <2>1 DEF Is, Queue, IsPicked
  <1>5. CASE ~Has(outbox, Item(1).msg)
    BY <1>2, <1>3, <1>5 DEF Is, IsPicked
  <1> QED
    BY <1>4, <1>5

LEMMA RemovedStep ==
  ASSUME Base, [Next]_vars, Calm', Calm, RemovedUnsent, WaitingUnsent
  PROVE  RemovedUnsent'
  <1>0. Types /\ Lines /\ Lists
    BY DEF Base
  <1> SUFFICES ASSUME NEW m \in Messages, message'[m].pc = "removed"
               PROVE  Unsent(m)'
    BY DEF RemovedUnsent, Is
  <1>1. CASE message'[m] = message[m]
    <2>1. Is(m, {"removed"}) /\ Unsent(m) /\ Is(m, Taken)
      BY <1>1 DEF RemovedUnsent, Is, Taken
    <2>2. ~Busy(m)
      BY <2>1, ItemStays DEF Busy
    <2> QED
      BY <2>1, <2>2, QuietStays
  <1>2. ASSUME NEW e, RemovedOne(e)
        PROVE  Unsent(m)'
    <2>1. CASE e.msg # m
      BY <1>1, <1>2, <2>1 DEF RemovedOne, Turns
    <2>2. CASE e.msg = m
      <3>1. e \in Range(outbox) /\ e.id # sending /\ ~e.uncertain
        BY <1>2, <2>2 DEF RemovedOne, Turns
      <3>2. ~Busy(m)
        BY <2>2, <3>1, ItemStays DEF Busy, IsPicked
      <3>3. Is(m, Taken)
        BY <1>0, <2>2, <3>1, HeldMsg DEF Lists
      <3> QED
        BY <2>2, <3>1, <3>2, <3>3, QuietStays DEF WaitingUnsent
    <2> QED
      BY <2>1, <2>2
  <1>3. CASE CallersOnly
    BY <1>1, <1>3 DEF CallersOnly, Is, Mine
  <1>4. ASSUME NEW x \in Messages, NEW h, NewlyHeld(x, h)
        PROVE  Unsent(m)'
    BY <1>1, <1>4 DEF NewlyHeld, Turns
  <1>5. ASSUME NEW e, NEW f, Edited(e, f)
        PROVE  Unsent(m)'
    BY <1>1, <1>5 DEF Edited
  <1>6. ASSUME NEW id, NEW outcome, Settled(id, outcome)
        PROVE  Unsent(m)'
    BY <1>1, <1>6 DEF Settled, Turns
  <1>7. CASE Cleared
    BY <1>1, <1>7 DEF Cleared
  <1> QED
    BY <1>0, <1>2, <1>3, <1>4, <1>5, <1>6, <1>7, HeldStep DEF StillHeld, Relinked

LEMMA WaitingStep ==
  ASSUME Base, [Next]_vars, Calm', Calm, WaitingUnsent, ItemCertain
  PROVE  WaitingUnsent'
  <1>0. Types /\ Lines /\ Lists /\ HeldTypes /\ 1 \in Gens /\ gen = 1 /\ gen' = 1 /\ ~Service
    BY HeldTypesIs, CalmIs, CalmStep DEF Base
  <1> SUFFICES ASSUME NEW q \in Range(outbox'), ~q.uncertain,
                      ~(worker'[1].pc \in ActivePc /\ worker'[1].item.msg = q.msg),
                      NEW m, m = q.msg
               PROVE  Unsent(m)'
    BY DEF WaitingUnsent, Busy, Active, Item, ActivePc, Unsent, Delivered
  <1>1. ASSUME NEW e \in Range(outbox), e.msg = m, ~e.uncertain, ~Settle(1)
        PROVE  Unsent(m)'
    <2>1. ~Busy(m)
      <3>1. Moves(1)
        BY <1>0, MovesIs
      <3>2. ASSUME Active(1)
            PROVE  worker'[1].pc \in ActivePc /\ worker'[1].item = worker[1].item
        BY <1>0, <1>1, <3>1, <3>2 DEF Moves, Asks, Onward, Active, ActivePc, Pick, At
      <3> QED
        BY <3>2 DEF Busy, Item
    <2>2. m \in Messages /\ Is(m, Taken)
      BY <1>0, <1>1, HeldMsg DEF Lists
    <2>3. Unsent(m)
      BY <1>1, <2>1 DEF WaitingUnsent
    <2> QED
      BY <2>1, <2>2, <2>3, QuietStays
  <1>2. CASE Settle(1)
    <2>1. PICK id, outcome, item : id = Item(1).id /\ outcome = worker[1].outcome
                                     /\ item = Item(1)
      OBVIOUS
    <2>2. Settled(id, outcome)
      BY <1>0, <1>2, <2>1, SettledIs
    <2>3. Active(1) /\ At(1, "settle")
      BY <1>2 DEF Settle, At, Active
    <2>4. PICK e \in Range(outbox) :
            q = LeftOf(e, id, outcome) /\ (outcome = "sent" => e.id # id)
      BY <2>2 DEF Settled
    <2>5. /\ e \in Queued /\ q.msg = e.msg
          /\ q.uncertain = (e.uncertain \/ (e.id = id /\ outcome = "lost"))
      BY <1>0, <2>4, LeftIs DEF HeldTypes
    <2>6. ~e.uncertain /\ e.msg = m /\ m \in Messages /\ Is(m, Taken)
      BY <1>0, <2>5, HeldMsg, QueuedIs DEF Lists
    <2>7. IsPicked(item)
      BY <2>1, <2>3, ItemStays
    <2>8. CASE item.msg # m
      <3>1. ~Busy(m) /\ Unsent(m)
        BY <2>1, <2>6, <2>8 DEF Busy, WaitingUnsent
      <3> QED
        BY <2>6, <3>1, QuietStays
    <2>9. CASE item.msg = m
      <3>1. e = item /\ e.id = id
        BY <2>1, <2>6, <2>7, <2>9 DEF IsPicked
      <3>2. outcome \in Outcome \ {"none"}
        BY <1>0, <2>1, <2>3, WorkerFields DEF Types, WorkerTypes
      <3>3. outcome \in {"notSent", "refused"}
        BY <2>4, <2>5, <3>1, <3>2 DEF Outcome
      <3>4. Unsent(m)
        BY <2>1, <2>3, <2>6, <2>9, <3>1, <3>3 DEF ItemCertain, Certain, At
      <3>5. ~\E g \in Gens : Asks(g) /\ Item(g).msg = m
        BY <1>0, <2>3, CalmIs DEF Asks, Onward, At
      <3> QED
        BY <1>0, <2>6, <3>4, <3>5, UnsentStays DEF Is, Taken
    <2> QED
      BY <2>8, <2>9
  <1>3. CASE ~Settle(1)
    <2>1. CASE StillHeld
      BY <1>1, <1>3, <2>1 DEF StillHeld
    <2>2. ASSUME NEW x \in Messages, NEW h, NewlyHeld(x, h)
          PROVE  Unsent(m)'
      <3>1. CASE q \in Range(outbox)
        BY <1>1, <1>3, <3>1
      <3>2. CASE q = h
        <4>1. m = x /\ Is(m, {"hold"}) /\ Unsent(m)
          BY <1>0, <2>2, <3>2 DEF NewlyHeld, Lines, Fresh, Is
        <4>2. ~\E g \in Gens : Asks(g) /\ Item(g).msg = m
          BY <1>0, <4>1, ActiveItem DEF Asks, Onward, At, Active, Is, Taken
        <4> QED
          BY <1>0, <4>1, <4>2, UnsentStays DEF Is
      <3> QED
        BY <2>2, <3>1, <3>2 DEF NewlyHeld
    <2>3. ASSUME NEW e, NEW f, Edited(e, f)
          PROVE  Unsent(m)'
      BY <1>1, <1>3, <2>3 DEF Edited
    <2>4. ASSUME NEW e, RemovedOne(e)
          PROVE  Unsent(m)'
      BY <1>1, <1>3, <2>4 DEF RemovedOne
    <2>5. CASE Cleared
      BY <1>1, <1>3, <2>5 DEF Cleared
    <2>6. CASE Relinked
      BY <1>0, <2>6 DEF Relinked
    <2> QED
      BY <1>0, <1>3, <2>1, <2>2, <2>3, <2>4, <2>5, <2>6, HeldStep
  <1> QED
    BY <1>2, <1>3

-----------------------------------------------------------------------------
(* The item that is delivered without doubt *)

LEMMA CertainStep ==
  ASSUME Base, [Next]_vars, Calm', Calm, WaitingUnsent, ItemCertain
  PROVE  ItemCertain'
  <1>0. Types /\ Lines /\ Lists /\ HeldTypes /\ 1 \in Gens /\ gen = 1 /\ gen' = 1 /\ ~Service
          /\ \A g \in Gens : worker[g].pc # "ended" => g = 1
    BY HeldTypesIs, CalmIs, CalmStep DEF Base
  <1> SUFFICES ASSUME NEW w, w = worker'[1], NEW m, m = w.item.msg,
                      w.pc \in ActivePc, ~w.item.uncertain
               PROVE  /\ w.pc # "look"
                      /\ w.pc = "send" => Unsent(m)'
                      /\ w.pc = "settle" /\ w.outcome \in {"notSent", "refused"} => Unsent(m)'
                      /\ w.pc = "waiting" =>
                           \A r \in wire' : r.msg = m =>
                             r.held /\ r.conn = w.conn /\ (r.answer # "ok" => ~Delivered(m)')
    BY DEF ItemCertain, Certain, Active, Item, ActivePc, Unsent, Delivered
  <1>1. Moves(1)
    BY <1>0, MovesIs
  \* A message not sent stays so, unless the worker sends it.
  <1>2. ASSUME Unsent(m), m \in Messages, Is(m, Taken), ~Asks(1)
        PROVE  Unsent(m)'
    <2>1. \A g \in Gens : ~Asks(g)
      BY <1>0, <1>2 DEF Asks, Onward, At
    <2> QED
      BY <1>0, <1>2, <2>1, UnsentStays DEF Is, Taken
  <1>3. ASSUME Active(1), w.item = worker[1].item
        PROVE  /\ m = Item(1).msg /\ m \in Messages /\ Is(m, Taken)
               /\ Certain(Item(1), worker[1].pc, worker[1].outcome, worker[1].conn)
    BY <1>3, ItemStays DEF Item, ItemCertain
  <1>4. CASE w = worker[1]
    <2>1. Active(1) /\ ~Asks(1)
      BY <1>4 DEF Active, ActivePc, Asks, Onward, At
    <2>2. /\ m = Item(1).msg /\ m \in Messages /\ Is(m, Taken)
          /\ Certain(Item(1), w.pc, w.outcome, w.conn)
      BY <1>3, <1>4, <2>1
    <2>3. ASSUME w.pc = "waiting", NEW x \in wire', x.msg = m
          PROVE  x.held /\ x.conn = w.conn /\ (x.answer # "ok" => ~Delivered(m)')
      <3>1. \A r \in wire : r.msg = m =>
              r.held /\ r.conn = w.conn /\ (r.answer # "ok" => ~Delivered(m))
        BY <2>2, <2>3 DEF Certain
      <3>2. CASE wire' \subseteq wire /\ UNCHANGED got
        BY <2>3, <3>1, <3>2 DEF Delivered
      <3>3. ASSUME NEW y \in Messages, Posts(y), UNCHANGED got
            PROVE  x.held /\ x.conn = w.conn /\ (x.answer # "ok" => ~Delivered(m)')
        <4>1. y # m
          BY <2>2, <3>3 DEF Posts, Is, Taken
        <4>2. x \in wire
          BY <2>3, <3>3, <4>1 DEF Posts, Request
        <4> QED
          BY <2>3, <3>1, <3>3, <4>2 DEF Delivered
      <3>4. ASSUME NEW g \in Gens, Asks(g)
            PROVE  FALSE
        BY <1>0, <2>1, <3>4 DEF Asks, Onward, At
      <3>5. ASSUME NEW r \in wire, NEW ok \in BOOLEAN, NEW answered, Answers(r, ok, answered)
            PROVE  x.held /\ x.conn = w.conn /\ (x.answer # "ok" => ~Delivered(m)')
        <4>1. Delivered(m)' <=> Delivered(m) \/ (ok /\ m = r.msg)
          BY <1>0, <3>5, TakeDelivers DEF Answers
        <4>2. CASE x \in answered
          <5>1. /\ x.conn = r.conn /\ r.msg = m /\ x.held = r.held
                /\ x.answer = (IF ok THEN "ok" ELSE "error") /\ r.answer # "ok"
            BY <2>3, <3>5, <4>2 DEF Answers
          <5> QED
            BY <3>1, <4>1, <5>1
        <4>3. CASE x \in wire /\ x # r
          <5>1. x.held /\ x.conn = w.conn /\ (x.answer # "ok" => ~Delivered(m))
            BY <2>3, <3>1, <4>3
          <5>2. w.conn \in open
            BY <1>0, <1>4, <2>3 DEF Lines, Workers, GoodWorker, At
          <5>3. r.msg # m
            <6>1. SUFFICES ASSUME r.msg = m
                           PROVE  FALSE
              OBVIOUS
            <6>2. r.held /\ r.conn = w.conn
              BY <3>1, <6>1
            <6> QED
              BY <1>0, <4>3, <5>1, <5>2, <6>2 DEF Lines, Requests, SameSource
          <5> QED
            BY <4>1, <5>1, <5>3
        <4> QED
          BY <2>3, <3>5, <4>2, <4>3 DEF Answers
      <3> QED
        BY <1>0, <3>2, <3>3, <3>4, <3>5, CarriesIs DEF Carries
    <2> QED
      BY <1>2, <2>1, <2>2, <2>3 DEF Certain
  <1>5. ASSUME NEW item, Pick(1), Takes(1, item)
        PROVE  w.pc = "send" /\ Unsent(m)'
    <2>1. item = w.item /\ w.pc = "send" /\ item \in Range(outbox)
      BY <1>0, <1>5, NextReadyIn DEF Takes, Types
    <2>2. ~Active(1) /\ ~Asks(1)
      BY <1>5 DEF Pick, Active, At, Asks, Onward
    <2>3. Unsent(m)
      BY <2>1, <2>2 DEF WaitingUnsent, Busy
    <2>4. m \in Messages /\ Is(m, Taken)
      BY <1>0, <2>1, HeldMsg DEF Lists
    <2> QED
      BY <1>2, <2>1, <2>2, <2>3, <2>4
  <1>6. CASE Onward(1, "look", "send") \/ Onward(1, "look", "settle")
    BY <1>3, <1>6 DEF Onward, Certain, At, Active
  <1>7. CASE Asks(1) /\ UNCHANGED got
    <2>1. Active(1) /\ w.item = worker[1].item /\ w.pc = "waiting" /\ w.conn = worker[1].conn
            /\ At(1, "send")
      BY <1>7 DEF Asks, Onward, Active, At
    <2>2. m = Item(1).msg /\ Unsent(m)
      BY <1>3, <2>1 DEF Certain, At
    <2>3. wire' = wire \cup {Request(w.conn, m, Item(1).text, TRUE)}
      BY <1>7, <2>1, <2>2 DEF Asks
    <2>4. ~Delivered(m)'
      BY <1>7, <2>2 DEF Unsent, Delivered
    <2>5. \A r \in wire' : r.msg = m => r.held /\ r.conn = w.conn
      BY <2>2, <2>3 DEF Unsent, Request
    <2> QED
      BY <2>1, <2>4, <2>5
  <1>8. CASE Onward(1, "send", "settle") /\ UNCHANGED <<wire, got>>
    <2>1. Active(1) /\ w.item = worker[1].item /\ w.pc = "settle" /\ At(1, "send")
      BY <1>8 DEF Onward, Active, At
    <2>2. Unsent(m)
      BY <1>3, <2>1 DEF Certain, At
    <2> QED
      BY <1>8, <2>1, <2>2 DEF Unsent, Delivered
  <1>9. ASSUME NEW c, NEW unwritten, Drop(c), DropWith(c, unwritten), worker[1].conn = c,
               Onward(1, "waiting", "settle"),
               w.outcome = IF \E r \in unwritten : r.held THEN "notSent" ELSE "lost"
        PROVE  w.pc = "settle" /\ (w.outcome \in {"notSent", "refused"} => Unsent(m)')
    <2>1. Active(1) /\ w.item = worker[1].item /\ w.pc = "settle" /\ At(1, "waiting")
      BY <1>9 DEF Onward, Active, At
    <2>2. \A r \in wire : r.msg = m =>
            r.held /\ r.conn = c /\ (r.answer # "ok" => ~Delivered(m))
      BY <1>3, <1>9, <2>1 DEF Certain, At
    <2>3. ASSUME NEW r \in unwritten, r.held
          PROVE  Unsent(m)'
      <3>1. r \in wire /\ r.conn = c /\ r.answer = "none" /\ c \in open
        BY <1>9 DEF DropWith, Asked, Drop
      <3>2. PICK h \in Gens : Serves(h, r)
        BY <1>0, <2>3, <3>1 DEF Lines, Requests, GoodRequest
      <3>3. h = 1
        BY <1>0, <3>2 DEF Serves, At
      <3>4. r.msg = m
        BY <2>1, <3>2, <3>3 DEF Serves, Item
      <3>5. ~Delivered(m)
        BY <2>2, <3>1, <3>4
      <3>6. \A x \in wire : x.msg = m => x = r
        BY <1>0, <2>2, <2>3, <3>1 DEF Lines, Requests, SameSource
      <3>7. \A x \in wire' : x.msg # m
        BY <1>9, <2>3, <3>1, <3>6 DEF DropWith, Asked
      <3>8. UNCHANGED got
        BY <1>9 DEF Drop, serverVars
      <3> QED
        BY <3>5, <3>7, <3>8 DEF Unsent, Delivered
    <2> QED
      BY <1>9, <2>1, <2>3
  <1>10. ASSUME NEW r \in wire, Hear(r), r.held, Serves(1, r), Onward(1, "waiting", "settle"),
                w.outcome = IF r.answer = "ok" THEN "sent" ELSE "refused"
         PROVE  w.pc = "settle" /\ (w.outcome \in {"notSent", "refused"} => Unsent(m)')
    <2>1. Active(1) /\ w.item = worker[1].item /\ w.pc = "settle" /\ At(1, "waiting")
      BY <1>10 DEF Onward, Active, At
    <2>2. \A x \in wire : x.msg = m =>
            x.held /\ x.conn = r.conn /\ (x.answer # "ok" => ~Delivered(m))
      BY <1>3, <1>10, <2>1 DEF Certain, At, Serves
    <2>3. wire' = wire \ {r} /\ UNCHANGED got /\ r.conn \in open
      BY <1>10 DEF Hear, serverVars
    <2>4. r.msg = m
      BY <1>10, <2>1 DEF Serves, Item
    <2>5. \A x \in wire : x.msg = m => x = r
      BY <1>0, <1>10, <2>2, <2>3 DEF Lines, Requests, SameSource
    <2>6. ASSUME r.answer # "ok"
          PROVE  Unsent(m)'
      BY <2>2, <2>3, <2>4, <2>5, <2>6 DEF Unsent, Delivered
    <2> QED
      BY <1>10, <2>1, <2>6
  <1>11. CASE w.pc \notin ActivePc
    BY <1>11
  <1> QED
    BY <1>1, <1>4, <1>5, <1>6, <1>7, <1>8, <1>9, <1>10, <1>11 DEF Moves

LEMMA DoubtlessStep ==
  ASSUME Base, Doubtless, [Next]_vars
  PROVE  Doubtless'
  <1> SUFFICES ASSUME Calm'
               PROVE  RemovedUnsent' /\ WaitingUnsent' /\ ItemCertain'
    BY DEF Doubtless
  <1>1. Calm /\ RemovedUnsent /\ WaitingUnsent /\ ItemCertain
    BY CalmStep DEF Base, Doubtless
  <1> QED
    BY <1>1, RemovedStep, WaitingStep, CertainStep

LEMMA DoubtlessAlways == Spec => []Doubtless
  <1>1. Init => Doubtless
    <2> SUFFICES ASSUME Init
                 PROVE  Doubtless
      OBVIOUS
    <2>1. Range(outbox) = {} /\ worker[1].pc = "off" /\ \A m \in Messages : ~Is(m, {"removed"})
      BY NothingHeld, NewWorkerIs DEF Init, Gens, Is
    <2> QED
      BY <2>1 DEF Doubtless, RemovedUnsent, WaitingUnsent, ItemCertain, Active
  <1>2. Base /\ Doubtless /\ [Next]_vars => Doubtless'
    BY DoubtlessStep
  <1> QED
    BY <1>1, <1>2, BaseAlways, PTL DEF Spec

\* While the link is the same, a held message that its user removed, and whose
\* delivery was not in doubt, never reaches the server.
THEOREM RemovedMessageIsNotSent == Spec => []RemovedIsNotSent
  <1>1. Doubtless => RemovedIsNotSent
    BY DEF Doubtless, Calm, RemovedUnsent, Unsent, RemovedIsNotSent
  <1> QED
    BY <1>1, DoubtlessAlways, PTL

-----------------------------------------------------------------------------
(* The server gets no message twice *)

\* The service keeps running on the same link, and a look sees what was sent.
Steady == faults \subseteq {"delete", "disk"}

NoCopy(m, t) == \A i \in DOMAIN got : ~(got[i].msg = m /\ got[i].text = t)

\* To send the message's text now gives the server no second copy.
Safe(m, t) == NoCopy(m, t) \/ SessionOf[m] \notin sessions

Single ==
  \A i, j \in DOMAIN got : got[i].msg = got[j].msg /\ got[i].text = got[j].text => i = j

SendSafe ==
  At(1, "send") /\ worker[1].conn \in open => Safe(Item(1).msg, Item(1).text)

AskedSafe ==
  \A r \in wire : r.conn \in open /\ r.answer = "none" => Safe(r.msg, r.text)

OnceOnly == Steady => Single /\ SendSafe /\ AskedSafe

LEMMA SteadyStep ==
  ASSUME [Next]_vars, Steady'
  PROVE  /\ Steady /\ Calm /\ Calm'
         /\ ~Fails("unseen") /\ ~Fails("late")
  BY FaultsGrow DEF Steady, Calm, Fails

\* Connections open under new numbers, and sessions are only deleted.
LEMMA Shrinks ==
  ASSUME Types, [Next]_vars
  PROVE  open' \subseteq open \cup {made + 1} /\ sessions' \subseteq sessions
  <1>1. open' \subseteq open \cup {made + 1}
    BY RestartIs, ReloadIs
       DEF Next, Caller, Check, SendNow, Hold, Worker, Connect, Disconnected, Retire,
           Flush, Pick, Look, Send, Settle, Drop, User, EditHeld, RemoveHeld, Listing,
           StoreSessions, ReadList, Server, Take, Hear, Delete, Service, vars, connVars
  <1>2. sessions' \subseteq sessions
    BY RestartIs, ReloadIs
       DEF Next, Caller, Check, SendNow, Hold, Worker, Connect, Disconnected, Retire,
           Flush, Pick, Look, Send, Settle, Drop, User, EditHeld, RemoveHeld, Listing,
           StoreSessions, ReadList, Server, Take, Hear, Delete, Service, vars, serverVars
  <1> QED
    BY <1>1, <1>2

LEMMA SafeStays ==
  ASSUME Types, Lines, [Next]_vars, NEW m, NEW t, Safe(m, t),
         ~\E r \in wire : \E answered : Answers(r, TRUE, answered) /\ r.msg = m /\ r.text = t
  PROVE  Safe(m, t)'
  <1>1. CASE UNCHANGED got
    BY <1>1, Shrinks DEF Safe, NoCopy
  <1>2. ASSUME NEW r \in wire, NEW answered, Answers(r, TRUE, answered)
        PROVE  Safe(m, t)'
    <2> DEFINE e == [msg |-> r.msg, text |-> r.text]
    <2>1. e \in TakenType /\ e.msg = r.msg /\ e.text = r.text
      BY RequestMsg DEF TakenType
    <2>2. got' = Append(got, e) /\ ~(r.msg = m /\ r.text = t)
      BY <1>2 DEF Answers
    <2> HIDE DEF e
    <2>3. /\ Len(got) \in Nat /\ DOMAIN got = 1..Len(got)
          /\ DOMAIN got' = 1..(Len(got) + 1)
          /\ \A i \in DOMAIN got : got'[i] = got[i]
          /\ got'[Len(got) + 1] = e
      BY <2>1, <2>2, GotGrows
    <2>4. NoCopy(m, t) => NoCopy(m, t)'
      BY <2>1, <2>2, <2>3 DEF NoCopy
    <2> QED
      BY <2>4, Shrinks DEF Safe
  <1>3. ASSUME NEW r \in wire, NEW ok \in BOOLEAN, NEW answered, Answers(r, ok, answered)
        PROVE  UNCHANGED got \/ Answers(r, TRUE, answered)
    BY <1>3 DEF Answers
  <1> QED
    BY <1>1, <1>2, <1>3, CarriesIs DEF Carries

\* Two open requests to the server concern different messages.
LEMMA OpenRequests ==
  ASSUME Types, Lines, Calm, NEW r \in wire, NEW s \in wire,
         r.conn \in open, s.conn \in open, r.msg = s.msg
  PROVE  r = s
  <1>1. GoodRequest(r) /\ GoodRequest(s) /\ r.held \in BOOLEAN /\ s.held \in BOOLEAN
    BY RequestMsg DEF Lines, Requests
  <1>2. CASE r.held /\ s.held
    <2>1. \A g \in Gens : At(g, "waiting") => g = 1
      BY CalmIs DEF At
    <2>2. r.conn = worker[1].conn /\ s.conn = worker[1].conn
      BY <1>1, <1>2, <2>1 DEF GoodRequest, Serves
    <2> QED
      BY <1>2, <2>2 DEF Lines, Requests, SameSource
  <1>3. CASE ~r.held /\ ~s.held
    BY <1>3 DEF Lines, Requests, SameSource
  <1>4. CASE r.held # s.held
    BY <1>1, <1>4 DEF GoodRequest, Waits, Is, Taken
  <1> QED
    BY <1>1, <1>2, <1>3, <1>4

LEMMA SingleStep ==
  ASSUME Types, Lines, [Next]_vars, Steady', Single, AskedSafe
  PROVE  Single'
  <1>1. CASE UNCHANGED got
    BY <1>1 DEF Single
  <1>2. ASSUME NEW r \in wire, NEW ok \in BOOLEAN, NEW answered, Answers(r, ok, answered), ok
        PROVE  Single'
    <2>1. r.conn \in open
      BY <1>2, SteadyStep DEF Answers, Take
    <2>2. NoCopy(r.msg, r.text)
      BY <1>2, <2>1 DEF Answers, AskedSafe, Safe
    <2> DEFINE e == [msg |-> r.msg, text |-> r.text]
    <2>3. e \in TakenType /\ e.msg = r.msg /\ e.text = r.text
      BY RequestMsg DEF TakenType
    <2>4. got' = Append(got, e)
      BY <1>2 DEF Answers
    <2> HIDE DEF e
    <2>5. /\ Len(got) \in Nat /\ DOMAIN got = 1..Len(got)
          /\ DOMAIN got' = 1..(Len(got) + 1)
          /\ \A i \in DOMAIN got : got'[i] = got[i]
          /\ got'[Len(got) + 1] = e
      BY <2>3, <2>4, GotGrows
    <2> QED
      BY <2>2, <2>3, <2>5 DEF Single, NoCopy
  <1> QED
    BY <1>1, <1>2, CarriesIs DEF Carries, Answers

LEMMA SendSafeStep ==
  ASSUME Base, [Next]_vars, Steady', Doubtless, SendSafe
  PROVE  SendSafe'
  <1>0. /\ Types /\ Lines /\ Lists /\ 1 \in Gens /\ Calm /\ Calm' /\ WaitingUnsent
        /\ \A g \in Gens : worker[g].pc # "ended" => g = 1
    BY CalmIs, SteadyStep DEF Base, Doubtless
  <1> SUFFICES ASSUME NEW w, w = worker'[1], NEW m, m = w.item.msg, NEW t, t = w.item.text,
                      w.pc = "send", w.conn \in open'
               PROVE  Safe(m, t)'
    BY DEF SendSafe, Item, At, Safe, NoCopy
  <1>1. Moves(1)
    BY <1>0, MovesIs
  <1>2. CASE w = worker[1]
    <2>1. Is(m, Taken)
      BY <1>0, <1>2, ActiveItem DEF Active, Item
    <2>2. worker[1].conn \in Nat /\ worker[1].conn <= made /\ made \in Nat
      BY <1>0, WorkerFields DEF Types, Conns
    <2>3. w.conn \in open
      BY <1>0, <1>2, <2>2, Shrinks
    <2>4. Safe(m, t)
      BY <1>2, <2>3 DEF SendSafe, At, Item
    <2>5. ASSUME NEW r \in wire, NEW answered, Answers(r, TRUE, answered), r.msg = m
          PROVE  FALSE
      <3>1. r.conn \in open
        BY <2>5, SteadyStep DEF Answers, Take
      <3>2. GoodRequest(r) /\ r.held \in BOOLEAN
        BY <1>0, RequestMsg DEF Lines, Requests
      <3>3. ~r.held
        BY <1>0, <1>2, <3>1, <3>2 DEF GoodRequest, Serves, At
      <3> QED
        BY <2>1, <2>5, <3>1, <3>2, <3>3 DEF GoodRequest, Waits, Is, Taken
    <2> QED
      BY <1>0, <2>4, <2>5, SafeStays
  <1>3. ASSUME NEW item, Pick(1), Takes(1, item)
        PROVE  Safe(m, t)'
    <2>1. item = w.item /\ ~item.uncertain /\ item \in Range(outbox)
      BY <1>0, <1>3, NextReadyIn DEF Takes, Types
    <2>2. ~Active(1)
      BY <1>3 DEF Pick, Active, At
    <2>3. Unsent(m)
      BY <1>0, <2>1, <2>2 DEF WaitingUnsent, Busy
    <2>4. UNCHANGED got
      BY <1>3 DEF Pick, serverVars
    <2> QED
      BY <2>3, <2>4 DEF Unsent, Delivered, Safe, NoCopy
  <1>4. CASE Look(1) /\ Onward(1, "look", "send")
    <2>1. w.item = Item(1) /\ w.conn = worker[1].conn /\ UNCHANGED <<got, sessions, open>>
      BY <1>4 DEF Onward, Item, Look, serverVars, connVars
    <2>2. ~Result(1, "sent")
      BY <1>0, <1>4, ResultIs DEF Turn, Outcome
    <2>3. ~Found(1)
      BY <1>4, <2>1, <2>2, SteadyStep DEF Look, Found, Item
    <2>4. ~(SessionOf[m] \in sessions /\ Arrived(Item(1)))
      BY <2>1, <2>3 DEF Found
    <2>5. Safe(m, t)
      BY <2>1, <2>4 DEF Safe, NoCopy, Arrived
    <2> QED
      BY <2>1, <2>5 DEF Safe, NoCopy
  <1> QED
    BY <1>1, <1>2, <1>3, <1>4 DEF Moves, Asks, Onward, ActivePc

LEMMA AskedSafeStep ==
  ASSUME Base, [Next]_vars, Steady', SendSafe, AskedSafe
  PROVE  AskedSafe'
  <1>0. /\ Types /\ Lines /\ Calm
        /\ \A g \in Gens : worker[g].pc # "ended" => g = 1
    BY CalmIs, SteadyStep DEF Base
  <1> SUFFICES ASSUME NEW x \in wire', x.conn \in open', x.answer = "none",
                      NEW m, m = x.msg, NEW t, t = x.text
               PROVE  Safe(m, t)'
    BY DEF AskedSafe, Safe, NoCopy
  <1>1. CASE x \in wire
    <2>1. x.conn \in open
      BY <1>0, <1>1, RequestMsg, Shrinks DEF Types, Conns
    <2>2. Safe(m, t)
      BY <1>1, <2>1 DEF AskedSafe
    <2>3. ASSUME NEW r \in wire, NEW answered, Answers(r, TRUE, answered), r.msg = m
          PROVE  FALSE
      <3>1. r.conn \in open
        BY <2>3, SteadyStep DEF Answers, Take
      <3>2. r = x
        BY <1>0, <1>1, <2>1, <2>3, <3>1, OpenRequests
      <3>3. x \in answered
        BY <2>3, <3>2 DEF Answers
      <3> QED
        BY <2>3, <3>3 DEF Answers
    <2> QED
      BY <1>0, <2>2, <2>3, SafeStays
  <1>2. ASSUME NEW y \in Messages, Posts(y), UNCHANGED got, x \notin wire
        PROVE  Safe(m, t)'
    <2>1. m = y /\ Unsent(m)
      BY <1>0, <1>2 DEF Posts, Request, Lines, Fresh, Is
    <2> QED
      BY <1>2, <2>1 DEF Unsent, Delivered, Safe, NoCopy
  <1>3. ASSUME NEW g \in Gens, Asks(g), UNCHANGED got, x \notin wire
        PROVE  Safe(m, t)'
    <2>1. g = 1 /\ m = Item(1).msg /\ t = Item(1).text /\ At(1, "send") /\ worker[1].conn \in open
      BY <1>0, <1>3 DEF Asks, Onward, At, Request
    <2>2. Safe(m, t)
      BY <2>1 DEF SendSafe
    <2> QED
      BY <1>0, <1>3, <2>2, Shrinks DEF Safe, NoCopy
  <1>4. ASSUME NEW r \in wire, NEW ok \in BOOLEAN, NEW answered, Answers(r, ok, answered),
               x \notin wire
        PROVE  FALSE
    BY <1>4 DEF Answers
  <1> QED
    BY <1>0, <1>1, <1>2, <1>3, <1>4, CarriesIs DEF Carries

LEMMA OnceAlways == Spec => []OnceOnly
  <1>1. Init => OnceOnly
    <2> SUFFICES ASSUME Init
                 PROVE  OnceOnly
      OBVIOUS
    <2>1. DOMAIN got = {} /\ wire = {} /\ worker[1].pc = "off"
      BY EmptySeq, LenProperties, NewWorkerIs DEF Init, Gens
    <2> QED
      BY <2>1 DEF OnceOnly, Single, SendSafe, AskedSafe, At
  <1>2. Base /\ Doubtless /\ OnceOnly /\ [Next]_vars => OnceOnly'
    <2> SUFFICES ASSUME Base, Doubtless, OnceOnly, [Next]_vars, Steady'
                 PROVE  Single' /\ SendSafe' /\ AskedSafe'
      BY DEF OnceOnly
    <2>1. Single /\ SendSafe /\ AskedSafe
      BY SteadyStep DEF OnceOnly
    <2> QED
      BY <2>1, SingleStep, SendSafeStep, AskedSafeStep DEF Base
  <1> QED
    BY <1>1, <1>2, BaseAlways, DoubtlessAlways, PTL DEF Spec

\* While the service runs on the same link and a look sees what the server was
\* sent, the server gets no message twice with the same text.
THEOREM MessageIsSentOnce == Spec => []SentOnce
  <1>1. OnceOnly => SentOnce
    <2> SUFFICES ASSUME OnceOnly, Steady, NEW m \in Messages, NEW t \in Text
                 PROVE  Cardinality(Copies(m, t)) <= 1
      BY DEF SentOnce, Steady
    <2>1. \A i, j \in Copies(m, t) : i = j
      BY DEF OnceOnly, Single, Copies
    <2>2. CASE Copies(m, t) = {}
      BY <2>2, FS_EmptySet
    <2>3. CASE Copies(m, t) # {}
      <3>1. PICK i : Copies(m, t) = {i}
        BY <2>1, <2>3
      <3> QED
        BY <3>1, FS_Singleton
    <2> QED
      BY <2>2, <2>3
  <1> QED
    BY <1>1, OnceAlways, PTL
=============================================================================
