--------------------------- MODULE SequenceLemmas ---------------------------
(***************************************************************************)
(* What happens to a sequence when one element is taken out of the middle  *)
(* (_active.remove()) or when a prefix of it is moved behind another one   *)
(* (_promote_pending()).                                                   *)
(***************************************************************************)
EXTENDS Integers, SequencesExt, SequenceTheorems, TLAPS

-----------------------------------------------------------------------------
(***************************************************************************)
(* One element less                                                        *)
(***************************************************************************)

\* Taking the element at i out shifts the ones behind it.
LEMMA RemoveAtProperties ==
  ASSUME NEW S, NEW s \in Seq(S), NEW i \in 1 .. Len(s)
  PROVE  /\ RemoveAt(s, i) \in Seq(S)
         /\ Len(RemoveAt(s, i)) = Len(s) - 1
         /\ \A k \in 1 .. Len(s) - 1 :
              RemoveAt(s, i)[k] = IF k < i THEN s[k] ELSE s[k + 1]
  <1> DEFINE a == SubSeq(s, 1, i - 1)
             b == SubSeq(s, i + 1, Len(s))
  <1>1. /\ a \in Seq(S)
        /\ Len(a) = i - 1
        /\ \A k \in 1 .. i - 1 : a[k] = s[k]
    BY SubSeqProperties, ElementOfSeq
  <1>2. /\ b \in Seq(S)
        /\ Len(b) = Len(s) - i
        /\ \A k \in 1 .. Len(s) - i : b[k] = s[k + i]
    BY SubSeqProperties, ElementOfSeq
  <1> HIDE DEF a, b
  <1>3. /\ a \o b \in Seq(S)
        /\ Len(a \o b) = Len(a) + Len(b)
        /\ \A k \in 1 .. Len(a) + Len(b) : (a \o b)[k] = IF k <= Len(a) THEN a[k] ELSE b[k - Len(a)]
    BY <1>1, <1>2, ConcatProperties
  <1>4. Len(s) \in Nat /\ Len(a) + Len(b) = Len(s) - 1
    BY <1>1, <1>2
  <1>5. ASSUME NEW k \in 1 .. Len(s) - 1
        PROVE  (a \o b)[k] = IF k < i THEN s[k] ELSE s[k + 1]
    <2>1. CASE k < i
      BY <1>1, <1>2, <1>3, <1>4, <2>1
    <2>2. CASE k >= i
      <3> DEFINE m == k - Len(a)
      <3>1. m \in 1 .. Len(s) - i /\ m + i = k + 1
        <4>1. Len(a) = i - 1 /\ i \in Nat /\ k \in Nat /\ k <= Len(s) - 1 /\ Len(s) \in Nat
          BY <1>1, <1>4
        <4> QED
          BY <4>1, <2>2
      <3>2. (a \o b)[k] = b[m]
        BY <1>1, <1>3, <1>4, <2>2
      <3>3. b[m] = s[m + i]
        <4> HIDE DEF m
        <4> QED
          BY <1>2, <3>1
      <3>4. b[m] = s[k + 1]
        BY <3>1, <3>3
      <3> QED
        BY <2>2, <3>2, <3>4
    <2> QED
      BY <1>4, <2>1, <2>2
  <1>6. RemoveAt(s, i) = a \o b
    BY DEF RemoveAt, a, b
  <1> QED
    BY <1>3, <1>4, <1>5, <1>6

\* Taking an element out of the first of two sequences.
LEMMA RemoveAtOfConcat ==
  ASSUME NEW S, NEW s \in Seq(S), NEW t \in Seq(S), NEW i \in 1 .. Len(s)
  PROVE  RemoveAt(s, i) \o t = RemoveAt(s \o t, i)
  <1>1. /\ s \o t \in Seq(S)
        /\ Len(s \o t) = Len(s) + Len(t)
        /\ \A k \in 1 .. Len(s) + Len(t) : (s \o t)[k] = IF k <= Len(s) THEN s[k] ELSE t[k - Len(s)]
    BY ConcatProperties
  <1>2. /\ RemoveAt(s, i) \in Seq(S)
        /\ Len(RemoveAt(s, i)) = Len(s) - 1
        /\ \A k \in 1 .. Len(s) - 1 :
             RemoveAt(s, i)[k] = IF k < i THEN s[k] ELSE s[k + 1]
    BY RemoveAtProperties
  <1> DEFINE u == RemoveAt(s, i)
             v == RemoveAt(s \o t, i)
  <1>3. Len(s) \in Nat /\ Len(t) \in Nat /\ i \in 1 .. Len(s \o t)
    BY <1>1
  <1>4. /\ v \in Seq(S)
        /\ Len(v) = Len(s \o t) - 1
        /\ \A k \in 1 .. Len(s \o t) - 1 :
             v[k] = IF k < i THEN (s \o t)[k] ELSE (s \o t)[k + 1]
    BY <1>1, <1>3, RemoveAtProperties
  <1> HIDE DEF u, v
  <1>5. /\ u \o t \in Seq(S)
        /\ Len(u \o t) = Len(u) + Len(t)
        /\ \A k \in 1 .. Len(u) + Len(t) :
             (u \o t)[k] = IF k <= Len(u) THEN u[k] ELSE t[k - Len(u)]
    BY <1>2, ConcatProperties DEF u
  <1>6. ASSUME NEW k \in 1 .. Len(v) PROVE (u \o t)[k] = v[k]
    <2>1. /\ k \in Nat /\ Len(u) = Len(s) - 1 /\ Len(v) = Len(s) + Len(t) - 1
          /\ k <= Len(s) + Len(t) - 1 /\ k >= 1 /\ i \in Nat /\ i <= Len(s) /\ i >= 1
      BY <1>1, <1>2, <1>3, <1>4 DEF u
    <2>2. CASE k < i
      <3>1. (u \o t)[k] = u[k] /\ u[k] = s[k]
        BY <1>2, <1>3, <1>5, <2>1, <2>2 DEF u
      <3>2. v[k] = (s \o t)[k] /\ (s \o t)[k] = s[k]
        BY <1>1, <1>3, <1>4, <2>1, <2>2
      <3> QED
        BY <3>1, <3>2
    <2>3. CASE i <= k /\ k < Len(s)
      <3>1. (u \o t)[k] = u[k] /\ u[k] = s[k + 1]
        BY <1>2, <1>3, <1>5, <2>1, <2>3 DEF u
      <3>2. v[k] = (s \o t)[k + 1] /\ (s \o t)[k + 1] = s[k + 1]
        BY <1>1, <1>3, <1>4, <2>1, <2>3
      <3> QED
        BY <3>1, <3>2
    <2>4. CASE Len(s) <= k
      <3> DEFINE m == k - Len(u)
                 n == k + 1
      <3>1. (u \o t)[k] = t[m]
        BY <1>3, <1>5, <2>1, <2>4
      <3>2. n \in 1 .. Len(s) + Len(t) /\ n > Len(s) /\ m = n - Len(s)
        BY <1>3, <2>1, <2>4
      <3>3. v[k] = (s \o t)[n]
        BY <1>1, <1>3, <1>4, <2>1, <2>4
      <3> HIDE DEF m, n
      <3>4. (s \o t)[n] = t[n - Len(s)]
        BY <1>1, <1>3, <3>2
      <3> QED
        BY <3>1, <3>2, <3>3, <3>4
    <2> QED
      BY <1>3, <2>1, <2>2, <2>3, <2>4
  <1>7. Len(u \o t) = Len(v)
    BY <1>1, <1>2, <1>3, <1>4, <1>5 DEF u
  <1>8. u \o t = v
    BY <1>4, <1>5, <1>6, <1>7, SeqEqual
  <1> QED
    BY <1>8 DEF u, v

\* No element occurs twice.
Distinct(s) == \A i, j \in DOMAIN s : s[i] = s[j] => i = j

\* Without repetitions, the element that is taken out is gone.
LEMMA RemoveAtMembers ==
  ASSUME NEW S, NEW s \in Seq(S), NEW i \in 1 .. Len(s), Distinct(s)
  PROVE  /\ Distinct(RemoveAt(s, i))
         /\ ToSet(RemoveAt(s, i)) = ToSet(s) \ {s[i]}
  <1> DEFINE t == RemoveAt(s, i)
  <1>1. /\ t \in Seq(S)
        /\ Len(t) = Len(s) - 1
        /\ \A k \in 1 .. Len(s) - 1 : t[k] = IF k < i THEN s[k] ELSE s[k + 1]
    BY RemoveAtProperties
  <1> HIDE DEF t
  <1>2. /\ Len(s) \in Nat /\ i \in Nat
        /\ DOMAIN s = 1 .. Len(s)
        /\ DOMAIN t = 1 .. Len(s) - 1
        /\ \A k, l \in 1 .. Len(s) : s[k] = s[l] => k = l
    BY <1>1 DEF Distinct
  <1>3. ASSUME NEW k \in 1 .. Len(s) - 1
        PROVE  \E n \in 1 .. Len(s) :
                 t[k] = s[n] /\ n # i /\ ((n = k /\ k < i) \/ (n = k + 1 /\ k >= i))
    <2>1. CASE k < i
      BY <1>1, <1>2, <2>1
    <2>2. CASE k >= i
      <3>1. k + 1 \in 1 .. Len(s) /\ t[k] = s[k + 1] /\ k + 1 # i
        BY <1>1, <1>2, <2>2
      <3> QED
        BY <2>2, <3>1
    <2> QED
      BY <1>2, <2>1, <2>2
  <1>4. ASSUME NEW n \in 1 .. Len(s), n # i
        PROVE  \E k \in 1 .. Len(s) - 1 : t[k] = s[n]
    <2>1. CASE n < i
      <3>1. n \in 1 .. Len(s) - 1 /\ t[n] = s[n]
        BY <1>1, <1>2, <2>1
      <3> QED
        BY <3>1
    <2>2. CASE n > i
      <3> DEFINE k == n - 1
      <3>1. k \in 1 .. Len(s) - 1 /\ ~(k < i) /\ k + 1 = n
        BY <1>2, <2>2
      <3>2. t[k] = s[n]
        <4> HIDE DEF k
        <4> QED
          BY <1>1, <3>1
      <3> QED
        BY <3>1, <3>2
    <2> QED
      BY <1>2, <1>4, <2>1, <2>2
  <1>5. Distinct(t)
    <2> SUFFICES ASSUME NEW k \in 1 .. Len(s) - 1, NEW l \in 1 .. Len(s) - 1, t[k] = t[l]
                 PROVE  k = l
      BY <1>2 DEF Distinct
    <2>1. PICK n \in 1 .. Len(s) :
            t[k] = s[n] /\ n # i /\ ((n = k /\ k < i) \/ (n = k + 1 /\ k >= i))
      BY <1>3
    <2>2. PICK m \in 1 .. Len(s) :
            t[l] = s[m] /\ m # i /\ ((m = l /\ l < i) \/ (m = l + 1 /\ l >= i))
      BY <1>3
    <2>3. n = m
      BY <1>2, <2>1, <2>2
    <2> QED
      BY <1>2, <2>1, <2>2, <2>3
  <1>6. ToSet(t) = ToSet(s) \ {s[i]}
    <2>1. ASSUME NEW k \in 1 .. Len(s) - 1 PROVE t[k] \in ToSet(s) \ {s[i]}
      <3>1. PICK n \in 1 .. Len(s) : t[k] = s[n] /\ n # i
        BY <1>3
      <3> QED
        BY <1>2, <3>1 DEF ToSet
    <2>2. ASSUME NEW n \in 1 .. Len(s), s[n] # s[i] PROVE s[n] \in ToSet(t)
      <3>1. PICK k \in 1 .. Len(s) - 1 : t[k] = s[n]
        BY <1>4, <2>2
      <3> QED
        BY <1>2, <3>1 DEF ToSet
    <2> QED
      BY <1>2, <2>1, <2>2 DEF ToSet
  <1> QED
    BY <1>5, <1>6 DEF t

-----------------------------------------------------------------------------
(***************************************************************************)
(* A prefix of one sequence moved behind another                           *)
(***************************************************************************)

LEMMA MembersOfConcat ==
  ASSUME NEW S, NEW s \in Seq(S), NEW t \in Seq(S)
  PROVE  /\ s \o t \in Seq(S)
         /\ Len(s \o t) = Len(s) + Len(t)
         /\ ToSet(s \o t) = ToSet(s) \cup ToSet(t)
         /\ Distinct(s \o t)
              <=> Distinct(s) /\ Distinct(t) /\ ToSet(s) \cap ToSet(t) = {}
  <1> DEFINE u == s \o t
  <1>1. /\ u \in Seq(S) /\ Len(u) = Len(s) + Len(t)
        /\ \A k \in 1 .. Len(s) + Len(t) : u[k] = IF k <= Len(s) THEN s[k] ELSE t[k - Len(s)]
    BY ConcatProperties
  <1>2. /\ DOMAIN s = 1 .. Len(s) /\ Len(s) \in Nat
        /\ DOMAIN t = 1 .. Len(t) /\ Len(t) \in Nat
    OBVIOUS
  <1> HIDE DEF u
  <1>3. DOMAIN u = 1 .. Len(s) + Len(t)
    BY <1>1
  <1>4. ASSUME NEW k \in 1 .. Len(s) PROVE k \in DOMAIN u /\ u[k] = s[k]
    BY <1>1, <1>2, <1>3
  <1>5. ASSUME NEW k \in 1 .. Len(t) PROVE Len(s) + k \in DOMAIN u /\ u[Len(s) + k] = t[k]
    <2> DEFINE n == Len(s) + k
    <2>1. n \in 1 .. Len(s) + Len(t) /\ ~(n <= Len(s)) /\ n - Len(s) = k
      BY <1>2
    <2>2. u[n] = t[n - Len(s)]
      <3> HIDE DEF n
      <3> QED
        BY <1>1, <2>1
    <2> QED
      BY <1>3, <2>1, <2>2
  <1>6. ASSUME NEW k \in DOMAIN u
        PROVE  \/ k \in 1 .. Len(s) /\ u[k] = s[k]
               \/ \E n \in 1 .. Len(t) : k = Len(s) + n /\ u[k] = t[n]
    <2>1. CASE k <= Len(s)
      BY <1>1, <1>2, <1>3, <2>1
    <2>2. CASE k > Len(s)
      <3> DEFINE n == k - Len(s)
      <3>1. n \in 1 .. Len(t) /\ k = Len(s) + n /\ u[k] = t[n]
        BY <1>1, <1>2, <1>3, <2>2
      <3> QED
        BY <3>1
    <2> QED
      BY <1>2, <1>3, <2>1, <2>2
  <1>7. ToSet(u) = ToSet(s) \cup ToSet(t)
    <2>1. ToSet(u) \subseteq ToSet(s) \cup ToSet(t)
      BY <1>2, <1>6 DEF ToSet
    <2>2. ToSet(s) \subseteq ToSet(u)
      BY <1>2, <1>4 DEF ToSet
    <2>3. ToSet(t) \subseteq ToSet(u)
      <3> SUFFICES ASSUME NEW k \in 1 .. Len(t) PROVE t[k] \in ToSet(u)
        BY <1>2 DEF ToSet
      <3> QED
        BY <1>5 DEF ToSet
    <2> QED
      BY <2>1, <2>2, <2>3
  <1>8. ASSUME Distinct(s), Distinct(t), ToSet(s) \cap ToSet(t) = {}
        PROVE  Distinct(u)
    <2> SUFFICES ASSUME NEW i \in DOMAIN u, NEW j \in DOMAIN u, u[i] = u[j] PROVE i = j
      BY DEF Distinct
    <2>1. \A x : x \in ToSet(s) => x \notin ToSet(t)
      BY <1>8
    <2>2. \A k, n : k \in 1 .. Len(s) /\ n \in 1 .. Len(t) => s[k] # t[n]
      BY <1>2, <2>1 DEF ToSet
    <2>3. /\ \A k, n \in 1 .. Len(s) : s[k] = s[n] => k = n
          /\ \A k, n \in 1 .. Len(t) : t[k] = t[n] => k = n
      BY <1>2, <1>8 DEF Distinct
    <2>4. CASE i \in 1 .. Len(s) /\ u[i] = s[i]
      <3>1. j \in 1 .. Len(s) /\ u[j] = s[j]
        BY <1>6, <2>2, <2>4
      <3> QED
        BY <2>3, <2>4, <3>1
    <2>5. CASE \E n \in 1 .. Len(t) : i = Len(s) + n /\ u[i] = t[n]
      <3>1. \E n \in 1 .. Len(t) : j = Len(s) + n /\ u[j] = t[n]
        BY <1>6, <2>2, <2>5
      <3> QED
        BY <2>3, <2>5, <3>1
    <2> QED
      BY <1>6, <2>4, <2>5
  <1>9. ASSUME Distinct(u)
        PROVE  Distinct(s) /\ Distinct(t) /\ ToSet(s) \cap ToSet(t) = {}
    <2>1. \A i, j \in DOMAIN u : u[i] = u[j] => i = j
      BY <1>9 DEF Distinct
    <2>2. Distinct(s)
      BY <1>2, <1>4, <2>1 DEF Distinct
    <2>3. Distinct(t)
      BY <1>2, <1>5, <2>1 DEF Distinct
    <2>4. ASSUME NEW k \in 1 .. Len(s), NEW n \in 1 .. Len(t), s[k] = t[n] PROVE FALSE
      <3>1. k = Len(s) + n
        BY <1>4, <1>5, <2>1, <2>4
      <3> QED
        BY <1>2, <3>1
    <2> QED
      BY <1>2, <2>2, <2>3, <2>4 DEF ToSet
  <1> QED
    BY <1>1, <1>7, <1>8, <1>9 DEF u

\* A sequence is the concatenation of its first n elements and the others.
LEMMA SplitAt ==
  ASSUME NEW S, NEW s \in Seq(S), NEW n \in 0 .. Len(s)
  PROVE  /\ SubSeq(s, 1, n) \in Seq(S) /\ Len(SubSeq(s, 1, n)) = n
         /\ SubSeq(s, n + 1, Len(s)) \in Seq(S)
         /\ Len(SubSeq(s, n + 1, Len(s))) = Len(s) - n
         /\ SubSeq(s, 1, n) \o SubSeq(s, n + 1, Len(s)) = s
  <1>1. Len(s) \in Nat /\ n \in Nat
    OBVIOUS
  <1>2. SubSeq(s, 1, n) \in Seq(S) /\ Len(SubSeq(s, 1, n)) = n
    BY <1>1, SubSeqProperties, ElementOfSeq
  <1>3. /\ SubSeq(s, n + 1, Len(s)) \in Seq(S)
        /\ Len(SubSeq(s, n + 1, Len(s))) = Len(s) - n
    BY <1>1, SubSeqProperties, ElementOfSeq
  <1>4. 1 \in 1 .. Len(s) + 1 /\ n \in 1 - 1 .. Len(s) /\ Len(s) \in n .. Len(s)
    BY <1>1
  <1>5. SubSeq(s, 1, n) \o SubSeq(s, n + 1, Len(s)) = SubSeq(s, 1, Len(s))
    BY <1>4, ConcatAdjacentSubSeq
  <1> QED
    BY <1>2, <1>3, <1>5, SubSeqFull
=============================================================================
