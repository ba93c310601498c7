----------------------------- MODULE QueueLemmas -----------------------------
(***************************************************************************)
(* What the operations of the loop's queues do to the set of handles they  *)
(* hold and to their having no duplicates: push_back, pop_front, reading   *)
(* the first n entries, and appending a vector of events.                  *)
(***************************************************************************)
EXTENDS Integers, Sequences, Functions, SequenceTheorems, TLAPS

(* A handle is in a queue when it is at one of its positions.              *)
LEMMA QueueMember ==
  ASSUME NEW S, NEW s \in Seq(S)
  PROVE  /\ \A i \in 1 .. Len(s) : s[i] \in Range(s) /\ s[i] \in S
         /\ \A x \in Range(s) : \E i \in 1 .. Len(s) : x = s[i]
         /\ Range(s) \subseteq S
         /\ DOMAIN s = 1 .. Len(s)
         /\ Len(s) \in Nat
  BY RangeEquality, RangeOfSeq, LenProperties DEF Range

(* push_back adds its handle, and keeps the queue free of duplicates when  *)
(* the handle was not there (IO::Call).                                    *)
LEMMA PushBack ==
  ASSUME NEW S, NEW s \in Seq(S), NEW x \in S
  PROVE  /\ Append(s, x) \in Seq(S)
         /\ Range(Append(s, x)) = Range(s) \cup {x}
         /\ Len(Append(s, x)) = Len(s) + 1
         /\ IsInjective(s) /\ x \notin Range(s) => IsInjective(Append(s, x))
<1> DEFINE t == Append(s, x)
<1>1. /\ t \in Seq(S)
      /\ Len(t) = Len(s) + 1
      /\ \A i \in 1 .. Len(s) : t[i] = s[i]
      /\ t[Len(s) + 1] = x
  BY AppendProperties
<1>2. /\ DOMAIN s = 1 .. Len(s) /\ Len(s) \in Nat
      /\ DOMAIN t = 1 .. Len(s) + 1
  BY <1>1, LenProperties
<1> HIDE DEF t
<1>3. Range(t) = Range(s) \cup {x}
  <2>1. ASSUME NEW y \in Range(t) PROVE y \in Range(s) \cup {x}
    BY <1>1, <1>2 DEF Range
  <2>2. ASSUME NEW y \in Range(s) PROVE y \in Range(t)
    <3>1. PICK i \in 1 .. Len(s) : y = s[i]
      BY <1>2 DEF Range
    <3>2. i \in DOMAIN t /\ t[i] = y
      BY <3>1, <1>1, <1>2
    <3> QED BY <3>2 DEF Range
  <2>3. x \in Range(t)
    <3>1. Len(s) + 1 \in DOMAIN t
      BY <1>2
    <3> QED BY <3>1, <1>1 DEF Range
  <2> QED BY <2>1, <2>2, <2>3
<1>4. ASSUME IsInjective(s), x \notin Range(s) PROVE IsInjective(t)
  <2> SUFFICES ASSUME NEW i \in DOMAIN t, NEW j \in DOMAIN t, t[i] = t[j]
               PROVE  i = j
    BY DEF IsInjective
  <2>1. \A k \in 1 .. Len(s) : s[k] # x
    BY <1>2, <1>4 DEF Range
  <2>2. CASE i \in 1 .. Len(s) /\ j \in 1 .. Len(s)
    BY <2>2, <1>1, <1>2, <1>4 DEF IsInjective
  <2>3. CASE i = Len(s) + 1 /\ j = Len(s) + 1
    BY <2>3
  <2>4. CASE i = Len(s) + 1 /\ j \in 1 .. Len(s)
    BY <2>4, <2>1, <1>1
  <2>5. CASE i \in 1 .. Len(s) /\ j = Len(s) + 1
    BY <2>5, <2>1, <1>1
  <2> QED BY <2>2, <2>3, <2>4, <2>5, <1>2
<1> QED BY <1>1, <1>3, <1>4 DEF t

(* pop_front takes the first handle out; without duplicates, out for good  *)
(* (Runone).                                                               *)
LEMMA PopFront ==
  ASSUME NEW S, NEW s \in Seq(S), s # <<>>
  PROVE  /\ Head(s) \in S
         /\ Head(s) \in Range(s)
         /\ Tail(s) \in Seq(S)
         /\ Len(Tail(s)) = Len(s) - 1
         /\ Range(Tail(s)) \subseteq Range(s)
         /\ Range(s) \subseteq Range(Tail(s)) \cup {Head(s)}
         /\ IsInjective(s) => IsInjective(Tail(s)) /\ Head(s) \notin Range(Tail(s))
<1> DEFINE t == Tail(s)
<1>1. /\ t \in Seq(S) /\ Len(t) = Len(s) - 1
      /\ \A i \in 1 .. Len(t) : t[i] = s[i + 1]
      /\ Head(s) = s[1]
  BY HeadTailProperties
<1>2. /\ DOMAIN s = 1 .. Len(s) /\ Len(s) \in Nat /\ Len(s) > 0
      /\ DOMAIN t = 1 .. Len(s) - 1
  BY <1>1, LenProperties, EmptySeq
<1> HIDE DEF t
<1>3. Head(s) \in Range(s) /\ Head(s) \in S
  <2>1. 1 \in DOMAIN s
    BY <1>2
  <2> QED BY <2>1, <1>1, QueueMember, <1>2 DEF Range
<1>4. ASSUME NEW y \in Range(t) PROVE \E i \in 2 .. Len(s) : y = s[i]
  <2>1. PICK i \in 1 .. Len(s) - 1 : y = t[i]
    BY <1>2 DEF Range
  <2>2. y = s[i + 1] /\ i + 1 \in 2 .. Len(s)
    BY <2>1, <1>1, <1>2
  <2> QED BY <2>2
<1>5. Range(t) \subseteq Range(s)
  BY <1>4, <1>2 DEF Range
<1>6. ASSUME IsInjective(s) PROVE IsInjective(t) /\ Head(s) \notin Range(t)
  <2>1. IsInjective(t)
    <3> SUFFICES ASSUME NEW i \in DOMAIN t, NEW j \in DOMAIN t, t[i] = t[j]
                 PROVE  i = j
      BY DEF IsInjective
    <3>1. /\ s[i + 1] = s[j + 1]
          /\ i + 1 \in DOMAIN s /\ j + 1 \in DOMAIN s
      BY <1>1, <1>2
    <3>2. i + 1 = j + 1
      BY <3>1, <1>6 DEF IsInjective
    <3> QED BY <3>2, <1>2
  <2>2. Head(s) \notin Range(t)
    <3> SUFFICES ASSUME Head(s) \in Range(t) PROVE FALSE
      OBVIOUS
    <3>1. PICK i \in 2 .. Len(s) : s[1] = s[i]
      BY <1>4, <1>1
    <3>2. 1 \in DOMAIN s /\ i \in DOMAIN s /\ i # 1
      BY <1>2
    <3> QED BY <3>1, <3>2, <1>6 DEF IsInjective
  <2> QED BY <2>1, <2>2
<1>7. ASSUME NEW y \in Range(s), y # Head(s) PROVE y \in Range(t)
  <2>1. PICK i \in 1 .. Len(s) : y = s[i]
    BY QueueMember
  <2>2. i - 1 \in DOMAIN t /\ t[i - 1] = y
    BY <2>1, <1>1, <1>2, <1>7
  <2> QED BY <2>2 DEF Range
<1> QED BY <1>1, <1>3, <1>5, <1>6, <1>7 DEF t

(* Reading the first n entries splits the queue (fi_cq_read).              *)
LEMMA ReadFront ==
  ASSUME NEW S, NEW s \in Seq(S), NEW n \in 0 .. Len(s)
  PROVE  /\ SubSeq(s, 1, n) \in Seq(S)
         /\ SubSeq(s, n + 1, Len(s)) \in Seq(S)
         /\ Len(SubSeq(s, 1, n)) = n
         /\ Range(SubSeq(s, 1, n)) \subseteq Range(s)
         /\ Range(SubSeq(s, n + 1, Len(s))) \subseteq Range(s)
         /\ Range(s) \subseteq Range(SubSeq(s, 1, n)) \cup Range(SubSeq(s, n + 1, Len(s)))
         /\ IsInjective(s) =>
              /\ IsInjective(SubSeq(s, 1, n))
              /\ IsInjective(SubSeq(s, n + 1, Len(s)))
              /\ Range(SubSeq(s, 1, n)) \cap Range(SubSeq(s, n + 1, Len(s))) = {}
<1> DEFINE a == SubSeq(s, 1, n)
           b == SubSeq(s, n + 1, Len(s))
<1>1. /\ DOMAIN s = 1 .. Len(s) /\ Len(s) \in Nat /\ n \in Nat
      /\ \A i \in 1 .. Len(s) : s[i] \in S
  BY QueueMember
<1>2. /\ a \in Seq(S) /\ Len(a) = n
      /\ \A i \in 1 .. n : a[i] = s[i]
  <2>1. \A i \in 1 .. n : s[i] \in S
    BY <1>1
  <2>2. /\ a \in Seq(S) /\ Len(a) = IF 1 <= n THEN n - 1 + 1 ELSE 0
        /\ \A i \in 1 .. n - 1 + 1 : a[i] = s[1 + i - 1]
    BY <1>1, <2>1, SubSeqProperties
  <2>3. \A i \in 1 .. n : a[i] = s[i]
    <3> TAKE i \in 1 .. n
    <3>1. i \in 1 .. n - 1 + 1 /\ 1 + i - 1 = i
      BY <1>1
    <3> QED BY <3>1, <2>2
  <2> HIDE DEF a
  <2> QED BY <2>2, <2>3, <1>1
<1>3. /\ b \in Seq(S) /\ Len(b) = Len(s) - n
      /\ \A i \in 1 .. Len(s) - n : b[i] = s[n + i]
  <2>1. \A i \in n + 1 .. Len(s) : s[i] \in S
    BY <1>1
  <2>2. /\ b \in Seq(S)
        /\ Len(b) = IF n + 1 <= Len(s) THEN Len(s) - (n + 1) + 1 ELSE 0
        /\ \A i \in 1 .. Len(s) - (n + 1) + 1 : b[i] = s[(n + 1) + i - 1]
    BY <1>1, <2>1, SubSeqProperties
  <2>3. \A i \in 1 .. Len(s) - n : b[i] = s[n + i]
    <3> TAKE i \in 1 .. Len(s) - n
    <3>1. i \in 1 .. Len(s) - (n + 1) + 1 /\ (n + 1) + i - 1 = n + i
      BY <1>1
    <3> QED BY <3>1, <2>2
  <2>4. Len(b) = Len(s) - n
    <3> HIDE DEF b
    <3>1. Len(s) \in Nat /\ n \in Nat /\ n <= Len(s)
      BY <1>1
    <3>2. CASE n + 1 <= Len(s)
      <4>1. Len(b) = Len(s) - (n + 1) + 1
        BY <2>2, <3>2
      <4> QED BY <4>1, <3>1
    <3>3. CASE n = Len(s)
      <4>1. ~(n + 1 <= Len(s))
        BY <3>1, <3>3
      <4>2. Len(b) = 0
        BY <2>2, <4>1
      <4> QED BY <4>2, <3>3, <3>1
    <3> QED BY <3>1, <3>2, <3>3
  <2> HIDE DEF b
  <2> QED BY <2>2, <2>3, <2>4
<1>4. DOMAIN a = 1 .. n /\ DOMAIN b = 1 .. Len(s) - n
  BY <1>2, <1>3, LenProperties
<1> HIDE DEF a, b
<1>5. Range(a) \subseteq Range(s)
  BY <1>1, <1>2, <1>4 DEF Range
<1>6. Range(b) \subseteq Range(s)
  <2> SUFFICES ASSUME NEW i \in 1 .. Len(s) - n PROVE b[i] \in Range(s)
    BY <1>4 DEF Range
  <2>1. n + i \in DOMAIN s
    BY <1>1
  <2> QED BY <2>1, <1>3 DEF Range
<1>7. ASSUME IsInjective(s)
      PROVE  IsInjective(a) /\ IsInjective(b) /\ Range(a) \cap Range(b) = {}
  <2>1. IsInjective(a)
    BY <1>1, <1>2, <1>4, <1>7 DEF IsInjective
  <2>2. IsInjective(b)
    <3> SUFFICES ASSUME NEW i \in DOMAIN b, NEW j \in DOMAIN b, b[i] = b[j]
                 PROVE  i = j
      BY DEF IsInjective
    <3>1. s[n + i] = s[n + j] /\ n + i \in DOMAIN s /\ n + j \in DOMAIN s
      BY <1>1, <1>3, <1>4
    <3>2. n + i = n + j
      BY <3>1, <1>7 DEF IsInjective
    <3> QED BY <3>2, <1>1, <1>4
  <2>3. ASSUME NEW x \in Range(a), x \in Range(b) PROVE FALSE
    <3>1. PICK i \in 1 .. n : x = s[i]
      BY <1>2, <1>4 DEF Range
    <3>2. PICK j \in 1 .. Len(s) - n : x = s[n + j]
      BY <2>3, <1>3, <1>4 DEF Range
    <3>3. i \in DOMAIN s /\ n + j \in DOMAIN s /\ i # n + j
      BY <1>1
    <3> QED BY <3>1, <3>2, <3>3, <1>7 DEF IsInjective
  <2> QED BY <2>1, <2>2, <2>3
<1>8. ASSUME NEW x \in Range(s), x \notin Range(a) PROVE x \in Range(b)
  <2>1. PICK i \in 1 .. Len(s) : x = s[i]
    BY QueueMember
  <2>2. i \notin 1 .. n
    BY <2>1, <1>2, <1>4, <1>8 DEF Range
  <2>3. i - n \in DOMAIN b /\ b[i - n] = s[n + (i - n)] /\ n + (i - n) = i
    BY <2>2, <1>1, <1>3, <1>4
  <2> QED BY <2>1, <2>3 DEF Range
<1> QED BY <1>2, <1>3, <1>5, <1>6, <1>7, <1>8 DEF a, b

(* Appending events that are not queued yet keeps the queue free of        *)
(* duplicates (IO::Select).                                                *)
LEMMA PushAll ==
  ASSUME NEW S, NEW s \in Seq(S), NEW t \in Seq(S)
  PROVE  /\ s \o t \in Seq(S)
         /\ Len(s \o t) = Len(s) + Len(t)
         /\ Range(s \o t) = Range(s) \cup Range(t)
         /\ IsInjective(s) /\ IsInjective(t) /\ Range(s) \cap Range(t) = {}
              => IsInjective(s \o t)
<1> DEFINE u == s \o t
<1>1. /\ u \in Seq(S) /\ Len(u) = Len(s) + Len(t)
      /\ \A i \in 1 .. Len(s) + Len(t) :
           u[i] = IF i <= Len(s) THEN s[i] ELSE t[i - Len(s)]
  BY ConcatProperties
<1>2. /\ DOMAIN s = 1 .. Len(s) /\ Len(s) \in Nat
      /\ DOMAIN t = 1 .. Len(t) /\ Len(t) \in Nat
      /\ DOMAIN u = 1 .. Len(s) + Len(t)
  BY <1>1, LenProperties
<1>3. Range(u) = Range(s) \cup Range(t)
  BY RangeConcatenation
<1> HIDE DEF u
<1>4. ASSUME IsInjective(s), IsInjective(t), Range(s) \cap Range(t) = {}
      PROVE  IsInjective(u)
  <2> SUFFICES ASSUME NEW i \in DOMAIN u, NEW j \in DOMAIN u, u[i] = u[j]
               PROVE  i = j
    BY DEF IsInjective
  <2>1. \A k \in 1 .. Len(s), l \in 1 .. Len(t) : s[k] # t[l]
    BY <1>2, <1>4 DEF Range
  <2>2. CASE i <= Len(s) /\ j <= Len(s)
    <3>1. s[i] = s[j] /\ i \in DOMAIN s /\ j \in DOMAIN s
      BY <2>2, <1>1, <1>2
    <3> QED BY <3>1, <1>4 DEF IsInjective
  <2>3. CASE i > Len(s) /\ j > Len(s)
    <3>1. /\ t[i - Len(s)] = t[j - Len(s)]
          /\ i - Len(s) \in DOMAIN t /\ j - Len(s) \in DOMAIN t
      BY <2>3, <1>1, <1>2
    <3>2. i - Len(s) = j - Len(s)
      BY <3>1, <1>4 DEF IsInjective
    <3> QED BY <3>2, <1>2
  <2>4. CASE i <= Len(s) /\ j > Len(s)
    <3>1. i \in 1 .. Len(s) /\ j - Len(s) \in 1 .. Len(t)
      BY <2>4, <1>2
    <3> QED BY <3>1, <2>1, <2>4, <1>1, <1>2
  <2>5. CASE i > Len(s) /\ j <= Len(s)
    <3>1. j \in 1 .. Len(s) /\ i - Len(s) \in 1 .. Len(t)
      BY <2>5, <1>2
    <3> QED BY <3>1, <2>1, <2>5, <1>1, <1>2
  <2> QED BY <2>2, <2>3, <2>4, <2>5, <1>2
<1> QED BY <1>1, <1>3, <1>4 DEF u
=============================================================================
