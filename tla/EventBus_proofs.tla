-------------------------- MODULE EventBus_proofs ---------------------------
(***************************************************************************)
(* Proofs about the event bus, for every number of publishers, subscribers,*)
(* projects and events and every size of the ring buffer and the channels. *)
(*                                                                         *)
(* The inductive invariant is EventBusInv.  The ring buffer is described   *)
(* backwards from its head, the way Last reads it.  A call of Publish in   *)
(* progress is described by who of its snapshot is still to be served.     *)
(***************************************************************************)
EXTENDS EventBus, TLAPS

-----------------------------------------------------------------------------
\* Sequences without repetition.

LEMMA InToSet ==
    ASSUME NEW S, NEW s \in Seq(S)
    PROVE  /\ DOMAIN s = 1..Len(s) /\ ToSet(s) \subseteq S
           /\ \A i \in 1..Len(s) : s[i] \in ToSet(s)
           /\ \A x \in ToSet(s) : \E i \in 1..Len(s) : s[i] = x
           /\ s # <<>> => ToSet(s) # {}
  <1>1. DOMAIN s = 1..Len(s) /\ Len(s) \in Nat /\ \A i \in 1..Len(s) : s[i] \in S
    OBVIOUS
  <1>2. ASSUME s # <<>> PROVE ToSet(s) # {}
    <2>1. 1 \in 1..Len(s)
      BY <1>1, <1>2
    <2>2. s[1] \in ToSet(s)
      BY <1>1, <2>1 DEF ToSet
    <2>3. QED
      BY <2>2
  <1>3. QED
    BY <1>1, <1>2 DEF ToSet

LEMMA AppendElements ==
    ASSUME NEW S, NEW s \in Seq(S), NEW e \in S
    PROVE  /\ Append(s, e) \in Seq(S) /\ ToSet(Append(s, e)) = ToSet(s) \cup {e}
           /\ IsInjective(s) /\ e \notin ToSet(s) => IsInjective(Append(s, e))
  <1>1. PICK t \in Seq(S) : t = Append(s, e)
    <2>1. Append(s, e) \in Seq(S)
      OBVIOUS
    <2>2. QED
      BY <2>1
  <1>2. /\ Len(t) = Len(s) + 1 /\ t[Len(s) + 1] = e /\ Len(s) \in Nat
        /\ \A i \in 1..Len(s) : t[i] = s[i]
    BY <1>1
  <1>3. DOMAIN t = 1..Len(s) + 1 /\ DOMAIN s = 1..Len(s)
    BY <1>2
  <1>4. ToSet(t) = ToSet(s) \cup {e}
    <2>1. ASSUME NEW x \in ToSet(t) PROVE x \in ToSet(s) \cup {e}
      <3>1. PICK i \in 1..Len(s) + 1 : t[i] = x
        BY <1>3 DEF ToSet
      <3>2. CASE i = Len(s) + 1
        BY <1>2, <3>1, <3>2
      <3>3. CASE i \in 1..Len(s)
        BY <1>2, <1>3, <3>1, <3>3 DEF ToSet
      <3>4. QED
        BY <1>2, <3>2, <3>3
    <2>2. ASSUME NEW x \in ToSet(s) PROVE x \in ToSet(t)
      BY <1>2, <1>3 DEF ToSet
    <2>3. e \in ToSet(t)
      BY <1>2, <1>3 DEF ToSet
    <2>4. QED
      BY <2>1, <2>2, <2>3
  <1>5. ASSUME IsInjective(s), e \notin ToSet(s) PROVE IsInjective(t)
    <2>1. SUFFICES ASSUME NEW a \in 1..Len(s) + 1, NEW b \in 1..Len(s) + 1, t[a] = t[b] PROVE a = b
      BY <1>3 DEF IsInjective
    <2>2. \A i \in 1..Len(s) : t[i] \in ToSet(s)
      BY <1>2, InToSet
    <2>3. CASE a \in 1..Len(s) /\ b \in 1..Len(s)
      BY <1>2, <1>3, <1>5, <2>1, <2>3 DEF IsInjective
    <2>4. CASE a = Len(s) + 1 \/ b = Len(s) + 1
      BY <1>2, <1>5, <2>1, <2>2, <2>4
    <2>5. QED
      BY <1>2, <2>3, <2>4
  <1>6. QED
    BY <1>1, <1>4, <1>5

LEMMA TailElements ==
    ASSUME NEW S, NEW s \in Seq(S), s # <<>>, IsInjective(s)
    PROVE  /\ Tail(s) \in Seq(S) /\ Head(s) \in S /\ Head(s) \in ToSet(s)
           /\ ToSet(Tail(s)) = ToSet(s) \ {Head(s)} /\ IsInjective(Tail(s))
           /\ Len(s) = 1 <=> Tail(s) = <<>>
  <1>1. PICK t \in Seq(S) : t = Tail(s)
    <2>1. Tail(s) \in Seq(S)
      OBVIOUS
    <2>2. QED
      BY <2>1
  <1>2. /\ Len(t) = Len(s) - 1 /\ Head(s) = s[1] /\ Len(s) \in Nat /\ Len(s) >= 1
        /\ \A i \in 1..Len(s) - 1 : t[i] = s[i + 1]
    BY <1>1
  <1>3. DOMAIN t = 1..Len(s) - 1 /\ DOMAIN s = 1..Len(s)
    BY <1>2
  <1>4. \A a, b \in 1..Len(s) : s[a] = s[b] => a = b
    BY <1>3 DEF IsInjective
  <1>5. ToSet(t) = ToSet(s) \ {Head(s)}
    <2>1. ASSUME NEW x \in ToSet(t) PROVE x \in ToSet(s) \ {Head(s)}
      <3>1. PICK i \in 1..Len(s) - 1 : t[i] = x
        BY <1>3 DEF ToSet
      <3>2. i + 1 \in 1..Len(s) /\ s[i + 1] = x /\ i + 1 # 1 /\ 1 \in 1..Len(s)
        BY <1>2, <3>1
      <3>3. x # s[1]
        BY <1>4, <3>2
      <3>4. QED
        BY <1>2, <1>3, <3>2, <3>3 DEF ToSet
    <2>2. ASSUME NEW x \in ToSet(s), x # Head(s) PROVE x \in ToSet(t)
      <3>1. PICK i \in 1..Len(s) : s[i] = x
        BY <1>3 DEF ToSet
      <3>2. i - 1 \in 1..Len(s) - 1
        BY <1>2, <2>2, <3>1
      <3>3. t[i - 1] = x
        BY <1>2, <3>1, <3>2
      <3>4. QED
        BY <1>3, <3>2, <3>3 DEF ToSet
    <2>3. QED
      BY <2>1, <2>2
  <1>6. IsInjective(t)
    <2>1. SUFFICES ASSUME NEW a \in 1..Len(s) - 1, NEW b \in 1..Len(s) - 1, t[a] = t[b] PROVE a = b
      BY <1>3 DEF IsInjective
    <2>2. s[a + 1] = s[b + 1] /\ a + 1 \in 1..Len(s) /\ b + 1 \in 1..Len(s)
      BY <1>2, <2>1
    <2>3. a + 1 = b + 1
      BY <1>4, <2>2
    <2>4. QED
      BY <2>3
  <1>7. Len(s) = 1 <=> t = <<>>
    BY <1>2
  <1>8. Head(s) \in S /\ Head(s) \in ToSet(s)
    BY <1>2, <1>3 DEF ToSet
  <1>9. QED
    BY <1>1, <1>5, <1>6, <1>7, <1>8

LEMMA RemoveAtElements ==
    ASSUME NEW S, NEW s \in Seq(S), NEW i \in 1..Len(s), IsInjective(s)
    PROVE  /\ RemoveAt(s, i) \in Seq(S) /\ IsInjective(RemoveAt(s, i))
           /\ ToSet(RemoveAt(s, i)) = ToSet(s) \ {s[i]}
  <1>1. Len(s) \in Nat /\ i \in Nat /\ i >= 1 /\ i <= Len(s) /\ DOMAIN s = 1..Len(s)
    OBVIOUS
  <1>2. PICK a \in Seq(S) : /\ a = SubSeq(s, 1, i - 1) /\ Len(a) = i - 1
                            /\ \A j \in 1..i - 1 : a[j] = s[j]
    <2>1. SubSeq(s, 1, i - 1) \in Seq(S)
      BY <1>1
    <2>2. Len(SubSeq(s, 1, i - 1)) = i - 1
      BY <1>1
    <2>3. \A j \in 1..i - 1 : SubSeq(s, 1, i - 1)[j] = s[j]
      BY <1>1
    <2>4. QED
      BY <2>1, <2>2, <2>3
  <1>3. PICK b \in Seq(S) : /\ b = SubSeq(s, i + 1, Len(s)) /\ Len(b) = Len(s) - i
                            /\ \A j \in 1..Len(s) - i : b[j] = s[i + j]
    <2>1. SubSeq(s, i + 1, Len(s)) \in Seq(S)
      BY <1>1
    <2>2. Len(SubSeq(s, i + 1, Len(s))) = Len(s) - i
      <3>1. CASE i = Len(s)
        BY <1>1, <3>1
      <3>2. CASE i < Len(s)
        <4>1. i + 1 <= Len(s) /\ Len(s) - (i + 1) + 1 = Len(s) - i
          BY <1>1, <3>2
        <4>2. QED
          BY <1>1, <4>1
      <3>3. i = Len(s) \/ i < Len(s)
        <4>1. PICK n \in Nat, j \in Nat : n = Len(s) /\ j = i /\ j <= n
          BY <1>1
        <4>2. j = n \/ j < n
          BY <4>1
        <4>3. QED
          BY <4>1, <4>2
      <3>4. QED
        BY <3>1, <3>2, <3>3
    <2>3. \A j \in 1..Len(s) - i : SubSeq(s, i + 1, Len(s))[j] = s[i + j]
      BY <1>1
    <2>4. QED
      BY <2>1, <2>2, <2>3
  <1>4. PICK t \in Seq(S) : t = a \o b
    <2>1. a \o b \in Seq(S)
      OBVIOUS
    <2>2. QED
      BY <2>1
  <1>5. /\ Len(t) = Len(s) - 1
        /\ \A j \in 1..Len(s) - 1 : t[j] = IF j < i THEN s[j] ELSE s[j + 1]
    <2>0. /\ Len(t) = Len(a) + Len(b) /\ Len(a) \in Nat /\ Len(b) \in Nat
          /\ \A j \in 1..Len(t) : t[j] = IF j <= Len(a) THEN a[j] ELSE b[j - Len(a)]
      BY <1>4
    <2>1. Len(t) = Len(s) - 1
      <3>1. Len(a) = i - 1 /\ Len(b) = Len(s) - i
        BY <1>2, <1>3
      <3>2. Len(t) = (i - 1) + (Len(s) - i)
        BY <2>0, <3>1
      <3>3. QED
        BY <1>1, <3>2
    <2>2. ASSUME NEW j \in 1..Len(s) - 1, j < i PROVE t[j] = s[j]
      <3>1. j <= Len(a) /\ j \in 1..i - 1
        BY <1>1, <1>2, <2>2
      <3>2. QED
        BY <1>2, <2>0, <2>1, <3>1
    <2>3. ASSUME NEW j \in 1..Len(s) - 1, ~(j < i) PROVE t[j] = s[j + 1]
      <3>1. t[j] = b[j - (i - 1)]
        <4>1. Len(a) = i - 1 /\ j \in 1..Len(t)
          BY <1>2, <2>1
        <4>2. ~(j <= Len(a))
          BY <1>1, <2>3, <4>1
        <4>3. QED
          BY <2>0, <4>1, <4>2
      <3>2. j - (i - 1) \in 1..Len(s) - i /\ i + (j - (i - 1)) = j + 1
        BY <1>1, <2>3
      <3>3. QED
        BY <1>3, <3>1, <3>2
    <2>4. QED
      BY <2>1, <2>2, <2>3
  <1>6. DOMAIN t = 1..Len(s) - 1
    BY <1>5
  <1>7. \A j, k \in 1..Len(s) : s[j] = s[k] => j = k
    BY <1>1 DEF IsInjective
  <1>8. ASSUME NEW j \in 1..Len(s) - 1
        PROVE  \E k \in 1..Len(s) : t[j] = s[k] /\ k # i /\ k = IF j < i THEN j ELSE j + 1
    <2>1. CASE j < i
      <3>1. j \in 1..Len(s) /\ j # i /\ t[j] = s[j]
        BY <1>1, <1>5, <2>1
      <3>2. QED
        BY <2>1, <3>1
    <2>2. CASE ~(j < i)
      <3>1. j + 1 \in 1..Len(s) /\ j + 1 # i /\ t[j] = s[j + 1]
        BY <1>1, <1>5, <2>2
      <3>2. QED
        BY <2>2, <3>1
    <2>3. QED
      BY <2>1, <2>2
  <1>9. IsInjective(t)
    <2>1. SUFFICES ASSUME NEW j \in 1..Len(s) - 1, NEW k \in 1..Len(s) - 1, t[j] = t[k] PROVE j = k
      BY <1>6 DEF IsInjective
    <2>2. PICK m \in 1..Len(s) : t[j] = s[m] /\ m = IF j < i THEN j ELSE j + 1
      BY <1>8
    <2>3. PICK n \in 1..Len(s) : t[k] = s[n] /\ n = IF k < i THEN k ELSE k + 1
      BY <1>8
    <2>4. m = n
      BY <1>7, <2>1, <2>2, <2>3
    <2>5. QED
      BY <1>1, <2>2, <2>3, <2>4
  <1>10. ToSet(t) = ToSet(s) \ {s[i]}
    <2>1. ASSUME NEW x \in ToSet(t) PROVE x \in ToSet(s) \ {s[i]}
      <3>1. PICK j \in 1..Len(s) - 1 : t[j] = x
        BY <1>6 DEF ToSet
      <3>2. PICK k \in 1..Len(s) : t[j] = s[k] /\ k # i
        BY <1>8
      <3>3. QED
        BY <1>1, <1>7, <3>1, <3>2 DEF ToSet
    <2>2. ASSUME NEW x \in ToSet(s), x # s[i] PROVE x \in ToSet(t)
      <3>1. PICK k \in 1..Len(s) : s[k] = x /\ k # i
        BY <1>1, <2>2 DEF ToSet
      <3>2. CASE k < i
        <4>1. k \in 1..Len(s) - 1 /\ t[k] = x
          BY <1>1, <1>5, <3>1, <3>2
        <4>2. QED
          BY <1>6, <4>1 DEF ToSet
      <3>3. CASE k > i
        <4>1. k - 1 \in 1..Len(s) - 1 /\ ~(k - 1 < i) /\ (k - 1) + 1 = k
          BY <1>1, <3>1, <3>3
        <4>2. t[k - 1] = x
          BY <1>5, <3>1, <4>1
        <4>3. QED
          BY <1>6, <4>1, <4>2 DEF ToSet
      <3>4. QED
        BY <1>1, <3>1, <3>2, <3>3
    <2>3. QED
      BY <2>1, <2>2
  <1>11. QED
    BY <1>2, <1>3, <1>4, <1>9, <1>10 DEF RemoveAt

\* The consumer moves an event from the channel to what it has read, and a
\* publisher adds one: what a subscriber was given is the same, or one longer.
LEMMA GivenMoves ==
    ASSUME NEW S, NEW r \in Seq(S), NEW c \in Seq(S), c # <<>>
    PROVE  Append(r, Head(c)) \o Tail(c) = r \o c
  OBVIOUS

LEMMA GivenGrows ==
    ASSUME NEW S, NEW r \in Seq(S), NEW c \in Seq(S), NEW e \in S
    PROVE  r \o Append(c, e) = Append(r \o c, e)
  OBVIOUS

-----------------------------------------------------------------------------
\* The ring buffer.

RingType == [buf : [0..RingSize-1 -> 0..MaxEvents], head : 0..RingSize-1, full : BOOLEAN]

\* The slots are used in a circle.
LEMMA Around ==
    ASSUME NEW R \in Nat, R # 0, NEW a \in Nat, a < R + R
    PROVE  \E i \in 0..R-1 : i = a % R /\ (a < R => i = a) /\ (a >= R => i = a - R)
  <1>1. a < R => a % R = a
    OBVIOUS
  <1>2. a >= R => a % R = a - R
    OBVIOUS
  <1>3. a < R => a \in 0..R-1
    OBVIOUS
  <1>4. a >= R => a - R \in 0..R-1
    OBVIOUS
  <1>5. QED
    BY <1>1, <1>2, <1>3, <1>4

LEMMA RingPush ==
    ASSUME NEW r \in RingType, NEW s \in Seq(EventIDs), NEW e \in EventIDs, RingHolds(r, s)
    PROVE  push(r, e) \in RingType /\ RingHolds(push(r, e), Append(s, e))
  <1>1. PICK R \in Nat : R = RingSize /\ R # 0
    BY EventBusAssumption
  <1>2. PICK h \in 0..R-1 : h = r.head
    BY <1>1 DEF RingType
  <1>3. PICK g \in 0..R-1 : /\ g = (r.head + 1) % RingSize
                            /\ h = R - 1 => g = 0
                            /\ h # R - 1 => g = h + 1
    <2>1. PICK x \in Nat : x = h + 1 /\ x < R + R
      BY <1>1
    <2>2. PICK i \in 0..R-1 : i = x % R /\ (x < R => i = x) /\ (x >= R => i = x - R)
      BY <1>1, <2>1, Around
    <2>3. i = (r.head + 1) % RingSize
      BY <1>1, <1>2, <2>1, <2>2
    <2>4. (x < R => i = x) /\ (x >= R => i = x - R)
      BY <2>2
    <2>5. (h = R - 1 => i = 0) /\ (h # R - 1 => i = h + 1)
      BY <1>1, <2>1, <2>4
    <2>6. QED
      BY <2>3, <2>5
  <1>4. PICK b \in [0..R-1 -> 0..MaxEvents] : b = [r.buf EXCEPT ![r.head] = e]
    <2>1. r.buf \in [0..R-1 -> 0..MaxEvents] /\ e \in 0..MaxEvents
      BY <1>1, EventBusAssumption DEF RingType, EventIDs
    <2>2. QED
      BY <2>1
  <1>5. /\ b[h] = e
        /\ \A i \in 0..R-1 : i # h => b[i] = r.buf[i]
    BY <1>1, <1>2, <1>4 DEF RingType
  <1>6. PICK f \in BOOLEAN : f <=> (r.full \/ g = 0)
    OBVIOUS
  <1>7. push(r, e).buf = b /\ push(r, e).head = g /\ (push(r, e).full <=> f) /\ push(r, e) \in RingType
    BY <1>1, <1>3, <1>4, <1>6 DEF push, RingType
  <1>8. PICK n \in Nat : n = Len(s)
    OBVIOUS
  <1>9. PICK t \in Seq(EventIDs) : /\ t = Append(s, e) /\ Len(t) = n + 1 /\ t[n + 1] = e
                                   /\ \A i \in 1..n : t[i] = s[i]
    <2>1. Append(s, e) \in Seq(EventIDs)
      OBVIOUS
    <2>2. QED
      BY <1>8, <2>1
  <1>10. /\ r.full <=> n >= R
         /\ ~r.full => h = n
         /\ \A k \in 0..R-1 : k < n => r.buf[(h + R - 1 - k) % R] = s[n - k]
    BY <1>1, <1>2, <1>8 DEF RingHolds
  <1>11. (f <=> n + 1 >= R) /\ (~f => g = n + 1)
    <2>1. (r.full <=> n >= R) /\ (~r.full => h = n)
      BY <1>10
    <2>2. (h = R - 1 => g = 0) /\ (h # R - 1 => g = h + 1)
      BY <1>3
    <2>3. CASE r.full
      BY <1>6, <2>1, <2>3
    <2>4. CASE ~r.full
      <3>1. h = n /\ ~(n >= R) /\ (f <=> g = 0)
        BY <1>6, <2>1, <2>4
      <3>2. QED
        BY <1>1, <2>2, <3>1
    <2>5. QED
      BY <2>3, <2>4
  <1>12. ASSUME NEW k \in 0..R-1, k < n + 1
         PROVE  b[(g + R - 1 - k) % R] = t[n + 1 - k]
    <2>1. PICK y \in Nat : y = g + R - 1 - k /\ y < R + R
      BY <1>1
    <2>2. PICK j \in 0..R-1 : j = y % R /\ (y < R => j = y) /\ (y >= R => j = y - R)
      BY <1>1, <2>1, Around
    <2>3. (y < R => j = y) /\ (y >= R => j = y - R)
      BY <2>2
    <2>4. (h = R - 1 => g = 0) /\ (h # R - 1 => g = h + 1)
      BY <1>3
    <2>5. SUFFICES b[j] = t[n + 1 - k]
      BY <2>1, <2>2
    <2>6. CASE k = 0
      <3>1. j = h /\ n + 1 - k = n + 1
        BY <1>1, <2>1, <2>3, <2>4, <2>6
      <3>2. QED
        BY <1>5, <1>9, <3>1
    <2>7. CASE k # 0
      <3>1. k - 1 \in 0..R-1 /\ k - 1 < n /\ n - (k - 1) = n + 1 - k /\ n + 1 - k \in 1..n
        BY <1>1, <1>12, <2>7
      <3>2. PICK x \in Nat : x = h + R - 1 - (k - 1) /\ x < R + R
        BY <1>1, <2>7
      <3>3. PICK i \in 0..R-1 : i = x % R /\ (x < R => i = x) /\ (x >= R => i = x - R)
        BY <1>1, <3>2, Around
      <3>4. (x < R => i = x) /\ (x >= R => i = x - R)
        BY <3>3
      <3>5. i = j /\ i # h
        BY <1>1, <2>1, <2>3, <2>4, <2>7, <3>2, <3>4
      <3>6. r.buf[i] = s[n - (k - 1)]
        BY <1>10, <3>1, <3>2, <3>3
      <3>7. QED
        BY <1>5, <1>9, <3>1, <3>5, <3>6
    <2>8. QED
      BY <2>6, <2>7
  <1>13. QED
    BY <1>1, <1>7, <1>9, <1>11, <1>12 DEF RingHolds

\* Last of the ring buffer.
LEMMA RingLast ==
    ASSUME NEW r \in RingType, NEW s \in Seq(EventIDs), RingHolds(r, s), NEW n \in Nat \ {0}
    PROVE  LET held == CHOOSE k \in {n, RingSize, Len(s)} : \A j \in {n, RingSize, Len(s)} : k <= j
           IN  last(r, n) = SubSeq(s, Len(s) - held + 1, Len(s))
  <1>1. PICK R \in Nat : R = RingSize /\ R # 0
    BY EventBusAssumption
  <1>2. PICK c \in Nat : c = Len(s)
    OBVIOUS
  <1>3. PICK h \in 0..R-1 : h = r.head
    BY <1>1 DEF RingType
  <1>4. PICK m : m = CHOOSE k \in {n, RingSize, Len(s)} : \A j \in {n, RingSize, Len(s)} : k <= j
    OBVIOUS
  <1>5. m \in {n, R, c} /\ m <= n /\ m <= R /\ m <= c /\ m \in Nat
    <2>1. \E k \in {n, R, c} : \A j \in {n, R, c} : k <= j
      OBVIOUS
    <2>2. m \in {n, R, c} /\ \A j \in {n, R, c} : m <= j
      BY <1>1, <1>2, <1>4, <2>1
    <2>3. QED
      BY <2>2
  <1>6. /\ r.full <=> c >= R
        /\ ~r.full => h = c
        /\ \A k \in 0..R-1 : k < c => r.buf[(h + R - 1 - k) % R] = s[c - k]
    BY <1>1, <1>2, <1>3 DEF RingHolds
  <1>7. PICK v \in Nat : v = (IF r.full THEN RingSize ELSE r.head)
    BY <1>1, <1>3
  <1>8. (IF n > v THEN v ELSE n) = m
    BY <1>1, <1>3, <1>5, <1>6, <1>7
  <1>9. last(r, n) = [k \in 1..m |-> r.buf[(h + R - 1 - (m - k)) % R]]
    BY <1>1, <1>3, <1>7, <1>8 DEF last
  <1>10. SubSeq(s, c - m + 1, c) = [k \in 1..m |-> s[c - m + k]]
    <2>1. c - (c - m + 1) + 1 = m /\ c - m + 1 \in Nat
      BY <1>5
    <2>2. \A k \in 1..m : (c - m + 1) + k - 1 = c - m + k
      BY <1>5
    <2>3. QED
      BY <1>2, <1>5, <2>1, <2>2
  <1>11. ASSUME NEW k \in 1..m PROVE r.buf[(h + R - 1 - (m - k)) % R] = s[c - m + k]
    <2>1. m - k \in 0..R-1 /\ m - k < c /\ c - (m - k) = c - m + k
      BY <1>5
    <2>2. QED
      BY <1>6, <2>1
  <1>12. last(r, n) = SubSeq(s, c - m + 1, c)
    BY <1>9, <1>10, <1>11
  <1>13. QED
    BY <1>2, <1>4, <1>12

-----------------------------------------------------------------------------
\* The steps: what they do, and the types.

PubType == [event : 0..MaxEvents, rest : Seq(Subscribers), allDelivered : BOOLEAN]

LEMMA PubFields ==
    ASSUME TypeOK, NEW q \in Publishers
    PROVE  /\ pub[q] \in PubType /\ pub[q].event \in 0..MaxEvents /\ pub[q].rest \in Seq(Subscribers)
           /\ pub[q].allDelivered \in BOOLEAN
  BY DEF TypeOK, PubType

LEMMA GivenType ==
    ASSUME TypeOK, NEW s \in Subscribers
    PROVE  Given(s) \in Seq(EventIDs) /\ ToSet(Given(s)) \subseteq EventIDs
  <1>1. received[s] \in Seq(EventIDs) /\ ch[s] \in Seq(EventIDs)
    BY DEF TypeOK
  <1>2. Given(s) \in Seq(EventIDs)
    BY <1>1 DEF Given
  <1>3. QED
    BY <1>2, InToSet

\* What the critical section of Publish does.
LEMMA PublishEffect ==
    ASSUME TypeOK, NEW q \in Publishers, NEW p \in Projects, Publish(q, p)
    PROVE  /\ nextEventID \in EventIDs /\ nextEventID' = nextEventID + 1
           /\ \A o \in Publishers \ {q} : pub'[o] = pub[o]
           /\ pub' \in [Publishers -> PubType]
           /\ \/ /\ subs[p] = <<>> /\ pub' = pub /\ offered' = offered
                 /\ reported' = [reported EXCEPT ![nextEventID] = "false"]
              \/ /\ subs[p] # <<>> /\ reported' = reported /\ pub'[q] # IdlePub
                 /\ pub'[q].event = nextEventID /\ pub'[q].rest = subs[p] /\ pub'[q].allDelivered
                 /\ offered' = offered \cup {<<nextEventID, s>> : s \in ToSet(subs[p])}
  <1>1. nextEventID \in EventIDs /\ nextEventID' = nextEventID + 1 /\ nextEventID \in 0..MaxEvents
    BY EventBusAssumption DEF TypeOK, Publish, EventIDs
  <1>2. pub \in [Publishers -> PubType] /\ subs[p] \in Seq(Subscribers)
    BY DEF TypeOK, PubType
  <1>3. CASE subs[p] = <<>>
    BY <1>1, <1>2, <1>3 DEF Publish
  <1>4. CASE subs[p] # <<>>
    <2>1. PICK y \in PubType : y = [event |-> nextEventID, rest |-> subs[p], allDelivered |-> TRUE]
      <3>1. [event |-> nextEventID, rest |-> subs[p], allDelivered |-> TRUE] \in PubType
        BY <1>1, <1>2 DEF PubType
      <3>2. QED
        BY <3>1
    <2>2. y.event = nextEventID /\ y.rest = subs[p] /\ y.allDelivered
      BY <2>1
    <2>3. y # IdlePub
      BY <1>4, <2>2 DEF IdlePub
    <2>4. /\ pub' = [pub EXCEPT ![q] = y] /\ reported' = reported
          /\ offered' = offered \cup {<<nextEventID, s>> : s \in ToSet(subs[p])}
      BY <1>4, <2>1 DEF Publish
    <2>5. QED
      BY <1>1, <1>2, <1>4, <2>2, <2>3, <2>4
  <1>5. QED
    BY <1>3, <1>4

\* What a step through the snapshot does.
LEMMA StepEffect ==
    ASSUME TypeOK, NEW q \in Publishers, NEW accepted \in BOOLEAN, Step(q, accepted),
           pub[q].rest # <<>>, IsInjective(pub[q].rest)
    PROVE  /\ pub' \in [Publishers -> PubType] /\ \A o \in Publishers \ {q} : pub'[o] = pub[o]
           /\ \/ /\ Tail(pub[q].rest) = <<>> /\ pub'[q] = IdlePub
                 /\ reported' = [reported EXCEPT ![pub[q].event] =
                                    IF pub[q].allDelivered /\ accepted THEN "true" ELSE "false"]
              \/ /\ Tail(pub[q].rest) # <<>> /\ pub'[q] # IdlePub /\ reported' = reported
                 /\ pub'[q].event = pub[q].event /\ pub'[q].rest = Tail(pub[q].rest)
                 /\ pub'[q].allDelivered <=> pub[q].allDelivered /\ accepted
  <1>1. pub \in [Publishers -> PubType]
    BY DEF TypeOK, PubType
  <1>2. PICK c \in PubType : c = pub[q]
    BY <1>1
  <1>3. c.event \in 0..MaxEvents /\ c.rest \in Seq(Subscribers) /\ c.allDelivered \in BOOLEAN
    BY DEF PubType
  <1>4. PICK t \in Seq(Subscribers) : t = Tail(c.rest) /\ (Len(c.rest) = 1 <=> t = <<>>)
    BY <1>2, <1>3, TailElements
  <1>5. CASE Len(c.rest) = 1
    <2>1. IdlePub \in PubType
      BY EventBusAssumption DEF IdlePub, PubType
    <2>2. /\ pub' = [pub EXCEPT ![q] = IdlePub]
          /\ reported' = [reported EXCEPT ![pub[q].event] =
                             IF pub[q].allDelivered /\ accepted THEN "true" ELSE "false"]
      BY <1>2, <1>5 DEF Step
    <2>3. QED
      BY <1>1, <1>2, <1>4, <1>5, <2>1, <2>2
  <1>6. CASE Len(c.rest) # 1
    <2>1. PICK ok \in BOOLEAN : ok = (c.allDelivered /\ accepted)
      BY <1>3
    <2>2. [c EXCEPT !.rest = t, !.allDelivered = ok] \in PubType
      BY DEF PubType
    <2>3. PICK y \in PubType : /\ y = [c EXCEPT !.rest = t, !.allDelivered = ok]
                               /\ y.event = c.event /\ y.rest = t /\ y.allDelivered = ok
      BY <2>2 DEF PubType
    <2>4. pub' = [pub EXCEPT ![q].rest = Tail(@), ![q].allDelivered = (c.allDelivered /\ accepted)] /\ reported' = reported
      BY <1>2, <1>6 DEF Step
    <2>5. pub' = [pub EXCEPT ![q] = y]
      BY <1>1, <1>2, <1>4, <2>1, <2>3, <2>4
    <2>6. t # <<>> /\ y # IdlePub
      BY <1>4, <1>6, <2>3 DEF IdlePub
    <2>7. /\ pub'[q] = y /\ pub' \in [Publishers -> PubType] /\ \A o \in Publishers \ {q} : pub'[o] = pub[o]
      BY <1>1, <2>5
    <2>8. y.allDelivered <=> c.allDelivered /\ accepted
      BY <2>1, <2>3
    <2>9. QED
      BY <1>2, <1>4, <2>3, <2>4, <2>6, <2>7, <2>8
  <1>7. QED
    BY <1>5, <1>6

\* A call in progress is in the middle of its snapshot.
LEMMA InProgress ==
    ASSUME TypeOK, PubInv, NEW q \in Publishers, pub[q] # IdlePub
    PROVE  /\ pub[q].rest # <<>> /\ IsInjective(pub[q].rest) /\ Head(pub[q].rest) \in Subscribers
           /\ pub[q].event \in EventIDs
           /\ Head(pub[q].rest) \in ToSet(pub[q].rest)
           /\ ToSet(Tail(pub[q].rest)) = ToSet(pub[q].rest) \ {Head(pub[q].rest)}
           /\ IsInjective(Tail(pub[q].rest))
  <1>1. pub[q].rest # <<>> /\ IsInjective(pub[q].rest) /\ pub[q].event \in 1..nextEventID-1
    BY DEF PubInv, PubOK
  <1>2. pub[q].event \in EventIDs
    BY <1>1, EventBusAssumption DEF TypeOK, EventIDs
  <1>3. QED
    BY <1>1, <1>2, PubFields, TailElements

LEMMA TypePublish ==
    ASSUME TypeOK, NEW q \in Publishers, NEW p \in Projects, Publish(q, p)
    PROVE  TypeOK'
  <1>1. PICK e \in EventIDs : e = nextEventID
    BY PublishEffect
  <1>2. nextEventID' \in 1..MaxEvents+1
    BY <1>1, PublishEffect, EventBusAssumption DEF EventIDs
  <1>3. pub' \in [Publishers -> PubType]
    BY PublishEffect
  <1>4. published' \in [Projects -> Seq(EventIDs)]
    <2>1. published \in [Projects -> Seq(EventIDs)] /\ published' = [published EXCEPT ![p] = Append(published[p], e)]
      BY <1>1 DEF TypeOK, Publish
    <2>2. Append(published[p], e) \in Seq(EventIDs)
      BY <2>1
    <2>3. QED
      BY <2>1, <2>2
  <1>5. offered' \subseteq EventIDs \X Subscribers
    <2>1. ToSet(subs[p]) \subseteq Subscribers
      BY InToSet DEF TypeOK
    <2>2. offered \subseteq EventIDs \X Subscribers
      BY DEF TypeOK
    <2>3. offered' = offered \/ offered' = offered \cup {<<e, s>> : s \in ToSet(subs[p])}
      BY <1>1, PublishEffect
    <2>4. QED
      BY <2>1, <2>2, <2>3
  <1>6. reported' \in [EventIDs -> {"no", "true", "false"}]
    <2>1. reported \in [EventIDs -> {"no", "true", "false"}]
      BY DEF TypeOK
    <2>2. reported' = reported \/ reported' = [reported EXCEPT ![e] = "false"]
      BY <1>1, PublishEffect
    <2>3. QED
      BY <2>1, <2>2
  <1>7. perProject' \in [Projects -> RingType]
    <2>1. perProject \in [Projects -> RingType]
      BY DEF TypeOK, RingType
    <2>2. push(perProject[p], e) \in RingType
      <3>1. PICK r \in RingType : r = perProject[p]
        BY <2>1
      <3>2. [r.buf EXCEPT ![r.head] = e] \in [0..RingSize-1 -> 0..MaxEvents]
        BY EventBusAssumption DEF RingType, EventIDs
      <3>3. (r.head + 1) % RingSize \in 0..RingSize-1
        BY EventBusAssumption DEF RingType
      <3>4. (r.full \/ (r.head + 1) % RingSize = 0) \in BOOLEAN
        OBVIOUS
      <3>5. QED
        BY <3>1, <3>2, <3>3, <3>4 DEF push, RingType
    <2>3. perProject' = [perProject EXCEPT ![p] = push(perProject[p], e)]
      BY <1>1, <2>1 DEF Publish
    <2>4. QED
      BY <2>1, <2>2, <2>3
  <1>8. UNCHANGED <<subs, ch, chState, panicked, received>>
    BY DEF Publish
  <1>9. QED
    BY <1>2, <1>3, <1>4, <1>5, <1>6, <1>7, <1>8 DEF TypeOK, PubType, RingType

LEMMA TypePublishStep ==
    ASSUME TypeOK, PubInv, NEW q \in Publishers, PublishStep(q)
    PROVE  TypeOK'
  <1>1. CASE SendOnClosed(q)
    BY <1>1 DEF SendOnClosed, TypeOK
  <1>2. ASSUME NEW accepted \in BOOLEAN, Step(q, accepted), pub[q] # IdlePub
        PROVE  pub' \in [Publishers -> PubType] /\ reported' \in [EventIDs -> {"no", "true", "false"}]
    <2>1. pub[q].rest # <<>> /\ IsInjective(pub[q].rest) /\ pub[q].event \in EventIDs
      BY <1>2, InProgress
    <2>2. pub' \in [Publishers -> PubType]
      BY <1>2, <2>1, StepEffect
    <2>3. PICK v \in {"true", "false"} : reported' = reported \/ reported' = [reported EXCEPT ![pub[q].event] = v]
      BY <1>2, <2>1, StepEffect
    <2>4. QED
      BY <2>1, <2>2, <2>3 DEF TypeOK
  <1>3. CASE Drop(q)
    BY <1>2, <1>3 DEF Drop, TypeOK, PubType
  <1>4. CASE Deliver(q)
    <2>1. PICK s \in Subscribers : s = Head(pub[q].rest)
      BY <1>4, InProgress DEF Deliver
    <2>2. PICK e \in EventIDs : e = pub[q].event
      BY <1>4, InProgress DEF Deliver
    <2>3. ch' = [ch EXCEPT ![s] = Append(ch[s], e)] /\ Len(ch[s]) < SubscriberBuffer
      BY <1>4, <2>1, <2>2 DEF Deliver
    <2>4. ch \in [Subscribers -> Seq(EventIDs)] /\ \A t \in Subscribers : Len(ch[t]) <= SubscriberBuffer
      BY DEF TypeOK
    <2>5. PICK x \in Seq(EventIDs) : x = Append(ch[s], e) /\ Len(x) = Len(ch[s]) + 1
      <3>1. Append(ch[s], e) \in Seq(EventIDs) /\ Len(Append(ch[s], e)) = Len(ch[s]) + 1
        BY <2>4
      <3>2. QED
        BY <3>1
    <2>6. Len(x) <= SubscriberBuffer
      <3>1. Len(ch[s]) \in Nat /\ SubscriberBuffer \in Nat
        BY <2>4, EventBusAssumption
      <3>2. QED
        BY <2>3, <2>5, <3>1
    <2>7. ch' = [ch EXCEPT ![s] = x]
      BY <2>3, <2>5
    <2>8. ch' \in [Subscribers -> Seq(EventIDs)] /\ \A t \in Subscribers : Len(ch'[t]) <= SubscriberBuffer
      BY <2>4, <2>6, <2>7
    <2>9. pub' \in [Publishers -> PubType] /\ reported' \in [EventIDs -> {"no", "true", "false"}]
      BY <1>2, <1>4 DEF Deliver
    <2>10. UNCHANGED <<nextEventID, subs, perProject, chState, panicked, published, received, offered>>
      BY <1>4 DEF Deliver
    <2>11. QED
      BY <2>8, <2>9, <2>10 DEF TypeOK, PubType
  <1>5. QED
    BY <1>1, <1>3, <1>4 DEF PublishStep

LEMMA TypeSubscriber ==
    ASSUME TypeOK, SubsInv, NEW s \in Subscribers,
           (\E p \in Projects : Subscribe(s, p)) \/ Unsubscribe(s) \/ Consume(s)
    PROVE  TypeOK'
  <1>1. ASSUME NEW p \in Projects, Subscribe(s, p) PROVE TypeOK'
    <2>1. subs \in [Projects -> Seq(Subscribers)] /\ subs' = [subs EXCEPT ![p] = Append(subs[p], s)]
      BY <1>1 DEF TypeOK, Subscribe
    <2>2. Append(subs[p], s) \in Seq(Subscribers)
      BY <2>1
    <2>3. subs' \in [Projects -> Seq(Subscribers)]
      BY <2>1, <2>2
    <2>4. QED
      BY <1>1, <2>3 DEF Subscribe, TypeOK
  <1>2. CASE Unsubscribe(s)
    <2>1. PICK o \in Projects : \E i \in DOMAIN subs[o] : subs' = [subs EXCEPT ![o] = RemoveAt(subs[o], i)]
      BY <1>2 DEF Unsubscribe, TypeOK
    <2>2. subs \in [Projects -> Seq(Subscribers)] /\ IsInjective(subs[o]) /\ DOMAIN subs[o] = 1..Len(subs[o])
      BY DEF TypeOK, SubsInv
    <2>3. PICK i \in 1..Len(subs[o]) : subs' = [subs EXCEPT ![o] = RemoveAt(subs[o], i)]
      BY <2>1, <2>2
    <2>4. RemoveAt(subs[o], i) \in Seq(Subscribers)
      BY <2>2, RemoveAtElements
    <2>5. subs' \in [Projects -> Seq(Subscribers)]
      BY <2>2, <2>3, <2>4
    <2>6. QED
      BY <1>2, <2>5 DEF Unsubscribe, TypeOK
  <1>3. CASE Consume(s)
    <2>1. ch \in [Subscribers -> Seq(EventIDs)] /\ received \in [Subscribers -> Seq(EventIDs)] /\ ch[s] # <<>>
      BY <1>3 DEF TypeOK, Consume
    <2>2. PICK x \in Seq(EventIDs), e \in EventIDs : x = Tail(ch[s]) /\ e = Head(ch[s]) /\ Len(x) = Len(ch[s]) - 1
      <3>1. Tail(ch[s]) \in Seq(EventIDs) /\ Head(ch[s]) \in EventIDs /\ Len(Tail(ch[s])) = Len(ch[s]) - 1
        BY <2>1
      <3>2. QED
        BY <3>1
    <2>3. ch' = [ch EXCEPT ![s] = x] /\ received' = [received EXCEPT ![s] = Append(received[s], e)]
      BY <1>3, <2>1, <2>2 DEF Consume
    <2>4. Append(received[s], e) \in Seq(EventIDs)
      BY <2>1
    <2>5. Len(x) <= SubscriberBuffer
      <3>1. Len(ch[s]) \in Nat /\ SubscriberBuffer \in Nat /\ Len(ch[s]) <= SubscriberBuffer
        BY <2>1, EventBusAssumption DEF TypeOK
      <3>2. QED
        BY <2>2, <3>1
    <2>6. /\ ch' \in [Subscribers -> Seq(EventIDs)] /\ received' \in [Subscribers -> Seq(EventIDs)]
          /\ \A t \in Subscribers : Len(ch'[t]) <= SubscriberBuffer
      BY <2>1, <2>3, <2>4, <2>5 DEF TypeOK
    <2>7. QED
      BY <1>3, <2>6 DEF Consume, TypeOK
  <1>4. QED
    BY <1>1, <1>2, <1>3

-----------------------------------------------------------------------------
\* The subscriber lists and the ring buffers.

LEMMA SubsStep ==
    ASSUME TypeOK, SubsInv, PubInv, [Next]_vars
    PROVE  SubsInv'
  <1>1. CASE UNCHANGED <<subs, chState>>
    BY <1>1 DEF SubsInv
  <1>2. ASSUME NEW s \in Subscribers, NEW p \in Projects, Subscribe(s, p) PROVE SubsInv'
    <2>1. PICK x \in Seq(Subscribers) : /\ x = Append(subs[p], s) /\ ToSet(x) = ToSet(subs[p]) \cup {s}
                                        /\ s \notin ToSet(subs[p]) => IsInjective(x)
      <3>1. subs[p] \in Seq(Subscribers) /\ IsInjective(subs[p])
        BY DEF TypeOK, SubsInv
      <3>2. QED
        BY <3>1, AppendElements
    <2>2. subs' = [subs EXCEPT ![p] = x] /\ chState' = [chState EXCEPT ![s] = "open"] /\ chState[s] = "none"
      BY <1>2, <2>1 DEF Subscribe
    <2>3. \A o \in Projects : s \notin ToSet(subs[o])
      BY <2>2 DEF SubsInv
    <2>4. subs'[p] = x /\ \A o \in Projects \ {p} : subs'[o] = subs[o]
      BY <2>2 DEF TypeOK
    <2>5. \A o \in Projects : ToSet(subs[o]) \subseteq Subscribers
      BY InToSet DEF TypeOK
    <2>6. chState'[s] = "open" /\ \A t \in Subscribers \ {s} : chState'[t] = chState[t]
      BY <2>2 DEF TypeOK
    <2>7. \A o \in Projects : IsInjective(subs'[o])
      BY <2>1, <2>3, <2>4 DEF SubsInv
    <2>8. \A o \in Projects : \A t \in ToSet(subs'[o]) : chState'[t] = "open"
      BY <2>1, <2>3, <2>4, <2>5, <2>6 DEF SubsInv
    <2>9. \A n, o \in Projects : n # o => ToSet(subs'[n]) \cap ToSet(subs'[o]) = {}
      <3>1. SUFFICES ASSUME NEW n \in Projects, NEW o \in Projects, n # o
                     PROVE  ToSet(subs'[n]) \cap ToSet(subs'[o]) = {}
        OBVIOUS
      <3>2. ToSet(subs[n]) \cap ToSet(subs[o]) = {}
        BY <3>1 DEF SubsInv
      <3>3. \A m \in Projects : ToSet(subs'[m]) = ToSet(subs[m]) \/ (m = p /\ ToSet(subs'[m]) = ToSet(subs[m]) \cup {s})
        BY <2>1, <2>4
      <3>4. QED
        BY <2>3, <3>1, <3>2, <3>3
    <2>10. QED
      BY <2>7, <2>8, <2>9 DEF SubsInv
  <1>3. ASSUME NEW s \in Subscribers, Unsubscribe(s) PROVE SubsInv'
    <2>1. PICK p \in Projects : \E i \in DOMAIN subs[p] : subs[p][i] = s /\ subs' = [subs EXCEPT ![p] = RemoveAt(subs[p], i)]
      BY <1>3 DEF Unsubscribe, TypeOK
    <2>2. subs[p] \in Seq(Subscribers) /\ IsInjective(subs[p]) /\ DOMAIN subs[p] = 1..Len(subs[p])
      BY DEF TypeOK, SubsInv
    <2>3. PICK i \in 1..Len(subs[p]) : subs[p][i] = s /\ subs' = [subs EXCEPT ![p] = RemoveAt(subs[p], i)]
      BY <2>1, <2>2
    <2>4. PICK x : x = RemoveAt(subs[p], i) /\ IsInjective(x) /\ ToSet(x) = ToSet(subs[p]) \ {s}
      BY <2>2, <2>3, RemoveAtElements
    <2>5. s \in ToSet(subs[p])
      BY <2>2, <2>3, InToSet
    <2>6. subs'[p] = x /\ \A o \in Projects \ {p} : subs'[o] = subs[o]
      BY <2>3, <2>4 DEF TypeOK
    <2>7. \A o \in Projects \ {p} : s \notin ToSet(subs[o])
      BY <2>5 DEF SubsInv
    <2>8. chState' = [chState EXCEPT ![s] = "closed"]
      BY <1>3 DEF Unsubscribe
    <2>9. \A t \in Subscribers \ {s} : chState'[t] = chState[t]
      BY <2>8 DEF TypeOK
    <2>10. \A o \in Projects : ToSet(subs[o]) \subseteq Subscribers
      BY InToSet DEF TypeOK
    <2>11. \A o \in Projects : ToSet(subs'[o]) \subseteq ToSet(subs[o]) \ {s}
      BY <2>4, <2>6, <2>7
    <2>12. \A o \in Projects : IsInjective(subs'[o])
      BY <2>4, <2>6 DEF SubsInv
    <2>13. \A o \in Projects : \A t \in ToSet(subs'[o]) : chState'[t] = "open"
      BY <2>9, <2>10, <2>11 DEF SubsInv
    <2>14. \A n, o \in Projects : n # o => ToSet(subs'[n]) \cap ToSet(subs'[o]) = {}
      <3>1. SUFFICES ASSUME NEW n \in Projects, NEW o \in Projects, n # o
                     PROVE  ToSet(subs'[n]) \cap ToSet(subs'[o]) = {}
        OBVIOUS
      <3>2. ToSet(subs[n]) \cap ToSet(subs[o]) = {}
        BY <3>1 DEF SubsInv
      <3>3. QED
        BY <2>11, <3>2
    <2>15. QED
      BY <2>12, <2>13, <2>14 DEF SubsInv
  <1>4. CASE \E s \in Subscribers : Consume(s)
    BY <1>1, <1>4 DEF Consume
  <1>5. CASE \E q \in Publishers : (\E p \in Projects : Publish(q, p)) \/ PublishStep(q)
    BY <1>1, <1>5 DEF Publish, PublishStep, Deliver, Drop, SendOnClosed
  <1>6. QED
    BY <1>1, <1>2, <1>3, <1>4, <1>5 DEF Next, vars

LEMMA RingStep ==
    ASSUME TypeOK, RingInv, [Next]_vars
    PROVE  RingInv'
  <1>1. CASE UNCHANGED <<perProject, published>>
    BY <1>1 DEF RingInv, RingHolds
  <1>2. ASSUME NEW q \in Publishers, NEW p \in Projects, Publish(q, p) PROVE RingInv'
    <2>1. PICK e \in EventIDs : e = nextEventID
      BY <1>2, PublishEffect
    <2>2. PICK r \in RingType, s \in Seq(EventIDs) : r = perProject[p] /\ s = published[p]
      BY DEF TypeOK, RingType
    <2>3. RingHolds(r, s)
      BY <2>2 DEF RingInv
    <2>4. RingHolds(push(r, e), Append(s, e))
      BY <2>3, RingPush
    <2>5. /\ perProject' = [perProject EXCEPT ![p] = push(r, e)]
          /\ published' = [published EXCEPT ![p] = Append(s, e)]
      BY <1>2, <2>1, <2>2 DEF Publish, TypeOK
    <2>6. /\ perProject'[p] = push(r, e) /\ published'[p] = Append(s, e)
          /\ \A o \in Projects \ {p} : perProject'[o] = perProject[o] /\ published'[o] = published[o]
      BY <2>5 DEF TypeOK
    <2>7. ASSUME NEW o \in Projects PROVE RingHolds(perProject'[o], published'[o])
      BY <2>4, <2>6 DEF RingInv
    <2>8. QED
      BY <2>7 DEF RingInv, RingHolds
  <1>3. CASE \E q \in Publishers : PublishStep(q)
    BY <1>1, <1>3 DEF PublishStep, Deliver, Drop, SendOnClosed
  <1>4. CASE \E s \in Subscribers : (\E p \in Projects : Subscribe(s, p)) \/ Unsubscribe(s) \/ Consume(s)
    BY <1>1, <1>4 DEF Subscribe, Unsubscribe, Consume
  <1>5. QED
    BY <1>1, <1>2, <1>3, <1>4 DEF Next, vars

-----------------------------------------------------------------------------
\* What Publish reports.

Reports == PubInv /\ EventInv /\ PublishTellsTheTruth

LEMMA ReportsKept ==
    ASSUME Reports, UNCHANGED <<nextEventID, pub, offered, reported>>,
           \A s \in Subscribers : Given(s)' = Given(s),
           TypeOK
    PROVE  Reports'
  <1>1. ASSUME NEW q \in Publishers, pub[q] # IdlePub PROVE ToSet(pub[q].rest) \subseteq Subscribers
    BY PubFields, InToSet
  <1>2. PubInv'
    BY <1>1 DEF Reports, PubInv, PubOK
  <1>3. EventInv'
    BY DEF Reports, EventInv
  <1>4. PublishTellsTheTruth'
    BY DEF Reports, PublishTellsTheTruth
  <1>5. QED
    BY <1>2, <1>3, <1>4 DEF Reports

LEMMA ReportsSubscriber ==
    ASSUME TypeOK, Reports, NEW s \in Subscribers,
           (\E p \in Projects : Subscribe(s, p)) \/ Unsubscribe(s) \/ Consume(s)
    PROVE  Reports'
  <1>1. CASE (\E p \in Projects : Subscribe(s, p)) \/ Unsubscribe(s)
    BY <1>1, ReportsKept DEF Subscribe, Unsubscribe, Given
  <1>2. CASE Consume(s)
    <2>1. ch \in [Subscribers -> Seq(EventIDs)] /\ received \in [Subscribers -> Seq(EventIDs)] /\ ch[s] # <<>>
      BY <1>2 DEF TypeOK, Consume
    <2>2. PICK x, y : x = Tail(ch[s]) /\ y = Append(received[s], Head(ch[s]))
      OBVIOUS
    <2>3. y \o x = received[s] \o ch[s]
      BY <2>1, <2>2, GivenMoves
    <2>4. ch' = [ch EXCEPT ![s] = x] /\ received' = [received EXCEPT ![s] = y]
      BY <1>2, <2>2, <2>1 DEF Consume
    <2>5. ASSUME NEW t \in Subscribers PROVE Given(t)' = Given(t)
      <3>1. CASE t = s
        BY <2>1, <2>3, <2>4, <3>1 DEF Given
      <3>2. CASE t # s
        BY <2>1, <2>4, <3>2 DEF Given
      <3>3. QED
        BY <3>1, <3>2
    <2>6. UNCHANGED <<nextEventID, pub, offered, reported>>
      BY <1>2 DEF Consume
    <2>7. QED
      BY <2>5, <2>6, ReportsKept
  <1>3. QED
    BY <1>1, <1>2

\* A new event: nobody has it, and nobody else speaks of it.
LEMMA ReportsPublish ==
    ASSUME TypeOK, SubsInv, Reports, NEW q \in Publishers, NEW p \in Projects, Publish(q, p)
    PROVE  Reports'
  <1>1. PICK e \in EventIDs : e = nextEventID /\ nextEventID' = e + 1
    BY PublishEffect
  <1>2. \A s \in Subscribers : Given(s)' = Given(s)
    BY DEF Publish, Given
  <1>3. \A s \in Subscribers : <<e, s>> \notin offered /\ e \notin ToSet(Given(s))
    BY <1>1 DEF Reports, EventInv, PublishTellsTheTruth, EventIDs
  <1>4. ASSUME NEW o \in Publishers, pub[o] # IdlePub
        PROVE  /\ pub[o].event \in 1..e-1 /\ pub[o].event # e /\ pub[o].event \in EventIDs
               /\ ToSet(pub[o].rest) \subseteq Subscribers
    <2>1. pub[o].event \in 1..e-1
      BY <1>1, <1>4 DEF Reports, PubInv, PubOK
    <2>2. ToSet(pub[o].rest) \subseteq Subscribers
      BY PubFields, InToSet
    <2>3. QED
      BY <2>1, <2>2, EventBusAssumption DEF EventIDs
  <1>5. pub[q] = IdlePub /\ \A o \in Publishers \ {q} : pub'[o] = pub[o]
    BY PublishEffect DEF Publish
  <1>6. CASE subs[p] = <<>>
    <2>1. pub' = pub /\ offered' = offered /\ reported' = [reported EXCEPT ![e] = "false"]
      BY <1>1, <1>6, PublishEffect
    <2>2. reported'[e] = "false" /\ \A x \in EventIDs \ {e} : reported'[x] = reported[x]
      BY <2>1 DEF TypeOK
    <2>3. PubInv'
      <3>1. SUFFICES ASSUME NEW o \in Publishers, pub[o] # IdlePub
                     PROVE  pub[o].event \in 1..nextEventID'-1 /\ reported'[pub[o].event] = "no"
        BY <1>2, <1>4, <2>1 DEF Reports, PubInv, PubOK
      <3>2. QED
        BY <1>1, <1>4, <2>2, <3>1 DEF Reports, PubInv, PubOK, EventIDs
    <2>4. EventInv'
      BY <1>1, <2>1, <2>2 DEF Reports, EventInv, EventIDs
    <2>5. PublishTellsTheTruth'
      BY <1>2, <1>3, <2>1, <2>2 DEF Reports, PublishTellsTheTruth
    <2>6. QED
      BY <2>3, <2>4, <2>5 DEF Reports
  <1>7. CASE subs[p] # <<>>
    <2>1. /\ reported' = reported /\ pub'[q] # IdlePub
          /\ pub'[q].event = e /\ pub'[q].rest = subs[p] /\ pub'[q].allDelivered
          /\ offered' = offered \cup {<<e, s>> : s \in ToSet(subs[p])}
      BY <1>1, <1>7, PublishEffect
    <2>2. ToSet(subs[p]) \subseteq Subscribers /\ IsInjective(subs[p])
      BY InToSet DEF TypeOK, SubsInv
    <2>3. /\ \A s \in Subscribers : <<e, s>> \in offered' <=> s \in ToSet(subs[p])
          /\ \A x \in EventIDs \ {e}, s \in Subscribers : <<x, s>> \in offered' <=> <<x, s>> \in offered
      BY <1>3, <2>1
    <2>4. PubInv'
      <3>1. ASSUME NEW o \in Publishers \ {q}, pub[o] # IdlePub
            PROVE  /\ pub[o].event \in 1..nextEventID'-1
                   /\ reported'[pub[o].event] = "no"
                   /\ pub[o].rest # <<>> /\ IsInjective(pub[o].rest)
                   /\ \A s \in ToSet(pub[o].rest) : <<pub[o].event, s>> \in offered' /\ pub[o].event \notin ToSet(Given(s)')
                   /\ pub[o].allDelivered =>
                         \A s \in Subscribers :
                            <<pub[o].event, s>> \in offered' /\ s \notin ToSet(pub[o].rest) => pub[o].event \in ToSet(Given(s)')
                   /\ ~pub[o].allDelivered =>
                         \E s \in Subscribers : /\ <<pub[o].event, s>> \in offered' /\ s \notin ToSet(pub[o].rest)
                                                /\ pub[o].event \notin ToSet(Given(s)')
        <4>1. PICK x \in EventIDs : x = pub[o].event /\ x # e /\ x \in 1..e-1
          BY <1>4, <3>1
        <4>2. \A s \in Subscribers : (<<x, s>> \in offered' <=> <<x, s>> \in offered) /\ Given(s)' = Given(s)
          BY <1>2, <2>3, <4>1
        <4>3. x \in 1..nextEventID'-1
          BY <1>1, <4>1 DEF EventIDs
        <4>4. ToSet(pub[o].rest) \subseteq Subscribers
          BY <1>4, <3>1
        <4>5. QED
          BY <2>1, <3>1, <4>1, <4>2, <4>3, <4>4 DEF Reports, PubInv, PubOK
      <3>2. /\ e \in 1..nextEventID'-1
            /\ reported'[e] = "no"
            /\ subs[p] # <<>> /\ IsInjective(subs[p])
            /\ \A s \in ToSet(subs[p]) : <<e, s>> \in offered' /\ e \notin ToSet(Given(s)')
            /\ \A s \in Subscribers : <<e, s>> \in offered' => s \in ToSet(subs[p])
        <4>1. e \in 1..nextEventID'-1
          BY <1>1 DEF EventIDs
        <4>2. reported'[e] = "no"
          BY <1>1, <2>1 DEF Reports, EventInv, EventIDs
        <4>3. QED
          BY <1>2, <1>3, <1>7, <2>2, <2>3, <4>1, <4>2
      <3>3. ASSUME NEW o \in Publishers \ {q}, pub'[o] # IdlePub PROVE PubOK(o)'
        <4>1. pub'[o] = pub[o]
          BY <1>5
        <4>2. QED
          BY <3>1, <3>3, <4>1 DEF PubOK
      <3>4. PubOK(q)'
        BY <2>1, <3>2 DEF PubOK
      <3>5. QED
        BY <3>3, <3>4 DEF PubInv
    <2>5. EventInv'
      <3>1. \A o, m \in Publishers : o # m /\ pub'[o] # IdlePub /\ pub'[m] # IdlePub => pub'[o].event # pub'[m].event
        BY <1>4, <1>5, <2>1 DEF Reports, EventInv
      <3>2. \A x \in EventIDs : x >= nextEventID' => reported'[x] = "no" /\ \A s \in Subscribers : <<x, s>> \notin offered'
        BY <1>1, <2>1, <2>3 DEF Reports, EventInv, EventIDs
      <3>3. QED
        BY <3>1, <3>2 DEF EventInv
    <2>6. PublishTellsTheTruth'
      <3>1. \A s \in Subscribers : IsInjective(Given(s)') /\ \A x \in ToSet(Given(s)') : <<x, s>> \in offered'
        BY <1>2, <2>1 DEF Reports, PublishTellsTheTruth
      <3>2. reported'[e] = "no"
        BY <1>1, <2>1 DEF Reports, EventInv, EventIDs
      <3>3. \A x \in EventIDs \ {e} :
              /\ reported'[x] = "true" =>
                    /\ \A s \in Subscribers : <<x, s>> \in offered' => x \in ToSet(Given(s)')
                    /\ \E s \in Subscribers : <<x, s>> \in offered'
              /\ reported'[x] = "false" =>
                    \/ \A s \in Subscribers : <<x, s>> \notin offered'
                    \/ \E s \in Subscribers : <<x, s>> \in offered' /\ x \notin ToSet(Given(s)')
        BY <1>2, <2>1, <2>3 DEF Reports, PublishTellsTheTruth
      <3>4. QED
        BY <3>1, <3>2, <3>3 DEF PublishTellsTheTruth
    <2>7. QED
      BY <2>4, <2>5, <2>6 DEF Reports
  <1>8. QED
    BY <1>6, <1>7

\* The subscriber at the head of a snapshot is served: it accepts the event or
\* it does not, and nobody else gets anything.
LEMMA ReportsServed ==
    ASSUME TypeOK, Reports, NEW q \in Publishers, pub[q] # IdlePub, NEW accepted \in BOOLEAN, Step(q, accepted),
           UNCHANGED <<nextEventID, offered>>,
           NEW s \in Subscribers, s = Head(pub[q].rest),
           \A t \in Subscribers \ {s} : Given(t)' = Given(t),
           IsInjective(Given(s)'),
           accepted => ToSet(Given(s)') = ToSet(Given(s)) \cup {pub[q].event},
           ~accepted => ToSet(Given(s)') = ToSet(Given(s))
    PROVE  Reports'
  <1>1. PubInv /\ EventInv /\ PublishTellsTheTruth
    BY DEF Reports
  <1>2. PICK e \in EventIDs : e = pub[q].event
    BY <1>1, InProgress
  <1>3. PICK rest, left : rest = ToSet(pub[q].rest) /\ left = ToSet(Tail(pub[q].rest))
    OBVIOUS
  <1>4. s \in rest /\ left = rest \ {s} /\ rest \subseteq Subscribers
    <2>1. rest \subseteq Subscribers
      BY <1>3, PubFields, InToSet
    <2>2. QED
      BY <1>1, <1>3, <2>1, InProgress
  <1>5. /\ e \in 1..nextEventID-1 /\ reported[e] = "no"
        /\ \A t \in rest : <<e, t>> \in offered /\ e \notin ToSet(Given(t))
        /\ pub[q].allDelivered => \A t \in Subscribers : <<e, t>> \in offered /\ t \notin rest => e \in ToSet(Given(t))
        /\ ~pub[q].allDelivered => \E t \in Subscribers : <<e, t>> \in offered /\ t \notin rest /\ e \notin ToSet(Given(t))
    BY <1>1, <1>2, <1>3 DEF PubInv, PubOK
  <1>6. \A x \in EventIDs \ {e}, t \in Subscribers : x \in ToSet(Given(t)') <=> x \in ToSet(Given(t))
    BY <1>2
  <1>7. accepted => e \in ToSet(Given(s)')
    BY <1>2
  <1>8. ~accepted => e \notin ToSet(Given(s)')
    BY <1>4, <1>5
  <1>9. \A t \in Subscribers \ {s} : e \in ToSet(Given(t)') <=> e \in ToSet(Given(t))
    OBVIOUS
  \* What holds of the snapshot without its head.
  <1>10. /\ \A t \in left : <<e, t>> \in offered /\ e \notin ToSet(Given(t)')
         /\ pub[q].allDelivered /\ accepted =>
               \A t \in Subscribers : <<e, t>> \in offered /\ t \notin left => e \in ToSet(Given(t)')
         /\ ~(pub[q].allDelivered /\ accepted) =>
               \E t \in Subscribers : <<e, t>> \in offered /\ t \notin left /\ e \notin ToSet(Given(t)')
    <2>1. \A t \in left : <<e, t>> \in offered /\ e \notin ToSet(Given(t)')
      BY <1>4, <1>5, <1>9
    <2>2. ASSUME pub[q].allDelivered, accepted, NEW t \in Subscribers, <<e, t>> \in offered, t \notin left
          PROVE  e \in ToSet(Given(t)')
      BY <1>4, <1>5, <1>7, <1>9, <2>2
    <2>3. ASSUME ~accepted PROVE \E t \in Subscribers : <<e, t>> \in offered /\ t \notin left /\ e \notin ToSet(Given(t)')
      BY <1>4, <1>5, <1>8, <2>3
    <2>4. ASSUME ~pub[q].allDelivered
          PROVE  \E t \in Subscribers : <<e, t>> \in offered /\ t \notin left /\ e \notin ToSet(Given(t)')
      <3>1. PICK t \in Subscribers : <<e, t>> \in offered /\ t \notin rest /\ e \notin ToSet(Given(t))
        BY <1>5, <2>4
      <3>2. t # s /\ t \notin left
        BY <1>4, <3>1
      <3>3. QED
        BY <1>9, <3>1, <3>2
    <2>5. QED
      BY <2>1, <2>2, <2>3, <2>4
  <1>11. pub[q].rest # <<>> /\ IsInjective(pub[q].rest)
    BY <1>1, InProgress
  <1>12. \A o \in Publishers \ {q} : pub'[o] = pub[o]
    BY <1>11, StepEffect
  <1>13. /\ \A x \in EventIDs \ {e} : reported'[x] = reported[x]
         /\ reported'[e] = "no" \/ (Tail(pub[q].rest) = <<>> /\ pub'[q] = IdlePub)
    <2>1. reported \in [EventIDs -> {"no", "true", "false"}]
      BY DEF TypeOK
    <2>2. CASE reported' = reported
      BY <1>5, <2>2
    <2>3. CASE reported' # reported
      BY <1>2, <1>11, <2>1, <2>3, StepEffect
    <2>4. QED
      BY <2>2, <2>3
  <1>14. PubInv'
    <2>1. ASSUME NEW o \in Publishers \ {q}, pub'[o] # IdlePub PROVE PubOK(o)'
      <3>1. pub'[o] = pub[o]
        BY <1>12
      <3>2. PICK x \in EventIDs : x = pub[o].event /\ x # e
        BY <1>1, <1>2, <2>1, <3>1, InProgress DEF EventInv
      <3>3. ToSet(pub[o].rest) \subseteq Subscribers
        BY PubFields, InToSet
      <3>4. PubOK(o)
        BY <1>1, <2>1, <3>1 DEF PubInv
      <3>5. \A t \in Subscribers : x \in ToSet(Given(t)') <=> x \in ToSet(Given(t))
        BY <1>6, <3>2
      <3>6. reported'[x] = reported[x]
        BY <1>13, <3>2
      <3>7. QED
        BY <3>1, <3>2, <3>3, <3>4, <3>5, <3>6 DEF PubOK
    <2>2. ASSUME pub'[q] # IdlePub PROVE PubOK(q)'
      <3>1. /\ Tail(pub[q].rest) # <<>> /\ pub'[q].event = e /\ pub'[q].rest = Tail(pub[q].rest)
            /\ pub'[q].allDelivered <=> pub[q].allDelivered /\ accepted
            /\ reported'[e] = "no"
        BY <1>2, <1>11, <1>13, <2>2, StepEffect
      <3>2. IsInjective(Tail(pub[q].rest))
        BY <1>1, InProgress
      <3>3. QED
        BY <1>3, <1>5, <1>10, <3>1, <3>2 DEF PubOK
    <2>3. QED
      BY <2>1, <2>2 DEF PubInv
  <1>15. EventInv'
    <2>1. \A o \in Publishers : pub'[o] # IdlePub => pub[o] # IdlePub /\ pub'[o].event = pub[o].event
      BY <1>11, <1>12, StepEffect
    <2>2. \A o, m \in Publishers : o # m /\ pub'[o] # IdlePub /\ pub'[m] # IdlePub => pub'[o].event # pub'[m].event
      BY <1>1, <2>1 DEF EventInv
    <2>3. \A x \in EventIDs : x >= nextEventID => x # e
      BY <1>5 DEF TypeOK, EventIDs
    <2>4. \A x \in EventIDs : x >= nextEventID' => reported'[x] = "no" /\ \A t \in Subscribers : <<x, t>> \notin offered'
      BY <1>1, <1>13, <2>3 DEF EventInv
    <2>5. QED
      BY <2>2, <2>4 DEF EventInv
  <1>16. PublishTellsTheTruth'
    <2>1. ASSUME NEW t \in Subscribers PROVE IsInjective(Given(t)') /\ \A x \in ToSet(Given(t)') : <<x, t>> \in offered'
      <3>1. CASE t = s
        <4>1. ToSet(Given(s)') \subseteq ToSet(Given(s)) \cup {e} /\ <<e, s>> \in offered
          BY <1>2, <1>4, <1>5
        <4>2. QED
          BY <1>1, <3>1, <4>1 DEF PublishTellsTheTruth
      <3>2. CASE t # s
        BY <1>1, <3>2 DEF PublishTellsTheTruth
      <3>3. QED
        BY <3>1, <3>2
    <2>2. ASSUME NEW x \in EventIDs \ {e}
          PROVE  /\ reported'[x] = "true" =>
                       /\ \A t \in Subscribers : <<x, t>> \in offered' => x \in ToSet(Given(t)')
                       /\ \E t \in Subscribers : <<x, t>> \in offered'
                 /\ reported'[x] = "false" =>
                       \/ \A t \in Subscribers : <<x, t>> \notin offered'
                       \/ \E t \in Subscribers : <<x, t>> \in offered' /\ x \notin ToSet(Given(t)')
      <3>1. \A t \in Subscribers : x \in ToSet(Given(t)') <=> x \in ToSet(Given(t))
        BY <1>6
      <3>2. reported'[x] = reported[x] /\ offered' = offered
        BY <1>13
      <3>3. /\ reported[x] = "true" =>
                  /\ \A t \in Subscribers : <<x, t>> \in offered => x \in ToSet(Given(t))
                  /\ \E t \in Subscribers : <<x, t>> \in offered
            /\ reported[x] = "false" =>
                  \/ \A t \in Subscribers : <<x, t>> \notin offered
                  \/ \E t \in Subscribers : <<x, t>> \in offered /\ x \notin ToSet(Given(t))
        BY <1>1 DEF PublishTellsTheTruth
      <3>4. QED
        BY <3>1, <3>2, <3>3
    <2>3. /\ reported'[e] = "true" =>
                /\ \A t \in Subscribers : <<e, t>> \in offered' => e \in ToSet(Given(t)')
                /\ \E t \in Subscribers : <<e, t>> \in offered'
          /\ reported'[e] = "false" =>
                \E t \in Subscribers : <<e, t>> \in offered' /\ e \notin ToSet(Given(t)')
      <3>1. CASE reported'[e] = "no"
        BY <3>1
      <3>2. CASE reported'[e] # "no"
        <4>1. Tail(pub[q].rest) = <<>>
          BY <1>13, <3>2
        <4>2. left = {}
          BY <1>3, <4>1 DEF ToSet
        <4>3. reported'[e] = IF pub[q].allDelivered /\ accepted THEN "true" ELSE "false"
          <5>1. reported' = [reported EXCEPT ![e] = IF pub[q].allDelivered /\ accepted THEN "true" ELSE "false"]
            BY <1>2, <1>11, <4>1, StepEffect
          <5>2. QED
            BY <5>1 DEF TypeOK
        <4>4. <<e, s>> \in offered /\ offered' = offered
          BY <1>4, <1>5
        <4>5. QED
          BY <1>10, <4>2, <4>3, <4>4
      <3>3. QED
        BY <3>1, <3>2
    <2>4. QED
      BY <2>1, <2>2, <2>3 DEF PublishTellsTheTruth
  <1>17. QED
    BY <1>14, <1>15, <1>16 DEF Reports

LEMMA ReportsPublishStep ==
    ASSUME TypeOK, Reports, NEW q \in Publishers, PublishStep(q)
    PROVE  Reports'
  <1>1. PubInv /\ PublishTellsTheTruth
    BY DEF Reports
  <1>2. CASE SendOnClosed(q)
    BY <1>2, ReportsKept DEF SendOnClosed, Given
  <1>3. CASE Drop(q)
    <2>1. PICK s \in Subscribers : s = Head(pub[q].rest)
      BY <1>1, <1>3, InProgress DEF Drop
    <2>2. \A t \in Subscribers : Given(t)' = Given(t)
      BY <1>3 DEF Drop, Given
    <2>3. IsInjective(Given(s)') /\ ToSet(Given(s)') = ToSet(Given(s)) /\ FALSE \in BOOLEAN
      BY <1>1, <2>2 DEF PublishTellsTheTruth
    <2>4. pub[q] # IdlePub /\ Step(q, FALSE) /\ UNCHANGED <<nextEventID, offered>>
      BY <1>3 DEF Drop
    <2>5. QED
      BY <2>1, <2>2, <2>3, <2>4, ReportsServed
  <1>4. CASE Deliver(q)
    <2>1. PICK s \in Subscribers, e \in EventIDs : s = Head(pub[q].rest) /\ e = pub[q].event
      BY <1>1, <1>4, InProgress DEF Deliver
    <2>2. ch \in [Subscribers -> Seq(EventIDs)] /\ received \in [Subscribers -> Seq(EventIDs)]
      BY DEF TypeOK
    <2>3. ch' = [ch EXCEPT ![s] = Append(ch[s], e)] /\ received' = received
      BY <1>4, <2>1 DEF Deliver
    <2>4. \A t \in Subscribers \ {s} : Given(t)' = Given(t)
      BY <2>2, <2>3 DEF Given
    <2>5. Given(s)' = Append(Given(s), e)
      <3>1. ch'[s] = Append(ch[s], e)
        BY <2>2, <2>3
      <3>2. received[s] \o Append(ch[s], e) = Append(received[s] \o ch[s], e)
        BY <2>2, GivenGrows
      <3>3. QED
        BY <2>3, <3>1, <3>2 DEF Given
    <2>6. e \notin ToSet(Given(s)) /\ IsInjective(Given(s))
      <3>1. s \in ToSet(pub[q].rest)
        BY <1>1, <1>4, <2>1, InProgress DEF Deliver
      <3>2. QED
        BY <1>1, <1>4, <2>1, <3>1 DEF Deliver, PubInv, PubOK, PublishTellsTheTruth
    <2>7. IsInjective(Given(s)') /\ ToSet(Given(s)') = ToSet(Given(s)) \cup {e}
      BY <2>5, <2>6, GivenType, AppendElements
    <2>8. pub[q] # IdlePub /\ Step(q, TRUE) /\ UNCHANGED <<nextEventID, offered>> /\ TRUE \in BOOLEAN
      BY <1>4 DEF Deliver
    <2>9. QED
      BY <2>1, <2>4, <2>7, <2>8, ReportsServed
  <1>5. QED
    BY <1>2, <1>3, <1>4 DEF PublishStep

-----------------------------------------------------------------------------
\* The theorems.

LEMMA EventBusInitially == Init => EventBusInv
  <1> SUFFICES ASSUME Init PROVE EventBusInv
    OBVIOUS
  <1>1. PICK R \in Nat : R = RingSize /\ R # 0
    BY EventBusAssumption
  <1>2. newRingBuffer \in RingType
    BY EventBusAssumption DEF newRingBuffer, RingType
  <1>3. IdlePub \in PubType
    BY EventBusAssumption DEF IdlePub, PubType
  <1>4. TypeOK
    <2>1. nextEventID \in 1..MaxEvents+1
      BY EventBusAssumption DEF Init
    <2>2. <<>> \in Seq(Subscribers) /\ <<>> \in Seq(EventIDs) /\ Len(<<>>) = 0
      OBVIOUS
    <2>3. perProject \in [Projects -> RingType] /\ pub \in [Publishers -> PubType]
      BY <1>2, <1>3 DEF Init
    <2>4. \A s \in Subscribers : Len(ch[s]) <= SubscriberBuffer
      BY <2>2, EventBusAssumption DEF Init
    <2>5. QED
      BY <2>1, <2>2, <2>3, <2>4 DEF Init, TypeOK, RingType, PubType
  <1>5. RingInv
    <2>1. newRingBuffer.full = FALSE /\ newRingBuffer.head = 0
      BY DEF newRingBuffer
    <2>2. RingHolds(newRingBuffer, <<>>)
      BY <1>1, <2>1 DEF RingHolds
    <2>3. QED
      BY <2>2 DEF Init, RingInv
  <1>6. SubsInv
    BY DEF Init, SubsInv, ToSet, IsInjective
  <1>7. PubInv /\ EventInv
    BY DEF Init, PubInv, EventInv
  <1>8. PublishTellsTheTruth
    <2>1. \A s \in Subscribers : Given(s) = <<>>
      BY DEF Init, Given
    <2>2. IsInjective(<<>>) /\ ToSet(<<>>) = {}
      BY DEF IsInjective, ToSet
    <2>3. QED
      BY <2>1, <2>2 DEF Init, PublishTellsTheTruth
  <1>9. QED
    BY <1>4, <1>5, <1>6, <1>7, <1>8 DEF EventBusInv

\* The inductive invariant of the bus holds, whatever publishers, subscribers
\* and consumers do.
THEOREM EventBusInvariant == Spec => []EventBusInv
  <1>1. EventBusInv /\ [Next]_vars => EventBusInv'
    <2> SUFFICES ASSUME EventBusInv, [Next]_vars PROVE EventBusInv'
      OBVIOUS
    <2>1. TypeOK /\ RingInv /\ SubsInv /\ PubInv /\ Reports
      BY DEF EventBusInv, Reports
    <2>2. RingInv' /\ SubsInv'
      BY <2>1, RingStep, SubsStep
    <2>3. TypeOK' /\ Reports'
      <3>1. CASE UNCHANGED vars
        <4>1. TypeOK'
          BY <2>1, <3>1 DEF vars, TypeOK
        <4>2. Reports'
          BY <2>1, <3>1, ReportsKept DEF vars, Given
        <4>3. QED
          BY <4>1, <4>2
      <3>2. ASSUME NEW q \in Publishers, NEW p \in Projects, Publish(q, p) PROVE TypeOK' /\ Reports'
        BY <2>1, <3>2, TypePublish, ReportsPublish
      <3>3. ASSUME NEW q \in Publishers, PublishStep(q) PROVE TypeOK' /\ Reports'
        BY <2>1, <3>3, TypePublishStep, ReportsPublishStep
      <3>4. ASSUME NEW s \in Subscribers, (\E p \in Projects : Subscribe(s, p)) \/ Unsubscribe(s) \/ Consume(s)
            PROVE  TypeOK' /\ Reports'
        BY <2>1, <3>4, TypeSubscriber, ReportsSubscriber
      <3>5. QED
        BY <3>1, <3>2, <3>3, <3>4 DEF Next
    <2>4. QED
      BY <2>2, <2>3 DEF EventBusInv, Reports
  <1>2. QED
    BY <1>1, EventBusInitially, PTL DEF Spec

\* The types of the bus; no channel holds more than subscriberBufferSize.
THEOREM EventBusTypes == Spec => []TypeOK
  <1>1. EventBusInv => TypeOK
    BY DEF EventBusInv
  <1>2. QED
    BY <1>1, EventBusInvariant, PTL

\* Last answers with the most recent events in order for every buffer size and
\* however often the buffer has wrapped.
THEOREM Replay == Spec => []ReplayIsRecent
  <1>1. EventBusInv => ReplayIsRecent
    <2> SUFFICES ASSUME EventBusInv, NEW p \in Projects, NEW n \in 1..RingSize+1
                 PROVE  LET count == Len(published[p])
                            held == CHOOSE k \in {n, RingSize, count} : \A j \in {n, RingSize, count} : k <= j
                        IN  BusLast(p, n) = SubSeq(published[p], count - held + 1, count)
      BY DEF ReplayIsRecent
    <2>1. perProject[p] \in RingType /\ published[p] \in Seq(EventIDs) /\ RingHolds(perProject[p], published[p])
      BY DEF EventBusInv, TypeOK, RingType, RingInv
    <2>2. n \in Nat \ {0}
      BY EventBusAssumption
    <2>3. QED
      BY <2>1, <2>2, RingLast DEF BusLast
  <1>2. QED
    BY <1>1, EventBusInvariant, PTL

\* The bool of Publish is the truth about every subscriber of its snapshot,
\* and nobody is given an event twice, for any number of publishers.
THEOREM TellsTheTruth == Spec => []PublishTellsTheTruth
  <1>1. EventBusInv => PublishTellsTheTruth
    BY DEF EventBusInv
  <1>2. QED
    BY <1>1, EventBusInvariant, PTL

-----------------------------------------------------------------------------
\* What PublishReturns rests on beside the scheduling of its goroutine.

LEMMA SnapshotInitially == Init => SnapshotInv
  <1>1. ASSUME Init, NEW q \in Publishers PROVE ToSet(pub[q].rest) = {}
    BY <1>1 DEF Init, IdlePub, ToSet
  <1>2. QED
    BY <1>1 DEF SnapshotInv

\* A snapshot is copied from a list of open subscribers and only gets shorter,
\* and a subscriber that has subscribed never is one that has not.
LEMMA SnapshotStep ==
    ASSUME EventBusInv, SnapshotInv, [Next]_vars
    PROVE  SnapshotInv'
  <1> SUFFICES ASSUME NEW o \in Publishers, NEW t \in ToSet(pub[o].rest)' PROVE chState'[t] # "none"
    BY DEF SnapshotInv
  <1>1. TypeOK /\ SubsInv /\ PubInv
    BY DEF EventBusInv
  <1>2. pub[o].rest \in Seq(Subscribers) /\ ToSet(pub[o].rest) \subseteq Subscribers
    BY <1>1, PubFields, InToSet
  <1>3. CASE UNCHANGED vars
    BY <1>3 DEF vars, SnapshotInv
  <1>4. ASSUME NEW q \in Publishers, NEW p \in Projects, Publish(q, p) PROVE chState'[t] # "none"
    <2>1. chState' = chState
      BY <1>4 DEF Publish
    <2>2. CASE pub'[o] = pub[o]
      BY <2>1, <2>2 DEF SnapshotInv
    <2>3. CASE pub'[o].rest = subs[p]
      BY <1>1, <2>1, <2>3 DEF SubsInv
    <2>4. QED
      BY <1>1, <1>4, <2>2, <2>3, PublishEffect
  <1>5. ASSUME NEW q \in Publishers, PublishStep(q) PROVE chState'[t] # "none"
    <2>1. chState' = chState
      BY <1>5 DEF PublishStep, Deliver, Drop, SendOnClosed
    <2>2. CASE pub'[o] = pub[o]
      BY <2>1, <2>2 DEF SnapshotInv
    <2>3. CASE pub'[o] # pub[o]
      <3>1. q = o /\ pub[q] # IdlePub /\ (Step(q, TRUE) \/ Step(q, FALSE))
        <4>1. pub[q] # IdlePub /\ (Step(q, TRUE) \/ Step(q, FALSE))
          BY <1>5, <2>3 DEF PublishStep, Deliver, Drop, SendOnClosed
        <4>2. QED
          BY <1>1, <2>3, <4>1, StepEffect, InProgress
      <3>2. pub'[o] = IdlePub \/ pub'[o].rest = Tail(pub[o].rest)
        BY <1>1, <3>1, StepEffect, InProgress
      <3>3. t \in ToSet(pub[o].rest)
        <4>1. CASE pub'[o] = IdlePub
          BY <4>1 DEF IdlePub, ToSet
        <4>2. CASE pub'[o].rest = Tail(pub[o].rest)
          BY <1>1, <3>1, <4>2, InProgress
        <4>3. QED
          BY <3>2, <4>1, <4>2
      <3>4. QED
        BY <2>1, <3>3 DEF SnapshotInv
    <2>4. QED
      BY <2>2, <2>3
  <1>6. ASSUME NEW s \in Subscribers, (\E p \in Projects : Subscribe(s, p)) \/ Unsubscribe(s) \/ Consume(s)
        PROVE  chState'[t] # "none"
    <2>1. pub' = pub
      BY <1>6 DEF Subscribe, Unsubscribe, Consume
    <2>2. chState[t] # "none" /\ t \in Subscribers
      BY <1>2, <2>1 DEF SnapshotInv
    <2>3. \/ chState' = chState
          \/ chState' = [chState EXCEPT ![s] = "open"]
          \/ chState' = [chState EXCEPT ![s] = "closed"]
      BY <1>6 DEF Subscribe, Unsubscribe, Consume
    <2>4. chState \in [Subscribers -> {"none", "open", "closed"}]
      BY <1>1 DEF TypeOK
    <2>5. QED
      BY <2>2, <2>3, <2>4
  <1>7. QED
    BY <1>3, <1>4, <1>5, <1>6 DEF Next

\* PublishStep with the values that it gives its variables as parameters: what the
\* prover has in place of ENABLED PublishStep(q).
Served(q, accepted, calls, reports) ==
    LET c == pub[q]
        ok == c.allDelivered /\ accepted
    IN  IF Len(c.rest) = 1
        THEN /\ calls = [pub EXCEPT ![q] = IdlePub]
             /\ reports = [reported EXCEPT ![c.event] = IF ok THEN "true" ELSE "false"]
        ELSE /\ calls = [pub EXCEPT ![q].rest = Tail(@), ![q].allDelivered = ok]
             /\ reports = reported

StepsTo(q, calls, reports, channels, down) ==
    LET s == Head(pub[q].rest) IN
    /\ ~panicked /\ pub[q] # IdlePub
    /\ \/ /\ chState[s] = "open" /\ Len(ch[s]) < SubscriberBuffer
          /\ channels = [ch EXCEPT ![s] = Append(@, pub[q].event)]
          /\ Served(q, TRUE, calls, reports) /\ down = panicked
       \/ /\ chState[s] = "open" /\ Len(ch[s]) = SubscriberBuffer
          /\ Served(q, FALSE, calls, reports) /\ channels = ch /\ down = panicked
       \/ /\ chState[s] = "closed" /\ down = TRUE
          /\ calls = pub /\ reports = reported /\ channels = ch

CanStep(q) == \E calls, reports, channels, down : StepsTo(q, calls, reports, channels, down)

\* Publish never blocks: a call in progress can take its next step, whatever the
\* consumers have left unread or closed.  The first conjunct says that StepsTo is
\* that step, the second that it has values to go to in every state of the
\* invariant (a select without its default, which waits for a full channel, fails
\* the first).
THEOREM PublishIsNeverHeldUp ==
    /\ \A q \in Publishers :
          PublishStep(q) <=>
             /\ StepsTo(q, pub', reported', ch', panicked')
             /\ UNCHANGED <<nextEventID, subs, perProject, chState, published, received, offered>>
    /\ EventBusInv /\ SnapshotInv =>
          \A q \in Publishers : pub[q] # IdlePub /\ ~panicked => CanStep(q)
  <1>1. ASSUME NEW q \in Publishers
        PROVE  PublishStep(q) <=>
                  /\ StepsTo(q, pub', reported', ch', panicked')
                  /\ UNCHANGED <<nextEventID, subs, perProject, chState, published, received,
                                 offered>>
    <2>1. \A ok \in BOOLEAN : Step(q, ok) <=> Served(q, ok, pub', reported')
      BY DEF Step, Served
    <2>2. QED
      BY <2>1 DEF PublishStep, Deliver, Drop, SendOnClosed, StepsTo
  <1>2. EventBusInv /\ SnapshotInv =>
           \A q \in Publishers : pub[q] # IdlePub /\ ~panicked => CanStep(q)
    <2> SUFFICES ASSUME EventBusInv, SnapshotInv, NEW q \in Publishers, pub[q] # IdlePub, ~panicked
                 PROVE  CanStep(q)
      OBVIOUS
    <2>1. TypeOK /\ PubInv
      BY DEF EventBusInv
    <2>2. PICK s \in Subscribers : s = Head(pub[q].rest) /\ s \in ToSet(pub[q].rest)
      BY <2>1, InProgress
    <2>3. chState[s] \in {"open", "closed"}
      BY <2>1, <2>2 DEF TypeOK, SnapshotInv
    <2>4. Len(ch[s]) < SubscriberBuffer \/ Len(ch[s]) = SubscriberBuffer
      <3>1. ch[s] \in Seq(EventIDs) /\ Len(ch[s]) <= SubscriberBuffer
        BY <2>1 DEF TypeOK
      <3>2. QED
        BY <3>1, EventBusAssumption
    <2>5. \A ok \in BOOLEAN : \E calls, reports : Served(q, ok, calls, reports)
      BY DEF Served
    <2>6. CASE chState[s] = "open" /\ Len(ch[s]) < SubscriberBuffer
      <3>1. PICK calls, reports : Served(q, TRUE, calls, reports)
        BY <2>5
      <3>2. StepsTo(q, calls, reports, [ch EXCEPT ![s] = Append(@, pub[q].event)], panicked)
        BY <2>2, <2>6, <3>1 DEF StepsTo
      <3>3. QED
        BY <3>2 DEF CanStep
    <2>7. CASE chState[s] = "open" /\ Len(ch[s]) = SubscriberBuffer
      <3>1. PICK calls, reports : Served(q, FALSE, calls, reports)
        BY <2>5
      <3>2. StepsTo(q, calls, reports, ch, panicked)
        BY <2>2, <2>7, <3>1 DEF StepsTo
      <3>3. QED
        BY <3>2 DEF CanStep
    <2>8. CASE chState[s] = "closed"
      <3>1. StepsTo(q, pub, reported, ch, TRUE)
        BY <2>2, <2>8 DEF StepsTo
      <3>2. QED
        BY <3>1 DEF CanStep
    <2>9. QED
      BY <2>3, <2>4, <2>6, <2>7, <2>8
  <1>3. QED
    BY <1>1, <1>2

\* So in every reachable state, until a send on a closed channel ends the process.
THEOREM PublishAlwaysHasAStep ==
    Spec => [](\A q \in Publishers : pub[q] # IdlePub /\ ~panicked => CanStep(q))
  <1>1. EventBusInv /\ SnapshotInv =>
           \A q \in Publishers : pub[q] # IdlePub /\ ~panicked => CanStep(q)
    BY PublishIsNeverHeldUp
  <1>2. EventBusInv /\ SnapshotInv /\ [Next]_vars => SnapshotInv'
    BY SnapshotStep
  <1>3. QED
    BY <1>1, <1>2, SnapshotInitially, EventBusInvariant, PTL DEF Spec

\* A call of Publish goes through its snapshot once, whoever runs beside it, so
\* it takes as many steps as the project had subscribers.
THEOREM SnapshotServedOnce == Spec => SnapshotsServedOnce
  <1>1. EventBusInv /\ [Next]_vars => [ServesSnapshotOnce]_vars
    <2> SUFFICES ASSUME EventBusInv, Next, NEW o \in Publishers, pub[o] # IdlePub
                 PROVE  \/ pub'[o] = pub[o]
                        \/ pub'[o] = IdlePub /\ Len(pub[o].rest) = 1
                        \/ pub'[o].event = pub[o].event /\ pub'[o].rest = Tail(pub[o].rest)
      BY DEF ServesSnapshotOnce
    <2>1. TypeOK /\ PubInv
      BY DEF EventBusInv
    <2>2. ASSUME NEW q \in Publishers, NEW p \in Projects, Publish(q, p) PROVE pub'[o] = pub[o]
      <3>1. pub[q] = IdlePub
        BY <2>2 DEF Publish
      <3>2. QED
        BY <2>1, <2>2, <3>1, PublishEffect
    <2>3. ASSUME NEW q \in Publishers, PublishStep(q), pub'[o] # pub[o]
          PROVE  \/ pub'[o] = IdlePub /\ Len(pub[o].rest) = 1
                 \/ pub'[o].event = pub[o].event /\ pub'[o].rest = Tail(pub[o].rest)
      <3>1. pub[q] # IdlePub /\ (Step(q, TRUE) \/ Step(q, FALSE))
        BY <2>3 DEF PublishStep, Deliver, Drop, SendOnClosed
      <3>2. q = o
        BY <2>1, <2>3, <3>1, StepEffect, InProgress
      <3>3. pub[o].rest \in Seq(Subscribers) /\ pub[o].rest # <<>>
        BY <2>1, PubFields, InProgress
      <3>4. Tail(pub[o].rest) = <<>> => Len(pub[o].rest) = 1
        BY <2>1, <3>3, InProgress, TailElements
      <3>5. QED
        BY <2>1, <3>1, <3>2, <3>4, StepEffect, InProgress
    <2>4. ASSUME NEW s \in Subscribers, (\E p \in Projects : Subscribe(s, p)) \/ Unsubscribe(s) \/ Consume(s)
          PROVE  pub'[o] = pub[o]
      BY <2>4 DEF Subscribe, Unsubscribe, Consume
    <2>5. QED
      BY <2>2, <2>3, <2>4 DEF Next
  <1>2. QED
    BY <1>1, EventBusInvariant, PTL DEF Spec, SnapshotsServedOnce
=============================================================================
