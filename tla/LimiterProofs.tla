----------------------------- MODULE LimiterProofs -----------------------------
(***************************************************************************)
(* Theorems about the rate limiter inside the server: whatever is evicted,  *)
(* held across an eviction or created again, a client is let through no     *)
(* more often than its rate and its evictions allow, for every number of    *)
(* requests and clients and every size of the table; and, since it rests on *)
(* the order of that table, type correctness of both processes.             *)
(***************************************************************************)
EXTENDS BinariesProofs, FiniteSetTheorems, WellFoundedInduction

\* Bounded sets of natural numbers have a greatest element.
LEMMA MaxExists ==
  ASSUME NEW n \in Nat, NEW S \in SUBSET (0 .. n), S # {}
  PROVE  Max(S) \in S /\ \A j \in S : j <= Max(S)
<1> DEFINE R == {p \in Nat \X Nat : p[1] < p[2]}
           T == {n - i : i \in S}
<1>1. IsWellFoundedOn(R, Nat)
  <2>1. R = OpToRel(<, Nat)
    BY DEF OpToRel
  <2>2. QED
    BY <2>1, NatLessThanWellFounded
<1>2. T \subseteq Nat /\ T # {}
  <2>1. \A i \in S : n - i \in Nat
    OBVIOUS
  <2>2. T \subseteq Nat
    BY <2>1
  <2>3. PICK i \in S : TRUE
    OBVIOUS
  <2>4. QED
    BY <2>2, <2>3
<1>3. PICK x \in T : \A y \in T : ~(<<y, x>> \in R)
  <2> HIDE DEF R, T
  <2> QED
    BY <1>1, <1>2, WFMin
<1>4. PICK i \in S : x = n - i
  OBVIOUS
<1>5. ASSUME NEW j \in S PROVE j <= i
  <2>1. n - j \in T /\ n - j \in Nat /\ n - i \in Nat
    OBVIOUS
  <2>2. ~(n - j < n - i)
    BY <1>3, <1>4, <2>1
  <2>3. QED
    BY <2>2
<1>6. QED
  BY <1>4, <1>5 DEF Max

--------------------------------------------------------------------------------
(* The table.                                                                 *)

LimiterTyped ==
  /\ stage \in [Request -> Stage]
  /\ client \in [Request -> Client \cup {0}]
  /\ bucket \in [Request -> Request \cup {0}]
  /\ tokens \in [Request -> 0 .. Burst]
  /\ order \in Seq(Entry) /\ Len(order) <= MaxSize
  /\ ticks \in Nat /\ lost \in [Client -> Nat] /\ admitted \in [Client -> Nat]
  /\ since \in [Client -> SUBSET Client]
  /\ \A c \in Client : IsFiniteSet(since[c])
  /\ \A r \in Request : /\ stage[r] \in {"arrived", "counted", "holding"} => client[r] \in Client
                        /\ stage[r] = "holding" => bucket[r] \in Request

\* A hit on entry i moves it to the front and shifts those before it.
LEMMA TouchedTable ==
  ASSUME NEW T \in Seq(Entry), NEW i \in 1 .. Len(T)
  PROVE  /\ Touched(T, i) \in Seq(Entry) /\ Len(Touched(T, i)) = Len(T)
         /\ Touched(T, i)[1] = [client |-> T[i].client, bucket |-> T[i].bucket, age |-> 0]
         /\ \A j \in 2 .. Len(T) : Touched(T, i)[j] = T[IF j <= i THEN j - 1 ELSE j]
<1>n. PICK n \in Nat : n = Len(T)
  BY LenProperties
<1>t. \A j \in 1 .. n : T[j] \in Entry
  BY <1>n, ElementOfSeq
<1> DEFINE e == [T[i] EXCEPT !.age = 0]
           A == SubSeq(T, 1, i - 1)
           B == SubSeq(T, i + 1, n)
<1>1. e = [client |-> T[i].client, bucket |-> T[i].bucket, age |-> 0] /\ e \in Entry
  <2>1. T[i] \in Entry /\ 0 \in 0 .. (TTL + 1)
    BY <1>n, <1>t, LimiterAssumption
  <2>2. e = [client |-> T[i].client, bucket |-> T[i].bucket, age |-> 0]
    BY <2>1 DEF Entry
  <2>3. QED
    BY <2>1, <2>2 DEF Entry
<1>2. /\ A \in Seq(Entry) /\ Len(A) = i - 1
      /\ \A j \in 1 .. i - 1 : A[j] = T[j]
  <2>1. i - 1 \in Int /\ i \in Int /\ \A j \in 1 .. i - 1 : T[j] \in Entry
    BY <1>n, <1>t
  <2>2. QED
    BY <2>1, SubSeqProperties
<1>3. /\ B \in Seq(Entry) /\ Len(B) = n - i
      /\ \A j \in 1 .. n - i : B[j] = T[i + j]
  <2>1. i + 1 \in Int /\ i <= n /\ \A j \in i + 1 .. n : T[j] \in Entry
    BY <1>n, <1>t
  <2>2. /\ B \in Seq(Entry) /\ Len(B) = IF i + 1 <= n THEN n - (i + 1) + 1 ELSE 0
        /\ \A j \in 1 .. n - (i + 1) + 1 : B[j] = T[(i + 1) + j - 1]
    BY <2>1, SubSeqProperties
  <2>3. \A j \in 1 .. n - i : j \in 1 .. n - (i + 1) + 1 /\ (i + 1) + j - 1 = i + j
    BY <2>1
  <2>4. QED
    BY <2>1, <2>2, <2>3
<1>4. /\ A \o B \in Seq(Entry) /\ Len(A \o B) = n - 1
      /\ \A j \in 1 .. n - 1 : (A \o B)[j] = IF j <= i - 1 THEN A[j] ELSE B[j - (i - 1)]
  <2> HIDE DEF A, B
  <2>1. i - 1 \in Nat /\ n - i \in Nat /\ (i - 1) + (n - i) = n - 1
    BY <1>n
  <2>2. /\ A \o B \in Seq(Entry) /\ Len(A \o B) = Len(A) + Len(B)
        /\ \A j \in 1 .. Len(A) + Len(B) :
             (A \o B)[j] = IF j <= Len(A) THEN A[j] ELSE B[j - Len(A)]
    BY <1>2, <1>3, ConcatProperties
  <2>3. QED
    BY <1>2, <1>3, <2>1, <2>2
<1>5. <<e>> \in Seq(Entry) /\ Len(<<e>>) = 1 /\ <<e>>[1] = e
  BY <1>1
<1>6. Touched(T, i) = <<e>> \o (A \o B)
  BY <1>n DEF Touched, RemoveAt
<1>7. /\ Touched(T, i) \in Seq(Entry) /\ Len(Touched(T, i)) = n
      /\ \A j \in 1 .. n : Touched(T, i)[j] = IF j <= 1 THEN e ELSE (A \o B)[j - 1]
  <2> HIDE DEF A, B, e
  <2>1. 1 + (n - 1) = n /\ \A j \in 1 .. n : j <= 1 => j = 1
    BY <1>n
  <2>2. PICK C \in Seq(Entry) : C = A \o B
    BY <1>4
  <2>3. PICK D \in Seq(Entry) : D = <<e>>
    BY <1>5
  <2>4. /\ D \o C \in Seq(Entry) /\ Len(D \o C) = Len(D) + Len(C)
        /\ \A j \in 1 .. Len(D) + Len(C) :
             (D \o C)[j] = IF j <= Len(D) THEN D[j] ELSE C[j - Len(D)]
    BY ConcatProperties
  <2>5. Len(D) = 1 /\ D[1] = e /\ Len(C) = n - 1 /\ Touched(T, i) = D \o C
    BY <1>4, <1>5, <1>6, <2>2, <2>3
  <2>6. QED
    BY <2>1, <2>2, <2>4, <2>5
<1>8. ASSUME NEW j \in 2 .. n PROVE Touched(T, i)[j] = T[IF j <= i THEN j - 1 ELSE j]
  <2> HIDE DEF A, B, e
  <2>1. Touched(T, i)[j] = (A \o B)[j - 1] /\ j - 1 \in 1 .. n - 1
    <3>1. j \in 1 .. n /\ ~(j <= 1) /\ j - 1 \in 1 .. n - 1
      BY <1>n
    <3>2. QED
      BY <1>7, <3>1
  <2>2. CASE j <= i
    BY <1>2, <1>4, <2>1, <2>2, <1>n
  <2>3. CASE i < j
    <3>1. (j - 1) - (i - 1) \in 1 .. n - i /\ i + ((j - 1) - (i - 1)) = j /\ ~(j - 1 <= i - 1)
      BY <2>3, <1>n
    <3>2. QED
      BY <1>3, <1>4, <2>1, <2>3, <3>1
  <2>4. QED
    BY <2>2, <2>3, <1>n
<1>9. Touched(T, i)[1] = e
  <2>1. 1 \in 1 .. n
    BY <1>n
  <2> HIDE DEF A, B, e
  <2>2. QED
    BY <1>7, <2>1
<1>10. QED
  BY <1>1, <1>7, <1>8, <1>9, <1>n

\* What a miss evicts is at the limit of the table or cold.
LEMMA EvictedTable ==
  ASSUME NEW T \in Seq(Entry), Len(T) <= MaxSize
  PROVE  \E n \in 0 .. Len(T) :
           /\ n < MaxSize
           /\ Evicted(T) \in Seq(Entry) /\ Len(Evicted(T)) = n
           /\ \A j \in 1 .. n : Evicted(T)[j] = T[j]
           /\ \A j \in n + 1 .. Len(T) : j = MaxSize \/ T[j].age > TTL
<1>n. PICK k \in Nat : k = Len(T) /\ k <= MaxSize
  BY LenProperties
<1>a. MaxSize \in Nat /\ MaxSize > 0
  BY LimiterAssumption
<1>t. \A j \in 1 .. k : T[j] \in Entry
  BY <1>n, ElementOfSeq
<1> DEFINE S == {0} \cup {n \in DOMAIN T : n < MaxSize /\ ~Cold(T[n])}
<1>1. S \in SUBSET (0 .. k) /\ S # {} /\ 0 \in S
  BY <1>n, LenProperties
<1>2. PICK n \in S : n = Max(S) /\ \A j \in S : j <= n
  <2> HIDE DEF S
  <2> QED
    BY <1>1, MaxExists
<1>3. n \in 0 .. k /\ n < MaxSize
  BY <1>1, <1>a
<1>4. Evicted(T) = SubSeq(T, 1, n)
  BY <1>2 DEF Evicted
<1>5. Evicted(T) \in Seq(Entry) /\ Len(Evicted(T)) = n /\ \A j \in 1 .. n : Evicted(T)[j] = T[j]
  <2>1. n \in Int /\ 1 \in Int /\ \A j \in 1 .. n : T[j] \in Entry
    BY <1>3, <1>t
  <2>2. /\ SubSeq(T, 1, n) \in Seq(Entry)
        /\ Len(SubSeq(T, 1, n)) = IF 1 <= n THEN n - 1 + 1 ELSE 0
        /\ \A j \in 1 .. n - 1 + 1 : SubSeq(T, 1, n)[j] = T[1 + j - 1]
    BY <2>1, SubSeqProperties
  <2>3. \A j \in 1 .. n : j \in 1 .. n - 1 + 1 /\ 1 + j - 1 = j
    BY <2>1
  <2>4. QED
    BY <1>3, <1>4, <2>2, <2>3
<1>6. ASSUME NEW j \in n + 1 .. k PROVE j = MaxSize \/ T[j].age > TTL
  <2>1. j \in 1 .. k /\ ~(j <= n) /\ j <= MaxSize
    BY <1>3, <1>a, <1>n
  <2>2. j \notin S
    BY <1>2, <2>1
  <2>3. j \in DOMAIN T
    BY <2>1, <1>n, LenProperties
  <2>4. QED
    BY <1>a, <2>1, <2>2, <2>3 DEF Cold
<1>7. QED
  BY <1>3, <1>5, <1>6, <1>n

\* A client and a bucket are in the table once, and the entries before its own are of clients that came
\* after its last request.
Recency ==
  \A i, j \in 1 .. Len(order) :
    i < j => /\ order[i].client # order[j].client /\ order[i].bucket # order[j].bucket
             /\ order[i].client \in since[order[j].client]

Listed(c) == \E i \in 1 .. Len(order) : order[i].client = c

\* Entry j of the next table is entry f[j] of this one, of another client than c, and the
\* order is kept.
Shifts(f, c) ==
  /\ \A j \in 2 .. Len(order') : order'[j] = order[f[j]] /\ order[f[j]].client # c
  /\ \A j, k \in 2 .. Len(order') : j < k => f[j] < f[k]

\* get finds the client's entry, and nobody leaves the table.
Hit(r) == /\ \E i \in 1 .. Len(order) : order[i].client = client[r] /\ order[i].bucket = bucket'[r]
          /\ \A d \in Client : Listed(d) => Listed(d)'

\* get creates an entry, and others leave that are at the limit of the table or cold.
Miss(r) == /\ ~Listed(client[r]) /\ bucket'[r] = r
           /\ \A j \in 1 .. Len(order) : \/ \E k \in 1 .. Len(order') : order'[k] = order[j]
                                         \/ j = MaxSize
                                         \/ order[j].age > TTL

\* What get does to the table.
GetOutcome(r) ==
  /\ client[r] \in Client /\ bucket'[r] \in Request
  /\ \A q \in Request : q # r => bucket'[q] = bucket[q]
  /\ bucket' \in [Request -> Request \cup {0}]
  /\ order' \in Seq(Entry) /\ Len(order') \in 1 .. MaxSize
  /\ order'[1] = [client |-> client[r], bucket |-> bucket'[r], age |-> 0]
  /\ \E f \in [2 .. Len(order') -> 1 .. Len(order)] : Shifts(f, client[r])
  /\ Hit(r) \/ Miss(r)

\* The table and the bucket returned, on a hit and on a miss.
LEMMA GetEffect ==
  ASSUME LimiterTyped, Recency, NEW r \in Request, GetBucket(r)
  PROVE  GetOutcome(r)
<1>a. Request \subseteq Nat \ {0} /\ MaxSize \in Nat /\ MaxSize > 0 /\ TTL \in Nat
  BY LimiterAssumption
<1>n. PICK n \in Nat : n = Len(order) /\ n <= MaxSize
  BY LenProperties DEF LimiterTyped
<1>o. order \in Seq(Entry) /\ DOMAIN order = 1 .. n /\ bucket \in [Request -> Request \cup {0}]
  BY <1>n, LenProperties DEF LimiterTyped
<1>t. \A j \in 1 .. n : order[j] \in Entry
  BY <1>n, <1>o, ElementOfSeq
<1>c. PICK c \in Client : c = client[r]
  BY DEF GetBucket, LimiterTyped
<1>1. CASE Listed(c)
  <2>1. PICK i \in 1 .. n : order[i].client = c /\ order' = Touched(order, i)
                            /\ bucket' = [bucket EXCEPT ![r] = order[i].bucket]
    <3>1. {i \in DOMAIN order : order[i].client = client[r]} # {}
      BY <1>1, <1>n, <1>o, <1>c DEF Listed
    <3>2. QED
      BY <1>o, <1>c, <3>1 DEF GetBucket
  <2>2. PICK T \in Seq(Entry) :
          /\ T = order' /\ Len(T) = n
          /\ T[1] = [client |-> c, bucket |-> order[i].bucket, age |-> 0]
          /\ \A j \in 2 .. n : T[j] = order[IF j <= i THEN j - 1 ELSE j]
    BY <1>n, <1>o, <2>1, TouchedTable
  <2>3. order[i].bucket \in Request
    BY <1>t, <2>1 DEF Entry
  <2>4. /\ bucket'[r] = order[i].bucket /\ bucket' \in [Request -> Request \cup {0}]
        /\ \A q \in Request : q # r => bucket'[q] = bucket[q]
    BY <1>o, <2>1, <2>3
  <2>5. \E f \in [2 .. n -> 1 .. n] : Shifts(f, c)
    <3> DEFINE f == [j \in 2 .. n |-> IF j <= i THEN j - 1 ELSE j]
    <3>1. f \in [2 .. n -> 1 .. n]
      BY <1>n, <2>1
    <3>2. ASSUME NEW j \in 2 .. n PROVE order'[j] = order[f[j]] /\ order[f[j]].client # c
      <4>1. f[j] \in 1 .. n /\ f[j] # i /\ i \in 1 .. n
        BY <1>n, <2>1
      <4>2. order[f[j]].client # order[i].client
        BY <1>n, <4>1 DEF Recency
      <4>3. QED
        BY <2>1, <2>2, <4>2
    <3>3. \A j, k \in 2 .. n : j < k => f[j] < f[k]
      BY <1>n, <2>1
    <3>4. Len(order') = n
      BY <2>2
    <3> HIDE DEF f
    <3>5. QED
      BY <3>1, <3>2, <3>3, <3>4 DEF Shifts
  <2>6. Hit(r)
    <3>1. ASSUME NEW d \in Client, Listed(d) PROVE Listed(d)'
      <4>1. PICK j \in 1 .. n : order[j].client = d
        BY <1>n, <3>1 DEF Listed
      <4>2. CASE j = i
        <5>1. 1 \in 1 .. n /\ T[1].client = d
          BY <1>n, <2>1, <2>2, <4>1, <4>2
        <5>2. QED
          BY <2>2, <5>1 DEF Listed
      <4>3. CASE j < i
        <5>1. j + 1 \in 2 .. n /\ j + 1 \in 1 .. n /\ j + 1 <= i /\ (j + 1) - 1 = j
          BY <1>n, <2>1, <4>1, <4>3
        <5>2. T[j + 1].client = d
          BY <2>2, <4>1, <5>1
        <5>3. QED
          BY <2>2, <5>1, <5>2 DEF Listed
      <4>4. CASE i < j
        <5>1. j \in 2 .. n /\ ~(j <= i)
          BY <1>n, <2>1, <4>1, <4>4
        <5>2. T[j].client = d
          BY <2>2, <4>1, <5>1
        <5>3. QED
          BY <2>2, <4>1, <5>2 DEF Listed
      <4>5. QED
        BY <1>n, <2>1, <4>1, <4>2, <4>3, <4>4
    <3>2. QED
      BY <1>n, <1>c, <2>1, <2>4, <3>1 DEF Hit
  <2>7. Len(order') \in 1 .. MaxSize
    BY <1>a, <1>n, <2>1, <2>2
  <2>8. QED
    BY <1>n, <1>c, <2>2, <2>3, <2>4, <2>5, <2>6, <2>7 DEF GetOutcome
<1>2. CASE ~Listed(c)
  <2>1. /\ order' = <<[client |-> c, bucket |-> r, age |-> 0]>> \o Evicted(order)
        /\ bucket' = [bucket EXCEPT ![r] = r]
    <3>1. {i \in DOMAIN order : order[i].client = client[r]} = {}
      BY <1>2, <1>n, <1>o, <1>c DEF Listed
    <3>2. QED
      BY <1>o, <1>c, <3>1 DEF GetBucket
  <2>2. PICK k \in 0 .. n :
          /\ k < MaxSize
          /\ Evicted(order) \in Seq(Entry) /\ Len(Evicted(order)) = k
          /\ \A j \in 1 .. k : Evicted(order)[j] = order[j]
          /\ \A j \in k + 1 .. n : j = MaxSize \/ order[j].age > TTL
    BY <1>n, <1>o, EvictedTable
  <2>3. PICK E \in Seq(Entry) : E = Evicted(order)
    BY <2>2
  <2>4. PICK D \in Seq(Entry) : /\ D = <<[client |-> c, bucket |-> r, age |-> 0]>>
                                /\ Len(D) = 1 /\ D[1] = [client |-> c, bucket |-> r, age |-> 0]
    <3>1. [client |-> c, bucket |-> r, age |-> 0] \in Entry
      BY <1>a DEF Entry
    <3>2. PICK e \in Entry : e = [client |-> c, bucket |-> r, age |-> 0]
      BY <3>1
    <3>3. <<e>> \in Seq(Entry) /\ Len(<<e>>) = 1 /\ <<e>>[1] = e
      OBVIOUS
    <3>4. QED
      BY <3>2, <3>3
  <2>5. /\ D \o E \in Seq(Entry) /\ Len(D \o E) = Len(D) + Len(E)
        /\ \A j \in 1 .. Len(D) + Len(E) :
             (D \o E)[j] = IF j <= Len(D) THEN D[j] ELSE E[j - Len(D)]
    BY ConcatProperties
  <2>6. PICK T \in Seq(Entry) :
          /\ T = order' /\ Len(T) = k + 1 /\ T[1] = [client |-> c, bucket |-> r, age |-> 0]
          /\ \A j \in 2 .. k + 1 : T[j] = order[j - 1]
    <3>1. order' = D \o E /\ Len(E) = k
      BY <2>1, <2>2, <2>3, <2>4
    <3>2. Len(order') = k + 1 /\ order'[1] = D[1]
      <4>1. Len(D) + Len(E) = k + 1 /\ 1 \in 1 .. k + 1
        BY <2>2, <2>4, <3>1
      <4>2. QED
        BY <2>4, <2>5, <3>1, <4>1
    <3>3. ASSUME NEW j \in 2 .. k + 1 PROVE order'[j] = order[j - 1]
      <4>1. j \in 1 .. 1 + k /\ ~(j <= 1) /\ j - 1 \in 1 .. k
        BY <2>2
      <4>2. order'[j] = E[j - 1]
        <5>1. j \in 1 .. Len(D) + Len(E) /\ ~(j <= Len(D)) /\ j - Len(D) = j - 1
          BY <2>4, <3>1, <4>1
        <5>2. QED
          BY <2>5, <3>1, <5>1
      <4>3. QED
        BY <2>2, <2>3, <4>1, <4>2
    <3>4. QED
      BY <2>4, <2>5, <3>1, <3>2, <3>3
  <2>7. /\ bucket'[r] = r /\ bucket' \in [Request -> Request \cup {0}]
        /\ \A q \in Request : q # r => bucket'[q] = bucket[q]
    BY <1>o, <2>1
  <2>8. \E f \in [2 .. k + 1 -> 1 .. n] : Shifts(f, c)
    <3> DEFINE f == [j \in 2 .. k + 1 |-> j - 1]
    <3>1. f \in [2 .. k + 1 -> 1 .. n]
      BY <1>n, <2>2
    <3>2. \A j \in 2 .. k + 1 : order'[j] = order[f[j]] /\ order[f[j]].client # c
      BY <1>n, <1>2, <2>6, <3>1 DEF Listed
    <3>3. \A j, l \in 2 .. k + 1 : j < l => f[j] < f[l]
      BY <2>2
    <3>4. Len(order') = k + 1
      BY <2>6
    <3> HIDE DEF f
    <3>5. QED
      BY <3>1, <3>2, <3>3, <3>4 DEF Shifts
  <2>9. Miss(r)
    <3>1. ASSUME NEW j \in 1 .. n
          PROVE  \/ \E l \in 1 .. k + 1 : T[l] = order[j]
                 \/ j = MaxSize
                 \/ order[j].age > TTL
      <4>1. CASE j <= k
        <5>1. j + 1 \in 2 .. k + 1 /\ j + 1 \in 1 .. k + 1 /\ (j + 1) - 1 = j
          BY <1>n, <2>2, <4>1
        <5>2. QED
          BY <2>6, <5>1
      <4>2. CASE ~(j <= k)
        <5>1. j \in k + 1 .. n
          BY <1>n, <2>2, <4>2
        <5>2. QED
          BY <2>2, <5>1
      <4>3. QED
        BY <4>1, <4>2
    <3>2. QED
      BY <1>n, <1>c, <1>2, <2>6, <2>7, <3>1 DEF Miss
  <2>10. Len(order') \in 1 .. MaxSize
    BY <1>a, <1>n, <2>2, <2>6
  <2>11. QED
    BY <1>n, <1>c, <2>6, <2>7, <2>8, <2>9, <2>10 DEF GetOutcome
<1>3. QED
  BY <1>1, <1>2

\* The time for one token passes: every entry is one tick older.
LEMMA RefillEffect ==
  ASSUME LimiterTyped, Refill
  PROVE  /\ order' \in Seq(Entry) /\ Len(order') = Len(order)
         /\ \A i \in 1 .. Len(order) :
              /\ order'[i].client = order[i].client /\ order'[i].bucket = order[i].bucket
              /\ order'[i].age = IF order[i].age <= TTL THEN order[i].age + 1 ELSE order[i].age
         /\ \A b \in Request : tokens'[b] = IF tokens[b] < Burst THEN tokens[b] + 1 ELSE Burst
         /\ tokens' \in [Request -> 0 .. Burst]
<1>n. PICK n \in Nat : n = Len(order) /\ DOMAIN order = 1 .. n
  BY LenProperties DEF LimiterTyped
<1>t. \A j \in 1 .. n : order[j] \in Entry
  BY <1>n, ElementOfSeq DEF LimiterTyped
<1>a. TTL \in Nat /\ Burst \in Nat
  BY LimiterAssumption
<1>1. order' = [i \in 1 .. n |->
                 [order[i] EXCEPT !.age = IF order[i].age <= TTL THEN order[i].age + 1 ELSE order[i].age]]
  BY <1>n DEF Refill
<1>2. \A i \in 1 .. n :
        [order[i] EXCEPT !.age = IF order[i].age <= TTL THEN order[i].age + 1 ELSE order[i].age] \in Entry
  BY <1>a, <1>t DEF Entry
<1>3. order' \in Seq(Entry) /\ Len(order') = n
  BY <1>1, <1>2
<1>4. ASSUME NEW i \in 1 .. n
      PROVE  /\ order'[i].client = order[i].client /\ order'[i].bucket = order[i].bucket
             /\ order'[i].age = IF order[i].age <= TTL THEN order[i].age + 1 ELSE order[i].age
  BY <1>t, <1>1 DEF Entry
<1>5. tokens' = [b \in Request |-> IF tokens[b] < Burst THEN tokens[b] + 1 ELSE Burst]
  BY DEF Refill
<1>6. tokens' \in [Request -> 0 .. Burst]
  BY <1>a, <1>5 DEF LimiterTyped
<1>7. QED
  BY <1>n, <1>3, <1>4, <1>5, <1>6

\* What a step of the server does to the limiter: one of its calls, the passing of time, or
\* a request that it has admitted goes on.
GoesOn == /\ UNCHANGED <<client, limiterVars>>
          /\ \/ UNCHANGED stage
             \/ \E r \in Request, s \in {"busy", "answered"} :
                  stage[r] \in {"admitted", "busy"} /\ Move(r, s)

LimiterStep == \/ \E r \in Request : \/ \E c \in Client : Arrive(r, c)
                                     \/ TakeGlobal(r) \/ GetBucket(r) \/ AllowClient(r)
               \/ Refill
               \/ GoesOn

\* Every step of either process is one of those.
LEMMA LimiterSteps == [Next]_vars => LimiterStep
<1> SUFFICES ASSUME [Next]_vars PROVE LimiterStep
  OBVIOUS
<1>1. CASE UNCHANGED vars \/ UNCHANGED serverVars
  BY <1>1 DEF vars, serverVars, LimiterStep, GoesOn
<1>2. CASE ServerMain
  BY <1>2 DEF ServerMain, ServerAcquire, ServerAcquireFails, StartServer, BeginDrain, EndDrain,
              ServerRelease, ServerExit, LimiterStep, GoesOn, serverVars, requestVars
<1>3. CASE ServerSignal \/ Listen \/ MongoFlips \/ ServerProbe \/ Janitor
  BY <1>3 DEF ServerSignal, Listen, MongoFlips, ServerProbe, Janitor, LimiterStep, GoesOn, serverVars,
              requestVars
<1>4. CASE Tick
  BY <1>4 DEF Tick, LimiterStep
<1>5. ASSUME NEW r \in Request, ServerArrive(r) \/ Limit(r) PROVE LimiterStep
  BY <1>5 DEF ServerArrive, Limit, LimiterStep
<1>6. ASSUME NEW r \in Request, BeginCommand(r) PROVE LimiterStep
  BY <1>6 DEF BeginCommand, LimiterStep, GoesOn
<1>7. ASSUME NEW r \in Request, EndCommand(r) PROVE LimiterStep
  BY <1>7 DEF EndCommand, LimiterStep, GoesOn, requestVars
<1>8. ASSUME NEW r \in Request, Respond(r) PROVE LimiterStep
  BY <1>8 DEF Respond, LimiterStep, GoesOn
<1>9. QED
  BY <1>1, <1>2, <1>3, <1>4, <1>5, <1>6, <1>7, <1>8 DEF Next, ServerNext, HandleRequest

\* Where a request has no bucket yet, and none is named after it.
Early == {"none", "arrived", "counted"}

\* A step that is no get and no answer of a client's bucket leaves table and buckets alone.
LEMMA OtherEffect ==
  ASSUME LimiterTyped,
         GoesOn \/ \E r \in Request : TakeGlobal(r) \/ \E c \in Client : Arrive(r, c)
  PROVE  /\ UNCHANGED <<bucket, order, tokens, ticks, since, lost, admitted>>
         /\ LimiterTyped'
         /\ \A q \in Request : stage'[q] = "holding" <=> stage[q] = "holding"
         /\ \A q \in Request : stage'[q] \in Early => stage[q] \in Early
         /\ \A q \in Request : stage[q] = "holding" => client'[q] = client[q]
<1>s. stage \in [Request -> Stage] /\ client \in [Request -> Client \cup {0}]
  BY DEF LimiterTyped
<1>1. CASE GoesOn
  <2>1. UNCHANGED <<client, bucket, order, tokens, ticks, since, lost, admitted>>
    BY <1>1 DEF GoesOn, limiterVars
  <2>2. CASE UNCHANGED stage
    BY <2>1, <2>2 DEF LimiterTyped
  <2>3. ASSUME NEW q \in Request, NEW s \in {"busy", "answered"}, stage[q] \in {"admitted", "busy"},
               Move(q, s)
        PROVE  /\ stage' \in [Request -> Stage]
               /\ \A x \in Request : stage'[x] = IF x = q THEN s ELSE stage[x]
    BY <1>s, <2>3 DEF Move, Stage
  <2>4. QED
    BY <1>1, <2>1, <2>2, <2>3 DEF GoesOn, LimiterTyped, Early
<1>2. ASSUME NEW r \in Request, NEW c \in Client, Arrive(r, c)
      PROVE  /\ UNCHANGED <<bucket, order, tokens, ticks, since, lost, admitted>>
             /\ LimiterTyped'
             /\ \A q \in Request : stage'[q] = "holding" <=> stage[q] = "holding"
             /\ \A q \in Request : stage'[q] \in Early => stage[q] \in Early
             /\ \A q \in Request : stage[q] = "holding" => client'[q] = client[q]
  <2>1. /\ stage[r] = "none" /\ UNCHANGED <<bucket, order, tokens, ticks, since, lost, admitted>>
        /\ stage' = [stage EXCEPT ![r] = "arrived"] /\ client' = [client EXCEPT ![r] = c]
    BY <1>2 DEF Arrive, Move
  <2>2. /\ stage' \in [Request -> Stage] /\ client' \in [Request -> Client \cup {0}]
        /\ \A q \in Request : stage'[q] = IF q = r THEN "arrived" ELSE stage[q]
        /\ \A q \in Request : client'[q] = IF q = r THEN c ELSE client[q]
    BY <1>s, <2>1 DEF Stage
  <2>3. QED
    BY <2>1, <2>2 DEF LimiterTyped, Early
<1>3. ASSUME NEW r \in Request, TakeGlobal(r)
      PROVE  /\ UNCHANGED <<bucket, order, tokens, ticks, since, lost, admitted>>
             /\ LimiterTyped'
             /\ \A q \in Request : stage'[q] = "holding" <=> stage[q] = "holding"
             /\ \A q \in Request : stage'[q] \in Early => stage[q] \in Early
             /\ \A q \in Request : stage[q] = "holding" => client'[q] = client[q]
  <2>1. /\ stage[r] = "arrived" /\ UNCHANGED <<bucket, order, tokens, ticks, since, lost, admitted>>
        /\ \/ stage' = [stage EXCEPT ![r] = "counted"] /\ client' = client
           \/ stage' = [stage EXCEPT ![r] = "rejected"] /\ client' = [client EXCEPT ![r] = 0]
    BY <1>3 DEF TakeGlobal, Move, Forget
  <2>2. CASE stage' = [stage EXCEPT ![r] = "counted"] /\ client' = client
    <3>1. /\ stage' \in [Request -> Stage]
          /\ \A q \in Request : stage'[q] = IF q = r THEN "counted" ELSE stage[q]
      BY <1>s, <2>2 DEF Stage
    <3>2. QED
      BY <2>1, <2>2, <3>1 DEF LimiterTyped, Early
  <2>3. CASE stage' = [stage EXCEPT ![r] = "rejected"] /\ client' = [client EXCEPT ![r] = 0]
    <3>1. /\ stage' \in [Request -> Stage] /\ client' \in [Request -> Client \cup {0}]
          /\ \A q \in Request : stage'[q] = IF q = r THEN "rejected" ELSE stage[q]
          /\ \A q \in Request : client'[q] = IF q = r THEN 0 ELSE client[q]
      BY <1>s, <2>3 DEF Stage
    <3>2. QED
      BY <2>1, <2>3, <3>1 DEF LimiterTyped, Early
  <2>4. QED
    BY <2>1, <2>2, <2>3
<1>4. QED
  BY <1>1, <1>2, <1>3

\* What get does besides.
LEMMA GetMoves ==
  ASSUME LimiterTyped, Recency, NEW r \in Request, GetBucket(r)
  PROVE  /\ UNCHANGED <<client, tokens, ticks, admitted>>
         /\ \A q \in Request : stage'[q] = IF q = r THEN "holding" ELSE stage[q]
         /\ \A d \in Client : since'[d] = IF d = client[r] THEN {} ELSE since[d] \cup {client[r]}
         /\ \A d \in Client : lost'[d] = IF d = client[r] /\ Cardinality(since[d]) >= MaxSize
                                         THEN lost[d] + 1 ELSE lost[d]
         /\ LimiterTyped'
<1>1. PICK c \in Client : c = client[r]
  BY DEF GetBucket, LimiterTyped
<1>2. /\ stage' = [stage EXCEPT ![r] = "holding"] /\ UNCHANGED <<client, tokens, ticks, admitted>>
      /\ since' = [d \in Client |-> IF d = c THEN {} ELSE since[d] \cup {c}]
      /\ lost' = [lost EXCEPT ![c] = @ + (IF Cardinality(since[c]) >= MaxSize THEN 1 ELSE 0)]
  BY <1>1 DEF GetBucket, Move
<1>3. /\ stage' \in [Request -> Stage]
      /\ \A q \in Request : stage'[q] = IF q = r THEN "holding" ELSE stage[q]
  BY <1>2 DEF Stage, LimiterTyped
<1>4. /\ since' \in [Client -> SUBSET Client]
      /\ \A d \in Client : since'[d] = IF d = c THEN {} ELSE since[d] \cup {c}
  BY <1>2 DEF LimiterTyped
<1>5. \A d \in Client : IsFiniteSet(since'[d])
  <2>1. ASSUME NEW d \in Client, d # c PROVE IsFiniteSet(since[d] \cup {c})
    <3>1. IsFiniteSet(since[d])
      BY DEF LimiterTyped
    <3>2. QED
      BY <3>1, FS_AddElement
  <2>2. IsFiniteSet({})
    BY FS_EmptySet
  <2>3. QED
    BY <1>4, <2>1, <2>2
<1>6. /\ lost' \in [Client -> Nat]
      /\ \A d \in Client : lost'[d] = IF d = c /\ Cardinality(since[d]) >= MaxSize
                                      THEN lost[d] + 1 ELSE lost[d]
  <2>1. lost \in [Client -> Nat]
    BY DEF LimiterTyped
  <2>2. CASE Cardinality(since[c]) >= MaxSize
    BY <1>2, <2>1, <2>2
  <2>3. CASE ~(Cardinality(since[c]) >= MaxSize)
    BY <1>2, <2>1, <2>3
  <2>4. QED
    BY <2>2, <2>3
<1>7. /\ bucket'[r] \in Request /\ bucket' \in [Request -> Request \cup {0}]
      /\ order' \in Seq(Entry) /\ Len(order') <= MaxSize
      /\ \A q \in Request : q # r => bucket'[q] = bucket[q]
  <2>1. GetOutcome(r)
    BY GetEffect
  <2>2. QED
    BY <2>1, LimiterAssumption DEF GetOutcome
<1>8. LimiterTyped'
  BY <1>1, <1>2, <1>3, <1>4, <1>5, <1>6, <1>7, ZenonT(60) DEF LimiterTyped
<1>9. QED
  BY <1>1, <1>2, <1>3, <1>4, <1>6, <1>8

\* What Allow does on the bucket that get returned.
LEMMA AllowEffect ==
  ASSUME LimiterTyped, NEW r \in Request, AllowClient(r)
  PROVE  /\ stage[r] = "holding" /\ bucket[r] \in Request /\ client[r] \in Client
         /\ UNCHANGED <<order, ticks, since, lost>>
         /\ \A q \in Request : stage'[q] = "holding" <=> stage[q] = "holding" /\ q # r
         /\ \A q \in Request : stage'[q] \in Early => stage[q] \in Early
         /\ \A q \in Request : q # r => bucket'[q] = bucket[q] /\ client'[q] = client[q]
         /\ \/ UNCHANGED <<tokens, admitted>>
            \/ /\ tokens[bucket[r]] > 0
               /\ \A b \in Request : tokens'[b] = IF b = bucket[r] THEN tokens[b] - 1 ELSE tokens[b]
               /\ \A d \in Client : admitted'[d] = IF d = client[r] THEN admitted[d] + 1 ELSE admitted[d]
         /\ LimiterTyped'
<1>1. PICK b \in Request, c \in Client : b = bucket[r] /\ c = client[r] /\ stage[r] = "holding"
  BY DEF AllowClient, LimiterTyped
<1>2. /\ UNCHANGED <<order, ticks, since, lost>>
      /\ bucket' = [bucket EXCEPT ![r] = 0] /\ client' = [client EXCEPT ![r] = 0]
      /\ \E s \in {"admitted", "rejected"} : stage' = [stage EXCEPT ![r] = s]
      /\ \/ UNCHANGED <<tokens, admitted>>
         \/ /\ tokens[b] > 0 /\ tokens' = [tokens EXCEPT ![b] = @ - 1]
            /\ admitted' = [admitted EXCEPT ![c] = @ + 1]
  BY <1>1 DEF AllowClient, Move, Forget
<1>3. PICK s \in {"admitted", "rejected"} : stage' = [stage EXCEPT ![r] = s]
  BY <1>2
<1>4. /\ stage' \in [Request -> Stage] /\ bucket' \in [Request -> Request \cup {0}]
      /\ client' \in [Request -> Client \cup {0}]
      /\ \A q \in Request : /\ stage'[q] = IF q = r THEN s ELSE stage[q]
                            /\ bucket'[q] = IF q = r THEN 0 ELSE bucket[q]
                            /\ client'[q] = IF q = r THEN 0 ELSE client[q]
  BY <1>2, <1>3 DEF Stage, LimiterTyped
<1>5. ASSUME tokens[b] > 0, tokens' = [tokens EXCEPT ![b] = @ - 1],
             admitted' = [admitted EXCEPT ![c] = @ + 1]
      PROVE  /\ tokens' \in [Request -> 0 .. Burst] /\ admitted' \in [Client -> Nat]
             /\ \A x \in Request : tokens'[x] = IF x = b THEN tokens[x] - 1 ELSE tokens[x]
             /\ \A d \in Client : admitted'[d] = IF d = c THEN admitted[d] + 1 ELSE admitted[d]
  <2>1. tokens \in [Request -> 0 .. Burst] /\ admitted \in [Client -> Nat] /\ Burst \in Nat
    BY LimiterAssumption DEF LimiterTyped
  <2>2. tokens[b] - 1 \in 0 .. Burst /\ admitted[c] + 1 \in Nat
    BY <1>5, <2>1
  <2>3. QED
    BY <1>5, <2>1, <2>2
<1>6. LimiterTyped'
  BY <1>2, <1>3, <1>4, <1>5 DEF LimiterTyped
<1>7. QED
  BY <1>1, <1>2, <1>3, <1>4, <1>5, <1>6 DEF Early

\* The bucket of an entry is named after a request that has got it.
Named == \A i \in 1 .. Len(order) : stage[order[i].bucket] \notin Early

\* A client whose entry is cold has its bucket full again, and nobody is between get and
\* Allow on the bucket of an entry that has aged.
Rested ==
  \A i \in 1 .. Len(order) :
    /\ order[i].age <= tokens[order[i].bucket] \/ tokens[order[i].bucket] = Burst
    /\ \A r \in Request : stage[r] = "holding" /\ bucket[r] = order[i].bucket => order[i].age = 0

\* The table stays in order and its entries stay rested.
LEMMA TableKept ==
  ASSUME LimiterTyped, Recency, Named, Rested, LimiterStep
  PROVE  LimiterTyped' /\ Recency' /\ Named' /\ Rested'
<1>t. /\ Len(order) \in Nat /\ tokens \in [Request -> 0 .. Burst] /\ Burst \in Nat /\ TTL \in Nat
      /\ \A i \in 1 .. Len(order) : order[i] \in Entry
      /\ since \in [Client -> SUBSET Client]
  BY LenProperties, ElementOfSeq, LimiterAssumption DEF LimiterTyped
<1>e. \A e \in Entry : e.client \in Client /\ e.bucket \in Request /\ e.age \in 0 .. TTL + 1
  BY DEF Entry
<1>1. ASSUME GoesOn \/ \E r \in Request : TakeGlobal(r) \/ \E c \in Client : Arrive(r, c)
      PROVE  LimiterTyped' /\ Recency' /\ Named' /\ Rested'
  <2>1. /\ UNCHANGED <<bucket, order, tokens, since>> /\ LimiterTyped'
        /\ \A q \in Request : stage'[q] = "holding" <=> stage[q] = "holding"
        /\ \A q \in Request : stage'[q] \in Early => stage[q] \in Early
    BY <1>1, OtherEffect
  <2>2. QED
    BY <1>t, <1>e, <2>1 DEF Recency, Named, Rested
<1>2. ASSUME NEW r \in Request, AllowClient(r) PROVE LimiterTyped' /\ Recency' /\ Named' /\ Rested'
  <2>1. /\ UNCHANGED <<order, since>> /\ LimiterTyped' /\ stage[r] = "holding"
        /\ \A q \in Request : stage'[q] = "holding" <=> stage[q] = "holding" /\ q # r
        /\ \A q \in Request : stage'[q] \in Early => stage[q] \in Early
        /\ \A q \in Request : q # r => bucket'[q] = bucket[q]
        /\ \A b \in Request : b # bucket[r] => tokens'[b] = tokens[b]
    BY <1>2, AllowEffect
  <2>2. tokens' \in [Request -> 0 .. Burst]
    BY <2>1 DEF LimiterTyped
  <2>3. ASSUME NEW i \in 1 .. Len(order), order[i].bucket = bucket[r]
        PROVE  order[i].age = 0 /\ order[i].bucket \in Request
    BY <1>t, <1>e, <2>1, <2>3 DEF Rested
  <2>4. \A i \in 1 .. Len(order) :
          order[i].age <= tokens'[order[i].bucket] \/ tokens'[order[i].bucket] = Burst
    <3>1. ASSUME NEW i \in 1 .. Len(order)
          PROVE  order[i].age <= tokens'[order[i].bucket] \/ tokens'[order[i].bucket] = Burst
      <4>1. PICK b \in Request : b = order[i].bucket
        BY <1>t, <1>e
      <4>2. CASE b = bucket[r]
        <5>1. order[i].age = 0 /\ tokens'[b] \in 0 .. Burst
          BY <2>2, <2>3, <4>1, <4>2
        <5>2. QED
          BY <1>t, <4>1, <5>1
      <4>3. CASE b # bucket[r]
        <5>1. tokens'[b] = tokens[b]
          BY <2>1, <4>3
        <5>2. order[i].age <= tokens[b] \/ tokens[b] = Burst
          BY <4>1 DEF Rested
        <5>3. QED
          BY <4>1, <5>1, <5>2
      <4>4. QED
        BY <4>2, <4>3
    <3>2. QED
      BY <3>1
  <2>5. QED
    BY <1>t, <1>e, <2>1, <2>4 DEF Recency, Named, Rested
<1>3. CASE Refill
  <2>1. /\ Len(order') = Len(order) /\ UNCHANGED <<stage, client, bucket, since, lost, admitted>>
        /\ ticks' = ticks + 1
        /\ order' \in Seq(Entry) /\ tokens' \in [Request -> 0 .. Burst]
        /\ \A i \in 1 .. Len(order) :
              /\ order'[i].client = order[i].client /\ order'[i].bucket = order[i].bucket
              /\ order'[i].age = IF order[i].age <= TTL THEN order[i].age + 1 ELSE order[i].age
        /\ \A b \in Request : tokens'[b] = IF tokens[b] < Burst THEN tokens[b] + 1 ELSE Burst
        /\ \A q \in Request : stage[q] # "holding"
    BY <1>3, RefillEffect DEF Refill
  <2>2. LimiterTyped'
    BY <2>1 DEF LimiterTyped
  <2>3. Recency'
    BY <2>1 DEF Recency
  <2>4. ASSUME NEW i \in 1 .. Len(order)
        PROVE  order'[i].age <= tokens'[order'[i].bucket] \/ tokens'[order'[i].bucket] = Burst
    <3>1. PICK b \in Request, a \in 0 .. TTL + 1 : b = order[i].bucket /\ a = order[i].age
      BY <1>t, <1>e
    <3>2. /\ tokens[b] \in 0 .. Burst /\ (a <= tokens[b] \/ tokens[b] = Burst)
          /\ tokens'[b] = IF tokens[b] < Burst THEN tokens[b] + 1 ELSE Burst
          /\ order'[i].bucket = b /\ order'[i].age = IF a <= TTL THEN a + 1 ELSE a
      BY <1>t, <2>1, <3>1 DEF Rested
    <3>3. QED
      BY <1>t, <3>2
  <2>5. Rested'
    BY <2>1, <2>4 DEF Rested
  <2>6. Named'
    BY <2>1 DEF Named
  <2>7. QED
    BY <2>2, <2>3, <2>5, <2>6
<1>4. ASSUME NEW r \in Request, GetBucket(r) PROVE LimiterTyped' /\ Recency' /\ Named' /\ Rested'
  <2>g. GetOutcome(r)
    BY <1>4, GetEffect
  <2>1. PICK c \in Client, b \in Request : c = client[r] /\ b = bucket'[r]
    BY <2>g DEF GetOutcome
  <2>2. PICK n \in Nat : n = Len(order') /\ n >= 1
    BY <2>g, LimiterAssumption DEF GetOutcome
  <2>3. /\ order'[1].client = c /\ order'[1].bucket = b /\ order'[1].age = 0
        /\ \A q \in Request : q # r => bucket'[q] = bucket[q]
    BY <2>g, <2>1 DEF GetOutcome
  <2>4. PICK f \in [2 .. n -> 1 .. Len(order)] :
          /\ \A j \in 2 .. n : order'[j] = order[f[j]] /\ order[f[j]].client # c
          /\ \A j, k \in 2 .. n : j < k => f[j] < f[k]
    BY <2>g, <2>1, <2>2 DEF GetOutcome, Shifts
  <2>5. /\ LimiterTyped' /\ UNCHANGED tokens
        /\ \A q \in Request : stage'[q] = IF q = r THEN "holding" ELSE stage[q]
        /\ \A d \in Client : since'[d] = IF d = c THEN {} ELSE since[d] \cup {c}
    BY <1>4, <2>1, GetMoves
  <2>b. ASSUME NEW j \in 2 .. n PROVE order[f[j]].bucket # b
    <3>1. f[j] \in 1 .. Len(order) /\ order[f[j]].client # c
      BY <2>4
    <3>2. CASE Hit(r)
      <4>1. PICK i \in 1 .. Len(order) : order[i].client = c /\ order[i].bucket = b
        BY <2>1, <3>2 DEF Hit
      <4>2. i < f[j] \/ f[j] < i
        BY <3>1, <4>1
      <4>3. QED
        BY <3>1, <4>1, <4>2 DEF Recency
    <3>3. CASE Miss(r)
      <4>1. b = r /\ stage[r] \in Early
        BY <1>4, <2>1, <3>3 DEF Miss, GetBucket, Early
      <4>2. QED
        BY <3>1, <4>1 DEF Named
    <3>4. QED
      BY <2>g, <3>2, <3>3 DEF GetOutcome
  <2>6. Recency'
    <3>1. ASSUME NEW i \in 1 .. n, NEW j \in 1 .. n, i < j
          PROVE  /\ order'[i].client # order'[j].client /\ order'[i].bucket # order'[j].bucket
                 /\ order'[i].client \in since'[order'[j].client]
      <4>1. j \in 2 .. n /\ f[j] \in 1 .. Len(order) /\ order'[j] = order[f[j]]
        BY <2>2, <2>4, <3>1
      <4>2. order'[j].client \in Client /\ order'[j].client # c
        BY <1>t, <1>e, <2>4, <4>1
      <4>3. CASE i = 1
        <5>1. order'[i].client = c /\ order'[i].bucket = b
          BY <2>3, <4>3
        <5>2. order'[j].bucket # b
          BY <2>b, <4>1
        <5>3. c \in since'[order'[j].client]
          BY <2>5, <4>2
        <5>4. QED
          BY <4>2, <5>1, <5>2, <5>3
      <4>4. CASE i # 1
        <5>1. i \in 2 .. n /\ f[i] \in 1 .. Len(order) /\ order'[i] = order[f[i]] /\ f[i] < f[j]
          BY <2>2, <2>4, <3>1, <4>1, <4>4
        <5>2. /\ order[f[i]].client # order[f[j]].client /\ order[f[i]].bucket # order[f[j]].bucket
              /\ order[f[i]].client \in since[order[f[j]].client]
          BY <4>1, <5>1 DEF Recency
        <5>3. QED
          BY <2>5, <4>1, <4>2, <5>1, <5>2
      <4>5. QED
        BY <4>3, <4>4
    <3>2. QED
      BY <2>2, <3>1 DEF Recency
  <2>7. Rested'
    <3>1. ASSUME NEW i \in 1 .. n
          PROVE  /\ order'[i].age <= tokens[order'[i].bucket] \/ tokens[order'[i].bucket] = Burst
                 /\ \A q \in Request : stage'[q] = "holding" /\ bucket'[q] = order'[i].bucket
                                         => order'[i].age = 0
      <4>1. CASE i = 1
        <5>1. tokens[b] \in 0 .. Burst
          BY <1>t
        <5>2. QED
          BY <1>t, <2>3, <4>1, <5>1
      <4>2. CASE i # 1
        <5>1. i \in 2 .. n /\ f[i] \in 1 .. Len(order) /\ order'[i] = order[f[i]]
          BY <2>2, <2>4, <4>2
        <5>2. /\ order[f[i]].age <= tokens[order[f[i]].bucket] \/ tokens[order[f[i]].bucket] = Burst
              /\ \A q \in Request : stage[q] = "holding" /\ bucket[q] = order[f[i]].bucket
                                      => order[f[i]].age = 0
          BY <5>1 DEF Rested
        <5>3. order[f[i]].bucket # bucket'[r]
          BY <2>1, <2>b, <5>1
        <5>4. QED
          BY <2>3, <2>5, <5>1, <5>2, <5>3
      <4>3. QED
        BY <4>1, <4>2
    <3>2. QED
      BY <2>2, <2>5, <3>1 DEF Rested
  <2>8. Named'
    <3>1. ASSUME NEW i \in 1 .. n PROVE stage'[order'[i].bucket] \notin Early
      <4>1. CASE i = 1
        <5>1. b = r \/ stage[b] \notin Early
          BY <2>g, <2>1 DEF GetOutcome, Hit, Miss, Named
        <5>2. QED
          BY <2>3, <2>5, <4>1, <5>1 DEF Early
      <4>2. CASE i # 1
        <5>1. i \in 2 .. n /\ f[i] \in 1 .. Len(order) /\ order'[i] = order[f[i]]
          BY <2>2, <2>4, <4>2
        <5>2. stage[order[f[i]].bucket] \notin Early /\ order[f[i]].bucket \in Request
          BY <1>t, <1>e, <5>1 DEF Named
        <5>3. QED
          BY <2>5, <5>1, <5>2 DEF Early
      <4>3. QED
        BY <4>1, <4>2
    <3>2. QED
      BY <2>2, <3>1 DEF Named
  <2>9. QED
    BY <2>5, <2>6, <2>7, <2>8
<1>5. QED
  BY <1>1, <1>2, <1>3, <1>4 DEF LimiterStep

--------------------------------------------------------------------------------
(* The count.  The tokens a client can still be given are counted as the set  *)
(* of pairs of a bucket and a token in it.                                    *)

\* The buckets a client can be let through by: those of its entries and those its requests hold.
Usable(c) ==
  {b \in Request : \/ \E i \in 1 .. Len(order) : order[i].client = c /\ order[i].bucket = b
                   \/ \E r \in Request : stage[r] = "holding" /\ client[r] = c /\ bucket[r] = b}

\* Their tokens.
Stock(c) == {t \in Usable(c) \X (1 .. Burst) : t[2] <= tokens[t[1]]}

\* A client out of the table of whom this does not count as lost yet: it is owed a bucket.
Away(c) == ~Listed(c) /\ Cardinality(since[c]) < MaxSize

Owed(c) == IF Away(c) THEN Burst ELSE 0

\* What a client has had, can have and is owed stays within its bound.
Within ==
  \A c \in Client : /\ IsFiniteSet(Stock(c))
                    /\ admitted[c] + Cardinality(Stock(c)) + Owed(c) <= Burst * (1 + lost[c]) + ticks

\* A finite set of tokens and one more.
LEMMA OneMoreToken ==
  ASSUME NEW S, IsFiniteSet(S), NEW x, NEW T \in SUBSET (S \cup {x})
  PROVE  IsFiniteSet(T) /\ Cardinality(T) <= Cardinality(S) + 1
<1>1. /\ IsFiniteSet(S \cup {x})
      /\ Cardinality(S \cup {x}) = IF x \in S THEN Cardinality(S) ELSE Cardinality(S) + 1
  BY FS_AddElement
<1>2. IsFiniteSet(T) /\ Cardinality(T) <= Cardinality(S \cup {x})
  BY <1>1, FS_Subset
<1>3. Cardinality(S) \in Nat /\ Cardinality(T) \in Nat /\ Cardinality(S \cup {x}) \in Nat
  BY <1>1, <1>2, FS_CardinalityType
<1>4. QED
  BY <1>1, <1>2, <1>3

\* The tokens of one bucket.
LEMMA FullBucket ==
  ASSUME NEW b
  PROVE  IsFiniteSet({b} \X (1 .. Burst)) /\ Cardinality({b} \X (1 .. Burst)) = Burst
<1>1. Burst \in Nat
  BY LimiterAssumption
<1>2. IsFiniteSet(1 .. Burst) /\ Cardinality(1 .. Burst) = Burst
  BY <1>1, FS_Interval
<1>3. IsFiniteSet({b}) /\ Cardinality({b}) = 1
  BY FS_Singleton
<1>4. QED
  BY <1>1, <1>2, <1>3, FS_Product

\* A finite set of tokens and another bucket.
LEMMA OneMoreBucket ==
  ASSUME NEW S, IsFiniteSet(S), NEW b, NEW T \in SUBSET (S \cup ({b} \X (1 .. Burst)))
  PROVE  IsFiniteSet(T) /\ Cardinality(T) <= Cardinality(S) + Burst
<1> DEFINE B == {b} \X (1 .. Burst)
<1>1. IsFiniteSet(B) /\ Cardinality(B) = Burst
  BY FullBucket
<1> HIDE DEF B
<1>2. IsFiniteSet(S \cup B) /\ Cardinality(S \cup B) = Cardinality(S) + Cardinality(B) - Cardinality(S \cap B)
  BY <1>1, FS_Union
<1>3. T \in SUBSET (S \cup B)
  BY DEF B
<1>4. IsFiniteSet(T) /\ Cardinality(T) <= Cardinality(S \cup B)
  BY <1>2, <1>3, FS_Subset
<1>5. IsFiniteSet(S \cap B)
  BY FS_Intersection
<1>6. /\ Cardinality(S) \in Nat /\ Cardinality(S \cap B) \in Nat /\ Burst \in Nat
      /\ Cardinality(T) \in Nat /\ Cardinality(S \cup B) \in Nat
  BY <1>2, <1>4, <1>5, FS_CardinalityType, LimiterAssumption
<1>7. QED
  BY <1>1, <1>2, <1>4, <1>6

\* A finite set of tokens and one bucket less.
LEMMA OneBucketLess ==
  ASSUME NEW S, IsFiniteSet(S), NEW b, {b} \X (1 .. Burst) \in SUBSET S,
         NEW T \in SUBSET (S \ ({b} \X (1 .. Burst)))
  PROVE  IsFiniteSet(T) /\ Cardinality(T) + Burst <= Cardinality(S)
<1> DEFINE B == {b} \X (1 .. Burst)
<1>1. IsFiniteSet(B) /\ Cardinality(B) = Burst
  BY FullBucket
<1>2. B \in SUBSET S /\ T \in SUBSET (S \ B)
  OBVIOUS
<1> HIDE DEF B
<1>3. IsFiniteSet(S \ B) /\ Cardinality(S \ B) = Cardinality(S) - Cardinality(S \cap B)
  BY FS_Difference
<1>4. S \cap B = B
  BY <1>2
<1>5. IsFiniteSet(T) /\ Cardinality(T) <= Cardinality(S \ B)
  BY <1>2, <1>3, FS_Subset
<1>6. Cardinality(T) \in Nat /\ Cardinality(S \ B) \in Nat /\ Cardinality(S) \in Nat /\ Burst \in Nat
  BY <1>3, <1>5, FS_CardinalityType, LimiterAssumption
<1>7. PICK k \in Nat, m \in Nat, d \in Nat :
        k = Cardinality(T) /\ m = Cardinality(S) /\ d = Cardinality(S \ B)
  BY <1>6
<1>8. Cardinality(S \cap B) = Burst
  BY <1>1, <1>4
<1>9. d = m - Burst
  BY <1>3, <1>7, <1>8
<1>10. QED
  BY <1>5, <1>6, <1>7, <1>9

\* A step that adds no token for the client and takes nothing away that it is owed.
LEMMA NoMore ==
  ASSUME LimiterTyped, LimiterTyped', Within, NEW c \in Client,
         Stock(c)' \subseteq Stock(c), Away(c)' => Away(c),
         admitted'[c] = admitted[c], lost'[c] >= lost[c], ticks' = ticks
  PROVE  /\ IsFiniteSet(Stock(c))'
         /\ admitted'[c] + Cardinality(Stock(c)') + Owed(c)' <= Burst * (1 + lost'[c]) + ticks'
<1>1. IsFiniteSet(Stock(c)') /\ Cardinality(Stock(c)') <= Cardinality(Stock(c))
  BY FS_Subset DEF Within
<1>2. PICK k \in Nat, k1 \in Nat : k = Cardinality(Stock(c)) /\ k1 = Cardinality(Stock(c)')
  BY <1>1, FS_CardinalityType DEF Within
<1>3. PICK o \in Nat, o1 \in Nat : o = Owed(c) /\ o1 = Owed(c)' /\ o1 <= o
  BY LimiterAssumption DEF Owed
<1>4. PICK l \in Nat, l1 \in Nat, a \in Nat, t \in Nat :
        l = lost[c] /\ l1 = lost'[c] /\ a = admitted[c] /\ t = ticks
  BY DEF LimiterTyped
<1>5. Burst * (1 + l) <= Burst * (1 + l1)
  <2>1. PICK d \in Nat : l1 = l + d
    <3>1. l1 - l \in Nat /\ l1 = l + (l1 - l)
      BY <1>4
    <3>2. QED
      BY <3>1
  <2>2. Burst \in Nat
    BY LimiterAssumption
  <2>3. Burst * (1 + l1) = Burst * (1 + l) + Burst * d /\ Burst * d \in Nat /\ Burst * (1 + l) \in Nat
    BY <2>1, <2>2
  <2>4. QED
    BY <2>3
<1>6. a + k + o <= Burst * (1 + l) + t
  BY <1>2, <1>3, <1>4 DEF Within
<1>7. Burst * (1 + l) \in Nat /\ Burst * (1 + l1) \in Nat
  BY LimiterAssumption
<1>8. a + k1 + o1 <= Burst * (1 + l1) + t
  BY <1>1, <1>2, <1>3, <1>5, <1>6, <1>7
<1>9. QED
  BY <1>1, <1>2, <1>3, <1>4, <1>8

\* Anything but a get, an answer of a client's bucket and the passing of time.
LEMMA OtherWithin ==
  ASSUME LimiterTyped, Within,
         GoesOn \/ \E r \in Request : TakeGlobal(r) \/ \E c \in Client : Arrive(r, c)
  PROVE  Within'
<1>1. /\ UNCHANGED <<bucket, order, tokens, ticks, since, lost, admitted>> /\ LimiterTyped'
      /\ \A q \in Request : stage'[q] = "holding" <=> stage[q] = "holding"
      /\ \A q \in Request : stage[q] = "holding" => client'[q] = client[q]
  BY OtherEffect
<1>2. ASSUME NEW c \in Client
      PROVE  /\ IsFiniteSet(Stock(c))'
             /\ admitted'[c] + Cardinality(Stock(c)') + Owed(c)' <= Burst * (1 + lost'[c]) + ticks'
  <2>1. Usable(c)' \subseteq Usable(c)
    BY <1>1 DEF Usable
  <2>2. Stock(c)' \subseteq Stock(c)
    BY <1>1, <2>1 DEF Stock
  <2>3. Away(c)' => Away(c)
    BY <1>1 DEF Away, Listed
  <2>4. lost'[c] >= lost[c]
    BY <1>1 DEF LimiterTyped
  <2>5. QED
    BY <1>1, <2>2, <2>3, <2>4, NoMore
<1>3. QED
  BY <1>2 DEF Within

\* Allow takes the token it admits the request with.
LEMMA AllowWithin ==
  ASSUME LimiterTyped, Within, NEW r \in Request, AllowClient(r)
  PROVE  Within'
<1>1. /\ stage[r] = "holding" /\ UNCHANGED <<order, ticks, since, lost>> /\ LimiterTyped'
      /\ \A q \in Request : stage'[q] = "holding" <=> stage[q] = "holding" /\ q # r
      /\ \A q \in Request : q # r => bucket'[q] = bucket[q] /\ client'[q] = client[q]
  BY AllowEffect
<1>2. PICK b \in Request, d \in Client : b = bucket[r] /\ d = client[r]
  BY AllowEffect
<1>3. \/ UNCHANGED <<tokens, admitted>>
      \/ /\ tokens[b] > 0
         /\ \A x \in Request : tokens'[x] = IF x = b THEN tokens[x] - 1 ELSE tokens[x]
         /\ \A x \in Client : admitted'[x] = IF x = d THEN admitted[x] + 1 ELSE admitted[x]
  BY <1>2, AllowEffect
<1>t. /\ tokens \in [Request -> 0 .. Burst] /\ tokens' \in [Request -> 0 .. Burst] /\ Burst \in Nat
      /\ admitted \in [Client -> Nat] /\ lost \in [Client -> Nat] /\ ticks \in Nat
  BY <1>1, LimiterAssumption DEF LimiterTyped
<1>4. ASSUME NEW c \in Client
      PROVE  /\ IsFiniteSet(Stock(c))'
             /\ admitted'[c] + Cardinality(Stock(c)') + Owed(c)' <= Burst * (1 + lost'[c]) + ticks'
  <2>1. Usable(c)' \subseteq Usable(c)
    BY <1>1 DEF Usable
  <2>2. Stock(c)' \subseteq Stock(c)
    <3>1. \A x \in Request : tokens'[x] <= tokens[x]
      BY <1>3, <1>t
    <3>2. ASSUME NEW x \in Request, NEW y \in 1 .. Burst, y <= tokens'[x] PROVE y <= tokens[x]
      BY <1>t, <3>1, <3>2
    <3>3. Usable(c) \subseteq Request
      BY DEF Usable
    <3>4. QED
      BY <2>1, <3>2, <3>3 DEF Stock
  <2>3. Away(c)' <=> Away(c)
    BY <1>1 DEF Away, Listed
  <2>4. CASE UNCHANGED admitted \/ c # d
    <3>1. admitted'[c] = admitted[c] /\ lost'[c] >= lost[c] /\ ticks' = ticks
      BY <1>1, <1>3, <1>t, <2>4
    <3>2. QED
      BY <1>1, <2>2, <2>3, <3>1, NoMore
  <2>5. CASE ~(UNCHANGED admitted \/ c # d)
    <3>1. c = d /\ tokens[b] \in 1 .. Burst /\ tokens'[b] = tokens[b] - 1 /\ admitted'[c] = admitted[c] + 1
      BY <1>3, <1>t, <2>5
    <3>2. PICK n \in 1 .. Burst : n = tokens[b] /\ ~(n <= tokens'[b])
      BY <3>1, <1>t
    <3>3. <<b, n>> \in Stock(c)
      BY <1>1, <1>2, <3>1, <3>2 DEF Stock, Usable
    <3>4. <<b, n>> \notin Stock(c)'
      BY <3>2 DEF Stock
    <3>5. Stock(c)' \in SUBSET (Stock(c) \ {<<b, n>>})
      BY <2>2, <3>4
    <3>6. IsFiniteSet(Stock(c))
      BY DEF Within
    <3>7. /\ IsFiniteSet(Stock(c) \ {<<b, n>>})
          /\ Cardinality(Stock(c) \ {<<b, n>>}) = Cardinality(Stock(c)) - 1
      BY <3>3, <3>6, FS_RemoveElement
    <3>8. /\ IsFiniteSet(Stock(c)') /\ Cardinality(Stock(c)') <= Cardinality(Stock(c)) - 1
      BY <3>5, <3>7, FS_Subset
    <3>9. PICK k \in Nat, k1 \in Nat : k = Cardinality(Stock(c)) /\ k1 = Cardinality(Stock(c)')
      BY <3>6, <3>8, FS_CardinalityType
    <3>10. PICK o \in Nat : o = Owed(c) /\ o = Owed(c)'
      BY <1>t, <2>3 DEF Owed
    <3>11. PICK B \in Nat : B = Burst * (1 + lost[c])
      BY <1>t
    <3>12. admitted[c] + k + o <= B + ticks
      BY <3>9, <3>10, <3>11 DEF Within
    <3>13. (admitted[c] + 1) + k1 + o <= B + ticks
      BY <1>t, <3>8, <3>9, <3>12
    <3>14. QED
      BY <1>1, <3>1, <3>8, <3>9, <3>10, <3>11, <3>13
  <2>6. QED
    BY <2>4, <2>5
<1>5. QED
  BY <1>4 DEF Within

\* A client has one bucket at most when nobody is between get and Allow, and it gets a token.
LEMMA RefillWithin ==
  ASSUME LimiterTyped, Recency, Within, Refill
  PROVE  Within'
<1>1. /\ Len(order') = Len(order) /\ UNCHANGED <<stage, client, bucket, since, lost, admitted>>
      /\ ticks' = ticks + 1
      /\ \A i \in 1 .. Len(order) :
            /\ order'[i].client = order[i].client /\ order'[i].bucket = order[i].bucket
      /\ \A b \in Request : tokens'[b] = IF tokens[b] < Burst THEN tokens[b] + 1 ELSE Burst
      /\ \A q \in Request : stage[q] # "holding"
  BY RefillEffect DEF Refill
<1>t. /\ tokens \in [Request -> 0 .. Burst] /\ Burst \in Nat /\ Len(order) \in Nat
      /\ admitted \in [Client -> Nat] /\ lost \in [Client -> Nat] /\ ticks \in Nat
  BY LenProperties, LimiterAssumption DEF LimiterTyped
<1>2. ASSUME NEW c \in Client
      PROVE  /\ IsFiniteSet(Stock(c))'
             /\ admitted'[c] + Cardinality(Stock(c)') + Owed(c)' <= Burst * (1 + lost'[c]) + ticks'
  <2>1. Usable(c)' = Usable(c)
    BY <1>1 DEF Usable
  <2>2. ASSUME NEW a \in Usable(c), NEW b \in Usable(c) PROVE a = b
    <3>1. PICK i \in 1 .. Len(order) : order[i].client = c /\ order[i].bucket = a
      BY <1>1 DEF Usable
    <3>2. PICK j \in 1 .. Len(order) : order[j].client = c /\ order[j].bucket = b
      BY <1>1 DEF Usable
    <3>3. ~(i < j) /\ ~(j < i)
      BY <3>1, <3>2 DEF Recency
    <3>4. i = j
      BY <1>t, <3>3
    <3>5. QED
      BY <3>1, <3>2, <3>4
  <2>3. PICK b, y : Stock(c)' \in SUBSET (Stock(c) \cup {<<b, y>>})
    <3>1. CASE Usable(c) = {}
      BY <2>1, <3>1 DEF Stock
    <3>2. CASE Usable(c) # {}
      <4>1. PICK b \in Request : Usable(c) = {b}
        BY <2>2, <3>2 DEF Usable
      <4>2. ASSUME NEW t \in Stock(c)' PROVE t \in Stock(c) \cup {<<b, tokens[b] + 1>>}
        <5>1. PICK y \in 1 .. Burst : t = <<b, y>> /\ y <= tokens'[b]
          BY <2>1, <4>1, <4>2 DEF Stock
        <5>2. y <= tokens[b] \/ y = tokens[b] + 1
          BY <1>1, <1>t, <5>1
        <5>3. y <= tokens[b] => t \in Stock(c)
          BY <4>1, <5>1 DEF Stock
        <5>4. QED
          BY <5>1, <5>2, <5>3
      <4>3. Stock(c)' \in SUBSET (Stock(c) \cup {<<b, tokens[b] + 1>>})
        BY <4>2
      <4>4. QED
        BY <4>3
    <3>3. QED
      BY <3>1, <3>2
  <2>4. IsFiniteSet(Stock(c))
    BY DEF Within
  <2>5. IsFiniteSet(Stock(c)') /\ Cardinality(Stock(c)') <= Cardinality(Stock(c)) + 1
    BY <2>3, <2>4, OneMoreToken
  <2>6. PICK k \in Nat, k1 \in Nat : k = Cardinality(Stock(c)) /\ k1 = Cardinality(Stock(c)')
    BY <2>4, <2>5, FS_CardinalityType
  <2>7. PICK o \in Nat : o = Owed(c) /\ o = Owed(c)'
    <3>1. Away(c)' <=> Away(c)
      BY <1>1 DEF Away, Listed
    <3>2. QED
      BY <1>t, <3>1 DEF Owed
  <2>8. PICK B \in Nat : B = Burst * (1 + lost[c])
    BY <1>t
  <2>9. admitted[c] + k + o <= B + ticks
    BY <2>6, <2>7, <2>8 DEF Within
  <2>10. admitted[c] + k1 + o <= B + (ticks + 1)
    BY <1>t, <2>5, <2>6, <2>9, SMTT(60)
  <2>11. QED
    BY <1>1, <2>5, <2>6, <2>7, <2>8, <2>10
<1>3. QED
  BY <1>2 DEF Within

\* A client whose entry is at the limit of the table, and a new one: as many have come since
\* as the table has room for.
LEMMA Crowded ==
  ASSUME LimiterTyped, Recency, MaxSize \in 1 .. Len(order), NEW c \in Client, ~Listed(c)
  PROVE  Cardinality(since[order[MaxSize].client] \cup {c}) >= MaxSize
<1>a. MaxSize \in Nat /\ MaxSize > 0 /\ Len(order) = MaxSize
  BY LenProperties, LimiterAssumption DEF LimiterTyped
<1>t. \A i \in 1 .. MaxSize : order[i].client \in Client
  <2>1. \A i \in 1 .. Len(order) : order[i] \in Entry
    BY ElementOfSeq DEF LimiterTyped
  <2>2. QED
    BY <1>a, <2>1 DEF Entry
<1>d. PICK d \in Client : d = order[MaxSize].client
  BY <1>a, <1>t
<1> DEFINE S == 1 .. MaxSize
           T == since[d] \cup {c}
           f == [i \in S |-> IF i < MaxSize THEN order[i].client ELSE c]
<1>1. \A i \in S : i < MaxSize => order[i].client \in since[d]
  <2>1. ASSUME NEW i \in 1 .. MaxSize, i < MaxSize PROVE order[i].client \in since[d]
    <3>1. i \in 1 .. Len(order) /\ MaxSize \in 1 .. Len(order)
      BY <1>a
    <3>2. order[i].client \in since[order[MaxSize].client]
      BY <2>1, <3>1 DEF Recency
    <3>3. QED
      BY <1>d, <3>2
  <2>2. QED
    BY <2>1
<1>2. f \in [S -> T]
  BY <1>1
<1>3. ASSUME NEW i \in S, NEW j \in S, i < j PROVE f[i] # f[j]
  <2>1. i < MaxSize /\ f[i] = order[i].client
    BY <1>a, <1>3
  <2>2. CASE j < MaxSize
    <3>1. f[j] = order[j].client
      BY <2>2
    <3>2. order[i].client # order[j].client
      BY <1>a, <1>3 DEF Recency
    <3>3. QED
      BY <2>1, <3>1, <3>2
  <2>3. CASE ~(j < MaxSize)
    <3>1. f[j] = c
      BY <2>3
    <3>2. order[i].client # c
      BY <1>a DEF Listed
    <3>3. QED
      BY <2>1, <3>1, <3>2
  <2>4. QED
    BY <2>2, <2>3
<1>4. f \in Injection(S, T)
  <2>1. S \subseteq Int
    BY <1>a
  <2> HIDE DEF S, T, f
  <2>2. \A i, j \in S : f[i] = f[j] => i = j
    BY <1>3, <2>1
  <2>3. QED
    BY <1>2, <2>2 DEF Injection, IsInjective
<1>5. IsFiniteSet(T)
  <2>1. IsFiniteSet(since[d])
    BY DEF LimiterTyped
  <2>2. QED
    BY <2>1, FS_AddElement
<1>6. Cardinality(S) = MaxSize
  BY <1>a, FS_Interval
<1>7. Cardinality(S) <= Cardinality(T)
  <2> HIDE DEF S, T, f
  <2>1. QED
    BY <1>4, <1>5, FS_Injection
<1>8. Cardinality(T) \in Nat
  BY <1>5, FS_CardinalityType
<1>9. QED
  BY <1>a, <1>d, <1>6, <1>7, <1>8

\* Others than the client that comes keep what they have, and lose their entry for a reason:
\* who has not seen MaxSize others come had a full bucket, and is owed it.
LEMMA GetOfAnother ==
  ASSUME LimiterTyped, Recency, Rested, Within, Burst <= TTL + 1, NEW r \in Request, GetBucket(r),
         NEW d \in Client, d # client[r]
  PROVE  /\ IsFiniteSet(Stock(d))'
         /\ admitted'[d] + Cardinality(Stock(d)') + Owed(d)' <= Burst * (1 + lost'[d]) + ticks'
<1>g. GetOutcome(r)
  BY GetEffect
<1>m. /\ UNCHANGED <<client, tokens, ticks, admitted>> /\ LimiterTyped'
      /\ \A q \in Request : stage'[q] = IF q = r THEN "holding" ELSE stage[q]
      /\ since'[d] = since[d] \cup {client[r]} /\ lost'[d] = lost[d]
  BY GetMoves
<1>c. PICK c \in Client : c = client[r] /\ c # d
  BY <1>g DEF GetOutcome
<1>n. PICK n \in Nat : n = Len(order') /\ n >= 1
  BY <1>g, LimiterAssumption DEF GetOutcome
<1>1. /\ order'[1].client = c
      /\ \A q \in Request : q # r => bucket'[q] = bucket[q]
  BY <1>g, <1>c DEF GetOutcome
<1>2. PICK f \in [2 .. n -> 1 .. Len(order)] : \A j \in 2 .. n : order'[j] = order[f[j]]
  BY <1>g, <1>n DEF GetOutcome, Shifts
<1>t. /\ tokens \in [Request -> 0 .. Burst] /\ Burst \in Nat /\ TTL \in Nat /\ Len(order) \in Nat
      /\ admitted \in [Client -> Nat] /\ lost \in [Client -> Nat] /\ ticks \in Nat
      /\ MaxSize \in Nat /\ \A j \in 1 .. Len(order) : order[j] \in Entry
  BY LenProperties, ElementOfSeq, LimiterAssumption DEF LimiterTyped
<1>3. ASSUME NEW i \in 1 .. n, order'[i].client = d
      PROVE  i \in 2 .. n /\ f[i] \in 1 .. Len(order) /\ order'[i] = order[f[i]]
  <2>1. i # 1
    BY <1>c, <1>1, <1>3
  <2>2. QED
    BY <1>2, <1>n, <2>1
<1>4. Usable(d)' \subseteq Usable(d)
  <2>1. ASSUME NEW b \in Request, NEW i \in 1 .. n, order'[i].client = d, order'[i].bucket = b
        PROVE  b \in Usable(d)
    <3>1. f[i] \in 1 .. Len(order) /\ order[f[i]].client = d /\ order[f[i]].bucket = b
      BY <1>3, <2>1
    <3>2. QED
      BY <3>1 DEF Usable
  <2>2. ASSUME NEW b \in Request, NEW q \in Request, stage'[q] = "holding", client'[q] = d, bucket'[q] = b
        PROVE  b \in Usable(d)
    <3>1. q # r /\ stage[q] = "holding" /\ client[q] = d /\ bucket[q] = b
      BY <1>c, <1>m, <1>1, <2>2
    <3>2. QED
      BY <3>1 DEF Usable
  <2>3. QED
    BY <1>n, <2>1, <2>2 DEF Usable
<1>5. Stock(d)' \subseteq Stock(d)
  BY <1>m, <1>4 DEF Stock
<1>6. CASE Away(d)' => Away(d)
  BY <1>m, <1>t, <1>5, <1>6, NoMore, SMTT(60)
<1>7. CASE ~(Away(d)' => Away(d))
  <2>1. ~Listed(d)' /\ Cardinality(since'[d]) < MaxSize /\ ~Away(d)
    BY <1>7 DEF Away
  <2>2. Listed(d)
    <3>1. IsFiniteSet(since[d])
      BY DEF LimiterTyped
    <3>2. Cardinality(since[d]) <= Cardinality(since'[d])
      <4>1. IsFiniteSet(since'[d]) /\ since[d] \in SUBSET since'[d]
        BY <1>m, <3>1, FS_AddElement
      <4>2. QED
        BY <4>1, FS_Subset
    <3>3. Cardinality(since[d]) \in Nat /\ Cardinality(since'[d]) \in Nat
      <4>1. IsFiniteSet(since'[d])
        BY <1>m, <3>1, FS_AddElement
      <4>2. QED
        BY <3>1, <4>1, FS_CardinalityType
    <3>4. QED
      BY <1>t, <2>1, <3>2, <3>3 DEF Away
  <2>3. PICK j \in 1 .. Len(order) : order[j].client = d
    BY <2>2 DEF Listed
  <2>4. Miss(r) /\ ~Listed(c)
    BY <1>g, <1>c, <2>1, <2>2 DEF GetOutcome, Hit, Miss
  <2>5. j = MaxSize \/ order[j].age > TTL
    <3>1. ~ \E k \in 1 .. n : order'[k] = order[j]
      BY <1>n, <2>1, <2>3 DEF Listed
    <3>2. QED
      BY <1>n, <2>4, <3>1 DEF Miss
  <2>6. j # MaxSize
    <3>1. ASSUME j = MaxSize PROVE FALSE
      <4>1. Cardinality(since[d] \cup {c}) >= MaxSize
        BY <2>3, <2>4, <3>1, Crowded
      <4>2. since'[d] = since[d] \cup {c}
        BY <1>c, <1>m
      <4>3. IsFiniteSet(since'[d])
        BY <1>m DEF LimiterTyped
      <4>4. Cardinality(since'[d]) \in Nat
        BY <4>3, FS_CardinalityType
      <4>5. QED
        BY <1>t, <2>1, <4>1, <4>2, <4>4
    <3>2. QED
      BY <3>1
  <2>7. PICK b \in Request : b = order[j].bucket /\ order[j].age \in 0 .. TTL + 1
    BY <1>t DEF Entry
  <2>8. order[j].age > TTL
    BY <2>5, <2>6
  <2>9. tokens[b] = Burst
    <3>1. PICK a \in 0 .. TTL + 1 : a = order[j].age
      BY <2>7
    <3>2. a <= tokens[b] \/ tokens[b] = Burst
      BY <2>7, <3>1 DEF Rested
    <3>3. QED
      BY <1>t, <2>7, <2>8, <3>1, <3>2
  <2>10. b \notin Usable(d)'
    <3>1. ASSUME NEW i \in 1 .. n, order'[i].client = d PROVE FALSE
      BY <1>n, <2>1, <3>1 DEF Listed
    <3>2. ASSUME NEW q \in Request, stage'[q] = "holding", client'[q] = d, bucket'[q] = b PROVE FALSE
      <4>1. q # r /\ stage[q] = "holding" /\ bucket[q] = b
        BY <1>c, <1>m, <1>1, <3>2
      <4>2. order[j].age = 0
        BY <2>7, <4>1 DEF Rested
      <4>3. QED
        BY <1>t, <2>8, <4>2
    <3>3. QED
      BY <1>n, <3>1, <3>2 DEF Usable
  <2>11. {b} \X (1 .. Burst) \in SUBSET Stock(d)
    <3>1. b \in Usable(d)
      BY <2>3, <2>7 DEF Usable
    <3>2. QED
      BY <1>t, <2>9, <3>1 DEF Stock
  <2>12. Stock(d)' \in SUBSET (Stock(d) \ ({b} \X (1 .. Burst)))
    <3>1. \A t \in Stock(d)' : t[1] # b
      BY <2>10 DEF Stock
    <3>2. \A t \in {b} \X (1 .. Burst) : t[1] = b
      OBVIOUS
    <3>3. ASSUME NEW t \in Stock(d)' PROVE t \in Stock(d) /\ t \notin {b} \X (1 .. Burst)
      BY <1>5, <3>1, <3>2
    <3>4. QED
      BY <3>3
  <2>13. IsFiniteSet(Stock(d))
    BY DEF Within
  <2>14. IsFiniteSet(Stock(d)') /\ Cardinality(Stock(d)') + Burst <= Cardinality(Stock(d))
    BY <2>11, <2>12, <2>13, OneBucketLess
  <2>15. PICK k \in Nat, k1 \in Nat : k = Cardinality(Stock(d)) /\ k1 = Cardinality(Stock(d)')
    BY <2>13, <2>14, FS_CardinalityType
  <2>16. Owed(d) = 0 /\ Owed(d)' = Burst
    BY <1>7 DEF Owed
  <2>17. PICK B \in Nat : B = Burst * (1 + lost[d])
    BY <1>t
  <2>18. PICK a \in Nat, t \in Nat, s \in Nat : a = admitted[d] /\ t = ticks /\ s = Burst
    BY <1>t
  <2>19. a + k1 + s <= B + t
    <3>1. a + k + 0 <= B + t
      BY <2>15, <2>16, <2>17, <2>18 DEF Within
    <3>2. k1 + s <= k
      BY <2>14, <2>15, <2>18
    <3>3. QED
      BY <3>1, <3>2
  <2>20. admitted'[d] = a /\ ticks' = t /\ Burst * (1 + lost'[d]) = B /\ Owed(d)' = s
    BY <1>m, <2>16, <2>17, <2>18
  <2>21. QED
    BY <2>14, <2>15, <2>16, <2>19, <2>20
<1>8. QED
  BY <1>6, <1>7

\* The client that comes is given its bucket again, or the one that it is owed, or one more
\* because it was lost.
LEMMA GetOfItself ==
  ASSUME LimiterTyped, Recency, Within, NEW r \in Request, GetBucket(r), NEW c \in Client, c = client[r]
  PROVE  /\ IsFiniteSet(Stock(c))'
         /\ admitted'[c] + Cardinality(Stock(c)') + Owed(c)' <= Burst * (1 + lost'[c]) + ticks'
<1>g. GetOutcome(r)
  BY GetEffect
<1>c. PICK b \in Request : c = client[r] /\ b = bucket'[r]
  BY <1>g DEF GetOutcome
<1>m. /\ UNCHANGED <<client, tokens, ticks, admitted>> /\ LimiterTyped'
      /\ \A q \in Request : stage'[q] = IF q = r THEN "holding" ELSE stage[q]
      /\ lost'[c] = IF Cardinality(since[c]) >= MaxSize THEN lost[c] + 1 ELSE lost[c]
  BY <1>c, GetMoves
<1>n. PICK n \in Nat : n = Len(order') /\ n >= 1
  BY <1>g, LimiterAssumption DEF GetOutcome
<1>1. /\ order'[1].client = c /\ order'[1].bucket = b
      /\ \A q \in Request : q # r => bucket'[q] = bucket[q]
  BY <1>g, <1>c DEF GetOutcome
<1>2. PICK f \in [2 .. n -> 1 .. Len(order)] : \A j \in 2 .. n : order'[j] = order[f[j]]
  BY <1>g, <1>n DEF GetOutcome, Shifts
<1>t. /\ tokens \in [Request -> 0 .. Burst] /\ Burst \in Nat
      /\ admitted \in [Client -> Nat] /\ lost \in [Client -> Nat] /\ ticks \in Nat
      /\ MaxSize \in Nat
  BY LimiterAssumption DEF LimiterTyped
<1>3. Usable(c)' \subseteq Usable(c) \cup {b}
  <2>1. ASSUME NEW x \in Request, NEW i \in 1 .. n, order'[i].client = c, order'[i].bucket = x
        PROVE  x \in Usable(c) \cup {b}
    <3>1. CASE i = 1
      BY <1>1, <2>1, <3>1
    <3>2. CASE i # 1
      <4>1. i \in 2 .. n
        BY <1>n, <3>2
      <4>2. f[i] \in 1 .. Len(order) /\ order[f[i]].client = c /\ order[f[i]].bucket = x
        BY <1>2, <2>1, <4>1
      <4>3. QED
        BY <4>2 DEF Usable
    <3>3. QED
      BY <3>1, <3>2
  <2>2. ASSUME NEW x \in Request, NEW q \in Request, stage'[q] = "holding", client'[q] = c, bucket'[q] = x
        PROVE  x \in Usable(c) \cup {b}
    <3>1. CASE q = r
      BY <1>c, <2>2, <3>1
    <3>2. CASE q # r
      <4>1. stage[q] = "holding" /\ client[q] = c /\ bucket[q] = x
        BY <1>m, <1>1, <2>2, <3>2
      <4>2. QED
        BY <4>1 DEF Usable
    <3>3. QED
      BY <3>1, <3>2
  <2>3. QED
    BY <1>n, <2>1, <2>2 DEF Usable
<1>4. ~Away(c)'
  BY <1>n, <1>1 DEF Away, Listed
<1>5. CASE Hit(r)
  <2>1. b \in Usable(c)
    BY <1>5, <1>c DEF Hit, Usable
  <2>2. Stock(c)' \subseteq Stock(c)
    BY <1>3, <1>m, <2>1 DEF Stock
  <2>3. lost'[c] >= lost[c]
    BY <1>m, <1>t
  <2>4. QED
    BY <1>c, <1>m, <1>4, <2>2, <2>3, NoMore
<1>6. CASE Miss(r)
  <2>1. ~Listed(c)
    BY <1>6, <1>c DEF Miss
  <2>2. Stock(c)' \in SUBSET (Stock(c) \cup ({b} \X (1 .. Burst)))
    BY <1>3, <1>m DEF Stock
  <2>3. IsFiniteSet(Stock(c))
    BY DEF Within
  <2>4. IsFiniteSet(Stock(c)') /\ Cardinality(Stock(c)') <= Cardinality(Stock(c)) + Burst
    BY <2>2, <2>3, OneMoreBucket
  <2>5. PICK k \in Nat, k1 \in Nat : k = Cardinality(Stock(c)) /\ k1 = Cardinality(Stock(c)')
    BY <2>3, <2>4, FS_CardinalityType
  <2>6. Owed(c)' = 0
    BY <1>4 DEF Owed
  <2>7. PICK l \in Nat, a \in Nat, t \in Nat : l = lost[c] /\ a = admitted[c] /\ t = ticks
    BY <1>t
  <2>8. a + k1 <= Burst * (1 + lost'[c]) + t
    <3>1. Burst * (1 + (l + 1)) = Burst * (1 + l) + Burst
      BY <1>t
    <3>2. PICK B \in Nat : B = Burst * (1 + l)
      BY <1>t
    <3>3. CASE Cardinality(since[c]) >= MaxSize
      <4>1. lost'[c] = l + 1
        BY <1>m, <2>7, <3>3
      <4>2. PICK o \in Nat : o = Owed(c)
        BY <1>t DEF Owed
      <4>3. a + k + o <= B + t
        BY <2>5, <2>7, <3>2, <4>2 DEF Within
      <4>4. a + k1 <= (B + Burst) + t
        BY <1>t, <2>4, <2>5, <4>3, SMTT(60)
      <4>5. QED
        BY <3>1, <3>2, <4>1, <4>4
    <3>4. CASE ~(Cardinality(since[c]) >= MaxSize)
      <4>1. lost'[c] = l
        BY <1>m, <2>7, <3>4
      <4>2. Owed(c) = Burst
        <5>1. IsFiniteSet(since[c])
          BY DEF LimiterTyped
        <5>2. Cardinality(since[c]) \in Nat
          BY <5>1, FS_CardinalityType
        <5>3. Cardinality(since[c]) < MaxSize
          BY <1>t, <3>4, <5>2
        <5>4. QED
          BY <2>1, <5>3 DEF Owed, Away
      <4>3. a + k + Burst <= B + t
        BY <2>5, <2>7, <3>2, <4>2 DEF Within
      <4>4. a + k1 <= B + t
        BY <1>t, <2>4, <2>5, <4>3
      <4>5. QED
        BY <3>2, <4>1, <4>4
    <3>5. QED
      BY <3>3, <3>4
  <2>9. QED
    BY <1>c, <1>m, <2>4, <2>5, <2>6, <2>7, <2>8
<1>7. QED
  BY <1>g, <1>5, <1>6 DEF GetOutcome

\* The whole invariant of the limiter.
LimiterInv == LimiterTyped /\ Recency /\ Named /\ Rested /\ Within

\* It holds at first: the table is empty and every client is owed a bucket.
LEMMA LimiterStarts == ServerInit => LimiterInv
<1> SUFFICES ASSUME LimiterInit PROVE LimiterInv
  BY DEF ServerInit
<1>a. /\ Burst \in Nat /\ MaxSize \in Nat /\ MaxSize > 0 /\ 0 \notin Request
      /\ Len(<<>>) = 0 /\ <<>> \in Seq(Entry)
  BY LimiterAssumption
<1>b. 1 .. Len(order) = {} /\ order = <<>>
  BY <1>a DEF LimiterInit
<1>f. IsFiniteSet({}) /\ Cardinality({}) = 0
  BY FS_EmptySet
<1>1. LimiterTyped
  BY <1>a, <1>f DEF LimiterInit, LimiterTyped, Stage
<1>2. Recency /\ Named /\ Rested
  BY <1>b DEF Recency, Named, Rested
<1>3. ASSUME NEW c \in Client
      PROVE  /\ IsFiniteSet(Stock(c))
             /\ admitted[c] + Cardinality(Stock(c)) + Owed(c) <= Burst * (1 + lost[c]) + ticks
  <2>1. Usable(c) = {}
    BY <1>b DEF Usable, LimiterInit
  <2>2. Stock(c) = {}
    BY <2>1 DEF Stock
  <2>3. Owed(c) = Burst
    BY <1>a, <1>b, <1>f DEF Owed, Away, Listed, LimiterInit
  <2>4. admitted[c] = 0 /\ lost[c] = 0 /\ ticks = 0
    BY DEF LimiterInit
  <2>5. QED
    BY <1>a, <1>f, <2>2, <2>3, <2>4
<1>4. QED
  BY <1>1, <1>2, <1>3 DEF LimiterInv, Within

\* Every step of the process keeps it.
LEMMA LimiterKept ==
  ASSUME Burst <= TTL + 1, LimiterInv, [Next]_vars
  PROVE  LimiterInv'
<1>1. LimiterStep
  BY LimiterSteps
<1>2. LimiterTyped' /\ Recency' /\ Named' /\ Rested'
  BY <1>1, TableKept DEF LimiterInv
<1>3. ASSUME NEW r \in Request, GetBucket(r) PROVE Within'
  <2>1. ASSUME NEW d \in Client
        PROVE  /\ IsFiniteSet(Stock(d))'
               /\ admitted'[d] + Cardinality(Stock(d)') + Owed(d)' <= Burst * (1 + lost'[d]) + ticks'
    <3>1. CASE d = client[r]
      BY <1>3, <3>1, GetOfItself DEF LimiterInv
    <3>2. CASE d # client[r]
      BY <1>3, <3>2, GetOfAnother DEF LimiterInv
    <3>3. QED
      BY <3>1, <3>2
  <2>2. QED
    BY <2>1 DEF Within
<1>4. ASSUME NEW r \in Request, AllowClient(r) PROVE Within'
  BY <1>4, AllowWithin DEF LimiterInv
<1>5. ASSUME Refill PROVE Within'
  BY <1>5, RefillWithin DEF LimiterInv
<1>6. ASSUME GoesOn \/ \E r \in Request : TakeGlobal(r) \/ \E c \in Client : Arrive(r, c)
      PROVE  Within'
  <2>1. LimiterTyped /\ Within
    BY DEF LimiterInv
  <2>2. QED
    BY <1>6, <2>1, OtherWithin
<1>7. QED
  BY <1>1, <1>2, <1>3, <1>4, <1>5, <1>6 DEF LimiterStep, LimiterInv

\* A client is let through no more often than its rate allows, but for one more burst each time
\* MaxSize other clients came between two of its requests (rateLimiterStore.get and Allow, with
\* requests of all clients between them), when an entry gets cold only after its bucket had the
\* time to fill again. With a shorter TTL it is not true: a client whose entry got cold comes back
\* to a full bucket sooner than its rate would have filled the old one.
THEOREM ClientsAreBounded ==
  ASSUME Burst <= TTL + 1
  PROVE  Spec => []ClientBounded
<1>1. Init => LimiterInv
  BY LimiterStarts DEF Init
<1>2. LimiterInv /\ [Next]_vars => LimiterInv'
  BY LimiterKept
<1>3. LimiterInv => ClientBounded
  <2> SUFFICES ASSUME LimiterInv, NEW c \in Client
               PROVE  admitted[c] <= Burst * (1 + lost[c]) + ticks
    BY DEF ClientBounded
  <2>1. PICK k \in Nat : k = Cardinality(Stock(c))
    BY FS_CardinalityType DEF LimiterInv, Within
  <2>2. PICK o \in Nat : o = Owed(c)
    BY LimiterAssumption DEF Owed
  <2>3. PICK B \in Nat, a \in Nat, t \in Nat : B = Burst * (1 + lost[c]) /\ a = admitted[c] /\ t = ticks
    BY LimiterAssumption DEF LimiterInv, LimiterTyped
  <2>4. a + k + o <= B + t
    BY <2>1, <2>2, <2>3 DEF LimiterInv, Within
  <2>5. QED
    BY <2>3, <2>4
<1>4. QED
  BY <1>1, <1>2, <1>3, PTL DEF Spec

--------------------------------------------------------------------------------
(* Type correctness of both processes, which needs the table to be in order   *)
(* and the entries of the monitor to be kept.                                 *)

\* The environment, the listeners and main's context.
EnvTyped ==
  /\ signalled \in BOOLEAN
  /\ budget \in [BudgetKind -> Nat]
  /\ listener \in {"off", "opening", "listening", "failed", "closed"}
  /\ mongo \in {"up", "down"}
  /\ sqs \in {"off", "unhandled", "on"}
  /\ beat \in [Broker -> {Never} \cup 0 .. (StaleAfter + 1)]
  /\ healthServer \in {"off", "listening", "failed", "closed"}
  /\ \A l \in AllLoops \ Started : loop[l] = "off"

\* Every step of either process keeps them.
LEMMA EnvKept ==
  ASSUME LoopsAwaited, EnvTyped, [Next]_vars
  PROVE  EnvTyped'
<1>s. ASSUME NEW k \in BudgetKind, Spend(k) PROVE budget' \in [BudgetKind -> Nat]
  BY <1>s DEF Spend, EnvTyped
<1>k. {"requests", "atOnce", "commands", "ticks", "flips", "signals", "failures"} = BudgetKind
  BY DEF BudgetKind
<1>u. UNCHANGED <<sqs, loop>> => \A l \in (AllLoops \ Started)' : loop'[l] = "off"
  BY DEF EnvTyped, Started, AllLoops
<1>1. CASE UNCHANGED vars
  BY <1>1, <1>u DEF vars, procVars, serverVars, workerVars, EnvTyped
<1>2. ASSUME ServerNext, UNCHANGED workerVars PROVE EnvTyped'
  <2>1. CASE ServerMain
    BY <1>2, <1>s, <1>k, <1>u, <2>1 DEF ServerMain, ServerAcquire, ServerAcquireFails, StartServer,
       BeginDrain, EndDrain, ServerRelease, ServerExit, Acquire, AcquireFails, Release, Exit, EnvTyped,
       serverVars, workerVars
  <2>2. CASE ServerSignal \/ Listen \/ MongoFlips
    BY <1>2, <1>s, <1>k, <1>u, <2>2 DEF ServerSignal, Listen, MongoFlips, EnvTyped, procVars, serverVars,
       workerVars
  <2>3. CASE ServerProbe \/ Janitor \/ Tick
    BY <1>2, <1>s, <1>k, <1>u, <2>3 DEF ServerProbe, Janitor, Tick, EnvTyped, procVars, serverVars,
       workerVars
  <2>4. ASSUME NEW r \in Request, HandleRequest(r) PROVE EnvTyped'
    BY <1>2, <1>s, <1>k, <1>u, <2>4 DEF HandleRequest, ServerArrive, Limit, BeginCommand, EndCommand,
       Respond, EnvTyped, procVars, workerVars
  <2>5. QED
    BY <1>2, <2>1, <2>2, <2>3, <2>4 DEF ServerNext
<1>3. ASSUME WorkerNext, UNCHANGED serverVars PROVE EnvTyped'
  <2>1. CASE WorkerAcquire \/ EndRun \/ WorkerExit
    BY <1>3, <1>s, <1>k, <1>u, <2>1 DEF WorkerAcquire, EndRun, WorkerExit, Acquire, AcquireFails, Release,
       Exit, EnvTyped, serverVars, workerVars
  <2>2. CASE StartWorker
    <3>1. UNCHANGED sqs /\ \A l \in AllLoops : l \notin Started => loop'[l] = "off"
      BY <2>2 DEF StartWorker
    <3>2. \A l \in (AllLoops \ Started)' : loop'[l] = "off"
      BY <3>1 DEF Started, AllLoops
    <3>3. QED
      BY <1>3, <1>s, <1>k, <2>2, <3>2 DEF StartWorker, EnvTyped, serverVars
  <2>3. CASE WorkerSignal \/ StopHealthServer \/ WorkerProbe
    BY <1>3, <1>s, <1>k, <1>u, <2>3 DEF WorkerSignal, StopHealthServer, WorkerProbe, EnvTyped, procVars,
       serverVars, workerVars
  <2>4. CASE WorkerTick
    <3>1. \A b \in Broker : beat[b] \in {Never} \cup 0 .. (StaleAfter + 1)
      BY DEF EnvTyped
    <3>2. beat' \in [Broker -> {Never} \cup 0 .. (StaleAfter + 1)]
      BY <2>4, <3>1, WorkerAssumption DEF WorkerTick
    <3>3. QED
      BY <1>3, <1>u, <2>4, <3>2 DEF WorkerTick, EnvTyped, procVars, serverVars
  <2>5. ASSUME NEW l \in AllLoops, RunLoop(l) \/ StopLoop(l) PROVE EnvTyped'
    <3>1. loop[l] # "off" /\ l \in Started /\ UNCHANGED <<procVars, budget, sqs, healthServer>>
      BY <2>5 DEF RunLoop, StopLoop, PollReturns, PollFails, PollAgain, LoopReturns, EnvTyped
    <3>2. \A k \in AllLoops : k # l => loop'[k] = loop[k]
      BY <2>5 DEF RunLoop, StopLoop, PollReturns, PollFails, PollAgain, LoopReturns, LoopsAwaited
    <3>3. \A k \in (AllLoops \ Started)' : loop'[k] = "off"
      BY <3>1, <3>2 DEF Started, AllLoops, EnvTyped
    <3>4. l[1] \in Broker
      BY DEF AllLoops, Loops
    <3>5. beat' = beat \/ \E b \in Broker : beat' = [beat EXCEPT ![b] = 0]
      BY <2>5, <3>4 DEF RunLoop, StopLoop, PollReturns, PollFails, PollAgain, LoopReturns, Heartbeat
    <3>6. beat' \in [Broker -> {Never} \cup 0 .. (StaleAfter + 1)]
      BY <3>5, WorkerAssumption DEF EnvTyped
    <3>7. QED
      BY <1>3, <3>1, <3>3, <3>6 DEF EnvTyped, procVars, serverVars
  <2>6. QED
    BY <1>3, <2>1, <2>2, <2>3, <2>4, <2>5 DEF WorkerNext, WorkerMain
<1>4. QED
  BY <1>1, <1>2, <1>3 DEF Next

\* The command monitor: its janitor holds an expired entry of a command that has run.
MonitorTyped ==
  /\ MonitorTypeOK
  /\ purging # 0 => age[purging] > SpanTTL /\ call[purging] # "none"

\* Every step of the monitor keeps its types.
LEMMA MonitorTypesKept ==
  ASSUME EntriesKept, MonitorTyped, MonitorStep
  PROVE  MonitorTyped'
<1>a. 0 \notin Command /\ SpanTTL \in Nat
  BY MonitorAssumption
<1>t. /\ age \in [Command -> 0 .. (SpanTTL + 1)] /\ call \in [Command -> CallState]
      /\ purging \in Command \cup {0} /\ ended \subseteq Command /\ leaked \subseteq Command
  BY DEF MonitorTyped, MonitorTypeOK, CallState
<1>1. CASE UNCHANGED monitorVars \/ StartJanitor \/ StopJanitor
  BY <1>1 DEF monitorVars, StartJanitor, StopJanitor, MonitorTyped, MonitorTypeOK
<1>c. ASSUME NEW c \in Command, NEW x \in CallState \ {"none"}, call' = [call EXCEPT ![c] = x],
             UNCHANGED <<age, leaked, purging, janitor>>, entries' \subseteq Command,
             ended' = ended \/ (ended' = ended \cup {c})
      PROVE  MonitorTyped'
  <2>1. call' \in [Command -> CallState] /\ \A d \in Command : call'[d] = IF d = c THEN x ELSE call[d]
    BY <1>t, <1>c
  <2>2. ended' \subseteq {d \in Command : call'[d] # "none"}
    BY <1>c, <2>1 DEF MonitorTyped, MonitorTypeOK
  <2>3. purging' # 0 => age'[purging'] > SpanTTL /\ call'[purging'] # "none"
    BY <1>t, <1>c, <2>1 DEF MonitorTyped
  <2>4. QED
    BY <1>c, <2>1, <2>2, <2>3 DEF MonitorTyped, MonitorTypeOK, CallState
<1>e. entries \subseteq Command
  BY DEF MonitorTyped, MonitorTypeOK
<1>s. {"running", "finishing", "done"} \subseteq CallState \ {"none"}
  BY DEF CallState
<1>2. ASSUME NEW c \in Command, CommandStarted(c) \/ CommandReported(c) \/ FinishSpan(c)
      PROVE  MonitorTyped'
  <2>1. /\ UNCHANGED <<age, leaked, purging, janitor>> /\ entries' \subseteq Command
        /\ ended' = ended \/ (ended' = ended \cup {c})
        /\ \E x \in {"running", "finishing", "done"} : call' = [call EXCEPT ![c] = x]
    BY <1>2, <1>e DEF CommandStarted, CommandReported, FinishSpan
  <2>2. QED
    BY <1>c, <1>s, <2>1
<1>3. ASSUME NEW c \in Command, FindLeak(c) PROVE MonitorTyped'
  <2>1. purging' = c /\ c \in entries /\ age[c] > SpanTTL
        /\ UNCHANGED <<entries, age, call, ended, leaked, janitor>>
    BY <1>3 DEF FindLeak
  <2>2. call[c] # "none"
    BY <2>1 DEF EntriesKept
  <2>3. QED
    BY <1>3, <2>1, <2>2 DEF MonitorTyped, MonitorTypeOK
<1>4. CASE PurgeLeak
  <2>1. /\ purging # 0 /\ purging \in Command /\ UNCHANGED <<age, call, janitor>>
        /\ entries' \subseteq entries /\ purging' \in {0, purging}
        /\ ended' \subseteq ended \cup {purging} /\ leaked' \subseteq leaked \cup {purging}
    BY <1>4, <1>t DEF PurgeLeak
  <2>2. age[purging] > SpanTTL /\ call[purging] # "none"
    BY <2>1 DEF MonitorTyped
  <2>3. QED
    BY <1>t, <2>1, <2>2 DEF MonitorTyped, MonitorTypeOK
<1>5. CASE AgeEntries
  <2>1. /\ UNCHANGED <<entries, call, ended, leaked, purging, janitor>>
        /\ \A c \in Command : age'[c] = IF call[c] = "running" /\ age[c] <= SpanTTL THEN age[c] + 1 ELSE age[c]
        /\ DOMAIN age' = Command /\ age' = [c \in Command |-> age'[c]]
    BY <1>5 DEF AgeEntries
  <2>2. \A c \in Command : /\ age'[c] \in 0 .. (SpanTTL + 1)
                           /\ age[c] > SpanTTL => age'[c] > SpanTTL
    BY <1>a, <1>t, <2>1
  <2>3. age' \in [Command -> 0 .. (SpanTTL + 1)]
    BY <2>1, <2>2
  <2>4. QED
    BY <1>t, <2>1, <2>2, <2>3 DEF MonitorTyped, MonitorTypeOK
<1>6. QED
  BY <1>1, <1>2, <1>3, <1>4, <1>5 DEF MonitorStep

\* The health registry.
HealthTyped ==
  /\ results \in [DOMAIN results -> Result]
  /\ bad \in [DOMAIN bad -> 0 .. FailCap]
  /\ DOMAIN results \subseteq Names
  /\ found \in {"none", "ok", "failing"}

\* Every step of the registry keeps its types.
LEMMA HealthTypesKept ==
  ASSUME Probing, HealthTyped, ProbeStep
  PROVE  HealthTyped'
<1>f. FailCap \in Nat
  BY HealthAssumption DEF FailCap
<1>a. \A n \in 0 .. FailCap : AtMost(n + 1, FailCap) \in 0 .. FailCap
  BY <1>f DEF AtMost
<1>u. \A res \in Result, err \in BOOLEAN : Updated(res, err) \in Result
  BY <1>f, <1>a DEF Updated, Result
<1>1. CASE UNCHANGED healthVars
  BY <1>1 DEF healthVars, HealthTyped
<1>2. CASE StartProbing(Registered)
  <2>1. \A i \in DOMAIN Registered : Registered[i] \in Names
    BY RegisteredType, ElementOfSeq
  <2>2. PICK R \in SUBSET Names : R = {Registered[i] : i \in DOMAIN Registered}
    BY <2>1
  <2>3. /\ results' = [c \in R |-> [err |-> FALSE, fails |-> 0]] /\ bad' = [c \in R |-> 0]
        /\ found' = found
    BY <1>2, <2>2 DEF StartProbing
  <2>4. [err |-> FALSE, fails |-> 0] \in Result /\ 0 \in 0 .. FailCap
    BY <1>f DEF Result
  <2>5. QED
    BY <2>2, <2>3, <2>4 DEF HealthTyped
<1>3. CASE BeginRound(Registered) \/ \E cancelled \in BOOLEAN : StopProbing(cancelled)
  BY <1>3 DEF BeginRound, StopProbing, HealthTyped
<1>4. ASSUME NEW err \in BOOLEAN, NEW atFault \in BOOLEAN, Check(err, atFault) PROVE HealthTyped'
  <2>1. /\ UNCHANGED results /\ found' \in {"ok", "failing"}
        /\ bad' = [bad EXCEPT ![Head(remaining)] = IF atFault THEN AtMost(@ + 1, FailCap) ELSE 0]
    BY <1>4 DEF Check
  <2>2. DOMAIN bad' = DOMAIN bad
    BY <2>1
  <2>3. \A c \in DOMAIN bad : bad[c] \in 0 .. FailCap
    BY DEF HealthTyped
  <2>4. \A c \in DOMAIN bad : bad'[c] \in 0 .. FailCap
    BY <1>a, <1>f, <2>1, <2>3
  <2>5. bad' \in [DOMAIN bad -> 0 .. FailCap]
    BY <2>1, <2>4 DEF HealthTyped
  <2>6. QED
    BY <2>1, <2>2, <2>5 DEF HealthTyped
<1>5. CASE Record
  <2>1. /\ UNCHANGED bad /\ found' = "none"
        /\ results' = [results EXCEPT ![Head(remaining)] = Updated(@, found = "failing")]
    BY <1>5 DEF Record
  <2>2. \A c \in DOMAIN results : Updated(results[c], found = "failing") \in Result
    BY <1>u DEF HealthTyped
  <2>3. results' \in [DOMAIN results -> Result] /\ DOMAIN results' = DOMAIN results
    BY <2>1, <2>2 DEF HealthTyped
  <2>4. QED
    BY <2>1, <2>3 DEF HealthTyped
<1>6. QED
  BY <1>1, <1>2, <1>3, <1>4, <1>5 DEF ProbeStep

\* What the registry says of its own state.
LEMMA HealthTypes == Probing /\ HealthTyped => HealthTypeOK
<1> SUFFICES ASSUME Probing, HealthTyped PROVE HealthTypeOK
  OBVIOUS
<1>1. DOMAIN results \in SUBSET Checker
  BY CheckerAssumption DEF HealthTyped, Names
<1>2. results \in [DOMAIN results -> Result] /\ bad \in [DOMAIN results -> 0 .. FailCap]
  BY DEF HealthTyped, Probing
<1>3. remaining \in Seq(DOMAIN results)
  <2>1. PICK n \in Nat : n = Len(remaining)
    BY LenProperties DEF Probing
  <2>2. \A i \in 1 .. n : remaining[i] \in DOMAIN results
    BY <2>1 DEF Probing
  <2>3. remaining = [i \in 1 .. n |-> remaining[i]]
    BY <2>1, LenProperties DEF Probing
  <2>4. QED
    BY <2>2, <2>3
<1>4. (prober = "probing") = (remaining # <<>>)
  BY DEF Probing
<1>5. QED
  BY <1>1, <1>2, <1>3, <1>4 DEF HealthTypeOK, Probing, HealthTyped

\* A sequence that agrees with a longer one is a prefix of it.
LEMMA PrefixOf ==
  ASSUME NEW s \in Seq(Resource), NEW t \in Seq(Resource), Len(s) <= Len(t),
         \A i \in 1 .. Len(s) : s[i] = t[i]
  PROVE  IsPrefix(s, t)
<1>1. PICK n \in Nat, k \in Nat : n = Len(s) /\ k = Len(t) /\ n <= k
  BY LenProperties
<1>2. \A i \in 1 .. n : s[i] \in Resource /\ t[i] \in Resource /\ s[i] = t[i]
  BY <1>1, ElementOfSeq
<1>3. /\ SubSeq(s, 1, n) \in Seq(Resource)
      /\ Len(SubSeq(s, 1, n)) = IF 1 <= n THEN n - 1 + 1 ELSE 0
      /\ \A i \in 1 .. n - 1 + 1 : SubSeq(s, 1, n)[i] = s[1 + i - 1]
  BY <1>2, SubSeqProperties
<1>4. /\ SubSeq(t, 1, n) \in Seq(Resource)
      /\ Len(SubSeq(t, 1, n)) = IF 1 <= n THEN n - 1 + 1 ELSE 0
      /\ \A i \in 1 .. n - 1 + 1 : SubSeq(t, 1, n)[i] = t[1 + i - 1]
  BY <1>2, SubSeqProperties
<1>5. ASSUME NEW i \in 1 .. Len(SubSeq(s, 1, n)) PROVE SubSeq(s, 1, n)[i] = SubSeq(t, 1, n)[i]
  <2>1. i \in 1 .. n /\ i \in 1 .. n - 1 + 1 /\ 1 + i - 1 = i
    BY <1>3
  <2>2. QED
    BY <1>2, <1>3, <1>4, <2>1
<1>6. SubSeq(s, 1, n) = SubSeq(t, 1, n)
  BY <1>3, <1>4, <1>5, SeqEqual
<1>7. QED
  BY <1>1, <1>6 DEF IsPrefix

\* What the books of the resources say of their types.
LEMMA ProcessTypes == Resources /\ EnvTyped => ProcessTypeOK
<1> SUFFICES ASSUME Resources, EnvTyped PROVE ProcessTypeOK
  OBVIOUS
<1>1. PICK h \in Seq(Resource), q \in Seq(Resource) : h = held /\ q = cleanups
  BY DEF Resources
<1>2. IsPrefix(held, Acquisitions)
  <2>1. Acquisitions \in Seq(Resource)
    BY AcquisitionsDistinct
  <2>2. held \in Seq(Resource) /\ Len(held) <= Len(Acquisitions)
        /\ \A i \in 1 .. Len(held) : held[i] = Acquisitions[i]
    BY DEF Resources
  <2>3. QED
    BY <2>1, <2>2, PrefixOf
<1>3. IsSuffix(cleanups, Reverse(held))
  <2>1. PICK u \in Seq(Resource) : u = Reverse(h)
    BY ReverseType
  <2>2. PICK v \in Seq(Resource) : v = Reverse(u)
    BY ReverseType
  <2>3. CASE cleanups = <<>>
    <3>1. PICK w \in Seq(Resource) : w = Reverse(q) /\ Len(w) = 0
      BY <1>1, <2>3, ReverseType, EmptySeq
    <3>2. Len(w) <= Len(v) /\ \A i \in 1 .. Len(w) : w[i] = v[i]
      BY <3>1, LenProperties
    <3>3. QED
      BY <1>1, <2>1, <2>2, <3>1, <3>2, PrefixOf DEF IsSuffix
  <2>4. CASE cleanups = Reverse(held)
    <3>1. Reverse(cleanups) = v /\ Reverse(Reverse(held)) = v
      BY <1>1, <2>1, <2>2, <2>4
    <3>2. Len(v) <= Len(v) /\ \A i \in 1 .. Len(v) : v[i] = v[i]
      BY LenProperties
    <3>3. QED
      BY <3>1, <3>2, PrefixOf DEF IsSuffix
  <2>5. QED
    BY <2>3, <2>4 DEF Resources
<1>4. (exit = "none") = Alive
  BY DEF Resources, Alive
<1>5. QED
  BY <1>2, <1>3, <1>4 DEF ProcessTypeOK, Resources, ProcState, EnvTyped

\* The limiter's table is in order, whatever the time an entry takes to get cold.
LimiterOrdered == LimiterTyped /\ Recency /\ Named /\ Rested
CountsTyped    == seen \in Client \cup {0} /\ global \in 0 .. GlobalBurst

\* Every step of the limiter keeps its counts.
LEMMA CountsKept == CountsTyped /\ LimiterStep => CountsTyped'
<1> SUFFICES ASSUME CountsTyped, LimiterStep PROVE CountsTyped'
  OBVIOUS
<1>1. PICK n \in Nat : n = GlobalBurst
  BY LimiterAssumption
<1>2. ASSUME NEW r \in Request, NEW c \in Client, Arrive(r, c) PROVE CountsTyped'
  BY <1>2 DEF Arrive, CountsTyped
<1>3. ASSUME NEW r \in Request, TakeGlobal(r) PROVE CountsTyped'
  BY <1>1, <1>3 DEF TakeGlobal, CountsTyped
<1>4. ASSUME NEW r \in Request, GetBucket(r) \/ AllowClient(r) PROVE CountsTyped'
  <2>1. UNCHANGED <<seen, global>>
    BY <1>4 DEF GetBucket, AllowClient
  <2>2. QED
    BY <2>1 DEF CountsTyped
<1>5. CASE Refill
  <2>1. seen' = seen /\ global' = IF global < GlobalBurst THEN global + 1 ELSE global
    BY <1>5 DEF Refill
  <2>2. QED
    BY <1>1, <2>1 DEF CountsTyped
<1>6. CASE GoesOn
  BY <1>6 DEF GoesOn, limiterVars, CountsTyped
<1>7. QED
  BY <1>2, <1>3, <1>4, <1>5, <1>6 DEF LimiterStep

\* What the order of the table says of its type.
LEMMA LimiterTypes == LimiterOrdered /\ CountsTyped => LimiterTypeOK
<1> SUFFICES ASSUME LimiterOrdered, CountsTyped PROVE LimiterTypeOK
  OBVIOUS
<1>1. PICK n \in Nat : n = Len(order) /\ DOMAIN order = 1 .. n
  BY LenProperties DEF LimiterOrdered, LimiterTyped
<1>2. IsInjective([i \in DOMAIN order |-> order[i].client])
  <2>1. \A i, j \in 1 .. n : order[i].client = order[j].client => i = j
    BY <1>1 DEF LimiterOrdered, Recency
  <2>2. QED
    BY <1>1, <2>1 DEF IsInjective
<1>3. QED
  BY <1>2 DEF LimiterTypeOK, LimiterOrdered, LimiterTyped, CountsTyped

\* All that the types rest on.
ProcessesTyped ==
  /\ Resources /\ EnvTyped
  /\ EntriesKept /\ MonitorTyped
  /\ Probing /\ HealthTyped
  /\ Draining /\ LoopsAwaited
  /\ LimiterOrdered /\ CountsTyped

\* It holds of a process that has just started.
LEMMA TypesStart == Init => ProcessesTyped
<1> SUFFICES ASSUME Init PROVE ProcessesTyped
  OBVIOUS
<1>1. EnvTyped
  <2>1. budget \in Budgets[binary] /\ binary \in {"server", "worker"}
    BY DEF Init, ProcessInit
  <2>2. budget \in [BudgetKind -> Nat]
    BY <2>1, BudgetsAssumption
  <2>3. QED
    BY <2>2 DEF Init, ProcessInit, ServerInit, WorkerInit, EnvTyped
<1>2. MonitorTyped
  BY MonitorAssumption DEF Init, ServerInit, MonitorInit, MonitorTyped, MonitorTypeOK
<1>3. Probing /\ HealthTyped
  <2>1. <<>> \in Seq(Names) /\ Len(<<>>) = 0 /\ DOMAIN <<>> = {}
    BY EmptySeq
  <2>2. \A S : <<>> \in [{} -> S]
    OBVIOUS
  <2>3. QED
    BY <2>1, <2>2 DEF Init, HealthInit, Probing, HealthTyped
<1>4. LoopsAwaited
  BY DEF Init, WorkerInit, LoopsAwaited, LoopState, Busy
<1>5. LimiterOrdered
  BY LimiterStarts DEF Init, LimiterInv, LimiterOrdered
<1>6. CountsTyped
  BY LimiterAssumption DEF Init, ServerInit, LimiterInit, CountsTyped
<1>7. QED
  BY <1>1, <1>2, <1>3, <1>4, <1>5, <1>6, ResourcesStart, MonitorStarts, DrainingStarts
     DEF ProcessesTyped

\* Every step of either process keeps it.
LEMMA TypesKept == ProcessesTyped /\ [Next]_vars => ProcessesTyped'
<1> SUFFICES ASSUME ProcessesTyped, [Next]_vars PROVE ProcessesTyped'
  OBVIOUS
<1>1. Resources' /\ EnvTyped'
  BY ResourcesKept, ProcSteps, EnvKept DEF ProcessesTyped
<1>2. EntriesKept' /\ MonitorTyped'
  BY MonitorSteps, MonitorKeeps, MonitorTypesKept DEF ProcessesTyped
<1>3. Probing' /\ HealthTyped'
  BY ProbeSteps, ProbingKept, HealthTypesKept DEF ProcessesTyped
<1>4. Draining' /\ LoopsAwaited'
  BY DrainingKept, LoopsKept DEF ProcessesTyped
<1>5. LimiterOrdered' /\ CountsTyped'
  BY LimiterSteps, TableKept, CountsKept DEF ProcessesTyped, LimiterOrdered
<1>6. QED
  BY <1>1, <1>2, <1>3, <1>4, <1>5 DEF ProcessesTyped

\* The server and the worker stay in the states their code knows: among them, that a client is in
\* the limiter's table once and the table within its size (rate_limit.go: get), that only spans of
\* commands that ran end and only expired ones are marked as leaked (mongo_otel.go), that what is
\* held is what the injector acquires first and what is left to clean up the last of it reversed
\* (wire_gen.go), and that the round of checks is over exactly when the prober rests (health.go).
THEOREM TypeCorrect == Spec => []TypeOK
<1>1. ProcessesTyped => TypeOK
  <2> SUFFICES ASSUME ProcessesTyped PROVE TypeOK
    OBVIOUS
  <2>1. binary \in {"server", "worker"}
    BY DEF ProcessesTyped, Resources
  <2>2. ProcessTypeOK
    BY ProcessTypes DEF ProcessesTyped
  <2>3. HealthTypeOK
    BY HealthTypes DEF ProcessesTyped
  <2>4. ServerTypeOK
    BY LimiterTypes DEF ProcessesTyped, EnvTyped, Draining, MonitorTyped, ServerTypeOK
  <2>5. WorkerTypeOK
    BY DEF ProcessesTyped, EnvTyped, LoopsAwaited, LoopState, WorkerTypeOK
  <2>6. QED
    BY <2>1, <2>2, <2>3, <2>4, <2>5 DEF TypeOK
<1>2. QED
  BY <1>1, TypesStart, TypesKept, PTL DEF Spec

================================================================================
