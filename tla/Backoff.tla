--------------------------------- MODULE Backoff ---------------------------------
(***************************************************************************)
(* The delay before a retry, of both brokers (sqs/backoff.go and its twin   *)
(* in kafka/consumer.go), with its overflow.  The word size is a parameter, *)
(* since a duration has 64 bits and TLC's integers 32: what is said of      *)
(* these operators is proved.                                               *)
(***************************************************************************)
EXTENDS Integers, TLAPS

CONSTANTS
  Half,          \* 2^63: an int64 is in -Half .. Half - 1
  SQSMaxDelay    \* the longest delay the service accepts

\* The integer that a word has for x.
Word(x) == LET r == x % (2 * Half)
           IN  IF r < Half THEN r ELSE r - 2 * Half

\* 1 << uint(n) with n clamped to [0, 16].
Factor(n) == CASE n <= 0 -> 1     [] n = 1  -> 2     [] n = 2  -> 4     [] n = 3  -> 8
               [] n = 4  -> 16    [] n = 5  -> 32    [] n = 6  -> 64    [] n = 7  -> 128
               [] n = 8  -> 256   [] n = 9  -> 512   [] n = 10 -> 1024  [] n = 11 -> 2048
               [] n = 12 -> 4096  [] n = 13 -> 8192  [] n = 14 -> 16384 [] n = 15 -> 32768
               [] OTHER  -> 65536

\* backoffDelay of the Kafka consumer.
KafkaBackoffDelay(base, max, n) ==
  LET d == Word(base * Factor(n))
  IN  IF d <= 0 \/ d > max THEN max ELSE d

\* backoffDelay of the SQS consumer.
Ceiling(max) == IF max > SQSMaxDelay THEN SQSMaxDelay ELSE max
SqsBackoffDelay(base, max, n) == KafkaBackoffDelay(base, Ceiling(max), n)

--------------------------------------------------------------------------------
Least(d, max) == IF d > max THEN max ELSE d

\* The factor of a later retry is at least that of an earlier one, and at most 65536
\* (sqs/backoff.go: the shift is clamped).
LEMMA FactorRange ==
  ASSUME NEW n \in Int
  PROVE  Factor(n) \in Nat /\ Factor(n) >= 1 /\ Factor(n) <= 65536
  BY DEF Factor

\* A later retry has no smaller factor.
LEMMA FactorGrows ==
  ASSUME NEW n \in Int, NEW m \in Int, n <= m
  PROVE  Factor(n) <= Factor(m)
  BY SMTT(60) DEF Factor

\* A number that fits is what a word makes of it, and every number becomes one that fits.
LEMMA WordFits ==
  ASSUME Half \in Nat, NEW x \in Nat, x < Half
  PROVE  Word(x) = x
<1>1. x % (2 * Half) = x
  OBVIOUS
<1> QED
  BY <1>1 DEF Word

\* A base whose largest product fits: 39 hours for 64 bits.
Safe(base) == base * 65536 < Half

\* The product of a safe base fits whatever the retry.
LEMMA SafeProduct ==
  ASSUME Half \in Nat, NEW base \in Nat, base > 0, Safe(base), NEW n \in Int
  PROVE  /\ base * Factor(n) \in Nat
         /\ base * Factor(n) >= base
         /\ Word(base * Factor(n)) = base * Factor(n)
<1> DEFINE k == Factor(n)
<1>1. k \in Nat /\ k >= 1 /\ k <= 65536
  BY FactorRange
<1> HIDE DEF k
<1>2. base * k \in Nat /\ base * k >= base * 1 /\ base * k <= base * 65536
  BY <1>1
<1>3. base * k < Half
  BY <1>2 DEF Safe
<1> QED
  BY <1>2, <1>3, WordFits DEF k

\* With a safe base the delay is exactly the doubled base cut at the maximum: testing the
\* sign and the maximum of the product misses no overflow (backoffDelay of both brokers).
THEOREM BackoffExact ==
  ASSUME Half \in Nat, NEW base \in Nat, base > 0, Safe(base),
         NEW max \in Nat, max > 0, NEW n \in Int
  PROVE  KafkaBackoffDelay(base, max, n) = Least(base * Factor(n), max)
  BY SafeProduct DEF KafkaBackoffDelay, Least

\* It is between base and max, as sqs/backoff.go states, and a message that has been retried
\* more often waits at least as long.
THEOREM BackoffGrows ==
  ASSUME Half \in Nat, NEW base \in Nat, base > 0, Safe(base),
         NEW max \in Nat, max >= base, NEW n \in Int, NEW m \in Int, n <= m
  PROVE  /\ base <= KafkaBackoffDelay(base, max, n)
         /\ KafkaBackoffDelay(base, max, n) <= KafkaBackoffDelay(base, max, m)
         /\ KafkaBackoffDelay(base, max, m) <= max
<1> DEFINE d(i) == base * Factor(i)
<1>1. \A i \in {n, m} : KafkaBackoffDelay(base, max, i) = Least(d(i), max)
  BY BackoffExact
<1>2. \A i \in {n, m} : d(i) \in Nat /\ d(i) >= base
  BY SafeProduct
<1>3. d(n) <= d(m)
  <2> DEFINE j == Factor(n)
             k == Factor(m)
  <2>1. j \in Nat /\ k \in Nat /\ j <= k
    BY FactorRange, FactorGrows
  <2> HIDE DEF j, k
  <2>2. base * j <= base * k
    BY <2>1
  <2> QED
    BY <2>2 DEF j, k
<1> HIDE DEF d
<1> QED
  BY <1>1, <1>2, <1>3 DEF Least

\* The service accepts every delay of the SQS consumer, whatever base and maximum are
\* configured and however the product wraps (sqs/backoff.go: SQSMaxDelay).
THEOREM SqsDelayAccepted ==
  ASSUME Half \in Nat, Half > 0, SQSMaxDelay \in Nat, SQSMaxDelay > 0,
         NEW base \in Int, NEW max \in Int, max > 0, NEW n \in Int
  PROVE  /\ SqsBackoffDelay(base, max, n) > 0
         /\ SqsBackoffDelay(base, max, n) <= SQSMaxDelay
<1> DEFINE x == base * Factor(n)
<1>1. x \in Int
  BY FactorRange
<1> HIDE DEF x
<1>2. Word(x) \in Int
  BY <1>1 DEF Word
<1>3. Ceiling(max) \in Int /\ Ceiling(max) > 0 /\ Ceiling(max) <= SQSMaxDelay
  BY DEF Ceiling
<1> QED
  BY <1>2, <1>3 DEF SqsBackoffDelay, KafkaBackoffDelay, x

\* Beyond that the tests of sign and maximum are not enough: there is a base whose product
\* wraps to a small positive number, and the delay is 65536 nanoseconds instead of the
\* maximum (kafka/consumer.go: backoffDelay, which has no ceiling of its own).
THEOREM BackoffWraps ==
  ASSUME NEW q \in Nat, q > 65536, Half = 65536 * q,
         NEW max \in Nat, max > 65536
  PROVE  KafkaBackoffDelay(2 * q + 1, max, 16) = 65536
<1>1. Factor(16) = 65536
  BY DEF Factor
<1>2. (2 * q + 1) * 65536 = 65536 + 1 * (2 * Half)
  OBVIOUS
<1>3. (2 * q + 1) * 65536 % (2 * Half) = 65536
  OBVIOUS
<1>4. 65536 < Half
  OBVIOUS
<1>5. Word((2 * q + 1) * 65536) = 65536
  BY <1>3, <1>4 DEF Word
<1> QED
  BY <1>1, <1>5 DEF KafkaBackoffDelay
================================================================================
