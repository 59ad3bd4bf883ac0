------------------------------ MODULE RateLimiter ------------------------------
(***************************************************************************)
(* The rate-limit middleware (internal/middleware/rate_limit.go): one token *)
(* bucket for everybody, then one per client out of an LRU table.  The      *)
(* three calls of a request (global.Allow, perIP.get, Allow on the bucket   *)
(* it returned) are each atomic and nothing holds them together: between    *)
(* get and Allow other requests may evict the bucket.  A bucket is named    *)
(* by the request that created it; time is counted in the refills of one    *)
(* token (1/rps), the same for both limits.                                 *)
(***************************************************************************)
EXTENDS Naturals, Sequences, FiniteSets, SequencesExt

CONSTANTS
  Request,       \* 1..n, in order of arrival
  Client,        \* 1..m: client addresses, numbered as they are first seen
  GlobalBurst,   \* capacity of the common bucket
  Burst,         \* capacity of a client's bucket
  MaxSize,       \* entries of the table
  TTL            \* ticks after which an unused entry is cold

ASSUME LimiterAssumption ==
  /\ Request \subseteq Nat \ {0}
  /\ Client \subseteq Nat \ {0}
  /\ {GlobalBurst, Burst, MaxSize, TTL} \subseteq Nat
  /\ MaxSize > 0

VARIABLES
  stage,      \* where a request is: "none", then one of the stages below
  client,     \* who sent it, while the limiter needs to know; or 0
  seen,       \* clients seen so far
  bucket,     \* the bucket perIP.get has returned to it; 0: none
  order,      \* the table: entries, most recently used first
  global,     \* tokens of the common bucket
  tokens,     \* tokens of each client bucket, evicted ones included
  ticks, since, lost, admitted
              \* history: refills so far; clients seen since the client's own
              \* last get; times that set reached MaxSize; requests let through

limiterVars == <<seen, bucket, order, global, tokens, ticks, since, lost, admitted>>

Entry == [client : Client, bucket : Request, age : 0..(TTL + 1)]
Stage == {"none", "arrived", "counted", "holding", "admitted", "busy", "rejected", "answered"}

LimiterTypeOK ==
  /\ stage \in [Request -> Stage]
  /\ client \in [Request -> Client \cup {0}]
  /\ seen \in Client \cup {0}
  /\ bucket \in [Request -> Request \cup {0}]
  /\ order \in Seq(Entry)
  /\ Len(order) <= MaxSize
  /\ IsInjective([i \in DOMAIN order |-> order[i].client])
  /\ global \in 0..GlobalBurst
  /\ tokens \in [Request -> 0..Burst]

--------------------------------------------------------------------------------
LimiterInit == /\ stage = [r \in Request |-> "none"]
               /\ client = [r \in Request |-> 0]
               /\ seen = 0
               /\ bucket = [r \in Request |-> 0]
               /\ order = <<>>
               /\ global = GlobalBurst
               /\ tokens = [r \in Request |-> Burst]
               /\ ticks = 0
               /\ since = [c \in Client |-> {}]
               /\ lost = [c \in Client |-> 0]
               /\ admitted = [c \in Client |-> 0]

Move(r, s) == stage' = [stage EXCEPT ![r] = s]
Forget(r)  == client' = [client EXCEPT ![r] = 0]

\* Clients are interchangeable: the next new one has the next number.
Arrive(r, c) ==
  /\ c <= seen + 1
  /\ seen' = IF c > seen THEN c ELSE seen
  /\ stage[r] = "none"
  /\ \A q \in Request : q < r => stage[q] # "none"
  /\ Move(r, "arrived")
  /\ client' = [client EXCEPT ![r] = c]
  /\ UNCHANGED <<bucket, order, global, tokens, ticks, since, lost, admitted>>

\* global.Allow
TakeGlobal(r) ==
  /\ stage[r] = "arrived"
  /\ IF global > 0 THEN Move(r, "counted") /\ global' = global - 1 /\ UNCHANGED client
                   ELSE Move(r, "rejected") /\ Forget(r) /\ UNCHANGED global
  /\ UNCHANGED <<seen, bucket, order, tokens, ticks, since, lost, admitted>>

Cold(e) == e.age > TTL

\* The eviction loop takes entries from the back while the last one is cold or the
\* table is full; these are the entries it leaves.
Evicted(table) ==
  SubSeq(table, 1,
         Max({0} \cup {n \in DOMAIN table : n < MaxSize /\ ~Cold(table[n])}))

\* Seeded fault: a hit does not move the entry to the front.
Unmoved(table, i) == [table EXCEPT ![i].age = 0]

\* A hit on entry i: it becomes the most recently used one.
Touched(table, i) == <<[table[i] EXCEPT !.age = 0]>> \o RemoveAt(table, i)

\* perIP.get
GetBucket(r) ==
  LET c    == client[r]
      hits == {i \in DOMAIN order : order[i].client = c}
  IN  /\ stage[r] = "counted"
      /\ Move(r, "holding")
      /\ IF hits # {}
         THEN LET i == CHOOSE i \in hits : TRUE
              IN  /\ order' = Touched(order, i)
                  /\ bucket' = [bucket EXCEPT ![r] = order[i].bucket]
         ELSE /\ order' = <<[client |-> c, bucket |-> r, age |-> 0]>> \o Evicted(order)
              /\ bucket' = [bucket EXCEPT ![r] = r]
      /\ since' = [d \in Client |-> IF d = c THEN {} ELSE since[d] \cup {c}]
      /\ lost' = [lost EXCEPT ![c] = @ + (IF Cardinality(since[c]) >= MaxSize THEN 1 ELSE 0)]
      /\ UNCHANGED <<client, seen, global, tokens, ticks, admitted>>

\* Allow on the bucket get has returned, which may have been evicted since.
AllowClient(r) ==
  /\ stage[r] = "holding"
  /\ IF tokens[bucket[r]] > 0
     THEN /\ Move(r, "admitted")
          /\ tokens' = [tokens EXCEPT ![bucket[r]] = @ - 1]
          /\ admitted' = [admitted EXCEPT ![client[r]] = @ + 1]
     ELSE /\ Move(r, "rejected")
          /\ UNCHANGED <<tokens, admitted>>
  /\ bucket' = [bucket EXCEPT ![r] = 0]
  /\ Forget(r)
  /\ UNCHANGED <<seen, order, global, ticks, since, lost>>

\* The time for one token passes.  No request is between get and Allow that long.
Refill ==
  /\ \A r \in Request : stage[r] # "holding"
  /\ ticks' = ticks + 1
  /\ global' = IF global < GlobalBurst THEN global + 1 ELSE global
  /\ tokens' = [b \in Request |-> IF tokens[b] < Burst THEN tokens[b] + 1 ELSE Burst]
  /\ order' = [i \in DOMAIN order |->
                [order[i] EXCEPT !.age = IF @ <= TTL THEN @ + 1 ELSE @]]
  /\ UNCHANGED <<stage, client, seen, bucket, since, lost, admitted>>

--------------------------------------------------------------------------------
\* A client is let through no more often than its rate allows, but for one more burst
\* each time MaxSize other clients came between two of its requests
\* (rateLimiterStore.get: only then may its bucket be evicted before it is full
\* again).
ClientBounded ==
  \A c \in Client : admitted[c] <= Burst * (1 + lost[c]) + ticks
================================================================================
