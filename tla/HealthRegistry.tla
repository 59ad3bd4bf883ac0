----------------------------- MODULE HealthRegistry -----------------------------
(***************************************************************************)
(* The health registry (internal/platform/health): a goroutine probes the  *)
(* registered checkers one after the other, round by round, and /readyz     *)
(* answers from the cached results.  A check and the recording of its       *)
(* result are two steps: the call runs outside the lock.  What a check      *)
(* finds is given by the process that registers the checker.                *)
(***************************************************************************)
EXTENDS Naturals, Sequences

CONSTANTS
  Checker,        \* names of checkers
  Critical,       \* those of SeverityCritical
  FailureLimit    \* failed checks in a row that make the process not ready

ASSUME HealthAssumption == /\ Critical \subseteq Checker
                           /\ FailureLimit \in Nat \ {0}

VARIABLES
  results,    \* the cached result of each registered checker
  prober,     \* "off", "waiting" for the ticker, "probing" a round, "exited"
  remaining,  \* checkers the round has not recorded, in order
  found,      \* what the Check that has returned found: "none", "ok", "failing"
  bad         \* history: checks in a row that found the dependency itself at fault

healthVars == <<results, prober, remaining, found, bad>>

FailCap == FailureLimit           \* bounds the count of failures
AtMost(n, cap) == IF n < cap THEN n ELSE cap

Result == [err : BOOLEAN, fails : 0..FailCap]

HealthTypeOK ==
  /\ \E R \in SUBSET Checker : results \in [R -> Result] /\ bad \in [R -> 0..FailCap]
  /\ prober \in {"off", "waiting", "probing", "exited"}
  /\ remaining \in Seq(DOMAIN results)
  /\ found \in {"none", "ok", "failing"}
  /\ (prober = "probing") = (remaining # <<>>)

--------------------------------------------------------------------------------
HealthInit == /\ results = <<>>
              /\ prober = "off"
              /\ remaining = <<>>
              /\ found = "none"
              /\ bad = <<>>

\* Register for every checker of the sequence, then Start: the first round is run
\* at once.
StartProbing(checkers) ==
  LET R == {checkers[i] : i \in DOMAIN checkers}
  IN  /\ prober = "off"
      /\ results' = [c \in R |-> [err |-> FALSE, fails |-> 0]]
      /\ bad' = [c \in R |-> 0]
      /\ prober' = "probing"
      /\ remaining' = checkers
      /\ UNCHANGED found

\* The ticker fires.  With the context cancelled as well the select may take either
\* case, so a round may be run after the cancellation.
BeginRound(checkers) ==
  /\ prober = "waiting"
  /\ prober' = "probing"
  /\ remaining' = checkers
  /\ UNCHANGED <<results, found, bad>>

StopProbing(cancelled) ==
  /\ prober = "waiting"
  /\ cancelled
  /\ prober' = "exited"
  /\ UNCHANGED <<results, remaining, found, bad>>

\* Check returns.  err: it returned an error; atFault: because of the dependency.
Check(err, atFault) ==
  LET c == Head(remaining)
  IN  /\ prober = "probing"
      /\ found = "none"
      /\ found' = IF err THEN "failing" ELSE "ok"
      /\ bad' = [bad EXCEPT ![c] = IF atFault THEN AtMost(@ + 1, FailCap) ELSE 0]
      /\ UNCHANGED <<results, prober, remaining>>

\* Seeded fault: a success clears the error and leaves the count.
KeepCount(res, err) ==
  [err |-> err, fails |-> IF err THEN AtMost(res.fails + 1, FailCap) ELSE res.fails]

\* Seeded fault: every failure starts the count again.
RestartCount(res, err) == [err |-> err, fails |-> IF err THEN 1 ELSE 0]

\* The result of one more check: a success resets the count.
Updated(res, err) ==
  [err |-> err, fails |-> IF err THEN AtMost(res.fails + 1, FailCap) ELSE 0]

Record ==
  LET c == Head(remaining)
  IN  /\ found # "none"
      /\ results' = [results EXCEPT ![c] = Updated(@, found = "failing")]
      /\ found' = "none"
      /\ remaining' = Tail(remaining)
      /\ prober' = IF Tail(remaining) = <<>> THEN "waiting" ELSE "probing"
      /\ UNCHANGED bad

\* What /readyz answers.
Ready == \A c \in DOMAIN results \cap Critical :
           ~(results[c].err /\ results[c].fails >= FailureLimit)
================================================================================
