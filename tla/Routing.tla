-------------------------------- MODULE Routing --------------------------------
(***************************************************************************)
(* What a consumer does with a message once its handler has returned: the  *)
(* routing decision both brokers share (kafka/route.go, sqs/routing.go).    *)
(* A handler error is abstracted to the three classes the decision tells   *)
(* apart; "ok" is the nil error.  An error that wraps context.Canceled is   *)
(* "cancelled" whatever else it wraps: both functions test it first.        *)
(***************************************************************************)
EXTENDS Integers

Outcome == {"ok", "cancelled", "permanent", "transient"}
Route   == {"Commit", "Drop", "Retry", "DLQ"}

\* A configured budget of zero or less means three retries.
EffectiveMaxRetries(configured) == IF configured <= 0 THEN 3 ELSE configured

\* Seeded fault: the budget test trips one failure early.
EagerDecideRoute(err, retryCount, maxRetries) ==
  CASE err = "ok"        -> "Commit"
    [] err = "cancelled" -> "Drop"
    [] err = "permanent" -> "DLQ"
    [] OTHER -> IF retryCount + 1 >= maxRetries THEN "DLQ" ELSE "Retry"

\* Seeded fault: the budget test is strict.
LenientDecideRoute(err, retryCount, maxRetries) ==
  CASE err = "ok"        -> "Commit"
    [] err = "cancelled" -> "Drop"
    [] err = "permanent" -> "DLQ"
    [] OTHER -> IF retryCount > maxRetries THEN "DLQ" ELSE "Retry"

\* Seeded fault: a cancelled handler counts as a success.
CommitCancelledRoute(err, retryCount, maxRetries) ==
  CASE err \in {"ok", "cancelled"} -> "Commit"
    [] err = "permanent"           -> "DLQ"
    [] OTHER -> IF retryCount >= maxRetries THEN "DLQ" ELSE "Retry"

\* Seeded fault: a message that has spent its retries is let go.
ForgetExhaustedRoute(err, retryCount, maxRetries) ==
  CASE err = "ok"        -> "Commit"
    [] err = "cancelled" -> "Drop"
    [] err = "permanent" -> "DLQ"
    [] OTHER -> IF retryCount >= maxRetries THEN "Commit" ELSE "Retry"

SqsDecideRoute(err, retryCount, maxRetries) ==
  CASE err = "ok"        -> "Commit"
    [] err = "cancelled" -> "Drop"
    [] err = "permanent" -> "DLQ"
    [] OTHER -> IF retryCount >= maxRetries THEN "DLQ" ELSE "Retry"

KafkaDecideRoute(err, retryCount, maxRetries) ==
  CASE err = "ok"        -> "Commit"
    [] err = "cancelled" -> "Drop"
    [] err = "permanent" \/ (err = "transient" /\ retryCount >= maxRetries) -> "DLQ"
    [] OTHER             -> "Retry"
================================================================================
