------------------------------- MODULE MCBinaries -------------------------------
(* Constant values for model checking Binaries: each budget is a scenario.    *)
EXTENDS Binaries

Quiet == [k \in BudgetKind |-> 0]

\* Six requests race through the limiter; four pass it one by one while time passes.
Burst6  == [Quiet EXCEPT !["requests"] = 6, !["atOnce"] = 2]
Traffic == [Quiet EXCEPT !["requests"] = 4, !["atOnce"] = 1, !["ticks"] = 2]

\* The database goes and comes back while few requests run commands.
Outages == [Quiet EXCEPT !["requests"] = 1, !["atOnce"] = 1, !["commands"] = 1, !["flips"] = 3,
                         !["signals"] = 1]

\* A signal or a failed start or listener, with commands in flight and old spans.
Shutdowns == [Quiet EXCEPT !["requests"] = 2, !["atOnce"] = 2, !["commands"] = 1, !["ticks"] = 1,
                           !["signals"] = 1, !["failures"] = 1]

Scenarios == [server |-> {Burst6, Traffic, Outages, Shutdowns}, worker |-> {Shutdowns}]
================================================================================
