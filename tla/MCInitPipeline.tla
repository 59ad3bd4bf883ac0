----------------------------- MODULE MCInitPipeline -----------------------------
(* Constant values for model checking InitPipeline.                            *)
EXTENDS InitPipeline

Features == <<"kafka", "sqs", "samples">>

AllSelections == SUBSET {"kafka", "sqs", "samples"}

Text  == Line("text", "none")
Blank == Line("blank", "none")

\* Shaped like cmd/server/providers.go and cmd/worker/providers.go.
ServerFile == <<Text, Blank, Start("worker"), Text, Start("kafka"), Text, End("kafka"),
                End("worker"), Blank, Start("samples"), Text, End("samples"), Text>>
WorkerFile == <<Start("kafka"), Text, Start("samples"), Text, End("samples"), End("kafka"),
                Blank, Start("sqs"), Text, End("sqs"), Text>>
BrokenFile == <<Text, Start("sqs"), Text>>

\* Every file of three to five lines whose blocks are closed and nested.
Symbols == {Text, Blank, Start("kafka"), End("kafka"), Start("samples"), End("samples")}
SmallFiles ==
  {s \in UNION {[1..n -> Symbols] : n \in 3..5} : WellNested(s, {"kafka", "samples"})}

Tree(server, worker, n) == [lines |-> [server |-> server, worker |-> worker], failures |-> n]
AllTrees == {Tree(ServerFile, WorkerFile, 2), Tree(BrokenFile, WorkerFile, 1)}
              \cup {Tree(s, <<Text>>, 0) : s \in SmallFiles}
================================================================================
