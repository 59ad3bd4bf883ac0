-------------------------------- MODULE Stripper --------------------------------
(***************************************************************************)
(* The marker stripper of the template initialiser (cmd/init/stripper.go).  *)
(* It only ever deletes lines, so a file is the set of the lines of the     *)
(* template, by position, that are left in it.  A marker has the name of    *)
(* its feature.  Blank lines are empty, and every file ends with a newline. *)
(***************************************************************************)
EXTENDS Naturals, Sequences, FiniteSets

Line(kind, name) == [kind |-> kind, name |-> name]
Start(f) == Line("start", f)
End(f)   == Line("end", f)
IsBlank(line)  == line.kind = "blank"
IsMarker(line) == line.kind \in {"start", "end"}

\* j is the line after line i.
Follows(left, i, j) == i < j /\ \A k \in left : ~(i < k /\ k < j)

\* Whether the scan is in a block of f after each line.
InBlock(lines, left, f) ==
  LET in[i \in 0..Len(lines)] ==
        IF i = 0 THEN FALSE
        ELSE IF i \notin left THEN in[i - 1]
        ELSE IF in[i - 1] THEN lines[i] # End(f) ELSE lines[i] = Start(f)
  IN  in

\* Seeded fault: the line before a start marker is dropped whatever it is.
DroppedBefore(lines, i) == TRUE

\* A blank line just before a start marker goes with the block.
Droppable(lines, i) == IsBlank(lines[i])

\* What a scan for the blocks of f keeps.
OutsideBlocks(lines, left, f) ==
  LET in == InBlock(lines, left, f)
  IN  {i \in left : /\ ~in[i - 1]
                    /\ ~in[i]
                    /\ ~(Droppable(lines, i) /\ \E j \in left : Follows(left, i, j) /\ in[j])}

\* No more than two newlines in a row: a line of text ends with one, so only at the top
\* of a file two blank lines are left together.
CollapseBlankRuns(lines, left) ==
  {i \in left : ~ /\ IsBlank(lines[i])
                  /\ \E j \in left : /\ Follows(left, j, i)
                                     /\ IsBlank(lines[j])
                                     /\ \E k \in left : k < j}

\* stripFeatureFromFile
Unclosed(lines, left, f)     == InBlock(lines, left, f)[Len(lines)]
StripFeature(lines, left, f) == CollapseBlankRuns(lines, OutsideBlocks(lines, left, f))

\* stripAllResidualMarkers
StripMarkers(lines, left) == {i \in left : ~IsMarker(lines[i])}

--------------------------------------------------------------------------------
(* The reference: which lines of a template belong to a feature.              *)

Count(lines, n, line) == Cardinality({i \in 1..n : lines[i] = line})

Inside(template, i, f) == Count(template, i, Start(f)) > Count(template, i, End(f))

Texts(template, left) == {i \in left : template[i].kind = "text"}

\* The text that is to remain when the features in gone are removed.
Remaining(template, gone) ==
  {i \in Texts(template, DOMAIN template) : \A f \in gone : ~Inside(template, i, f)}

\* Lines s and e delimit a block of f.
Block(lines, f, s, e) ==
  /\ s < e /\ lines[s] = Start(f) /\ lines[e] = End(f)
  /\ \A k \in s + 1..e - 1 : lines[k] # Start(f) /\ lines[k] # End(f)

\* Markers come in blocks, and of two blocks that overlap one is inside the other.
WellNested(lines, features) ==
  /\ \A f \in features, i \in DOMAIN lines :
       /\ lines[i] = Start(f) => \E e \in DOMAIN lines : Block(lines, f, i, e)
       /\ lines[i] = End(f) => \E s \in DOMAIN lines : Block(lines, f, s, i)
  /\ \A f \in features, s, e \in DOMAIN lines :
       Block(lines, f, s, e) =>
         \A g \in features, t, u \in DOMAIN lines :
           Block(lines, g, t, u) /\ s < t /\ t < e => u < e
================================================================================
