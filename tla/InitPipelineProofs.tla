--------------------------- MODULE InitPipelineProofs ---------------------------
(***************************************************************************)
(* Theorems about the template initialiser, for every list of features,     *)
(* every tree and every sequence of failures and retries: the initialiser   *)
(* survives until the tree builds, no step fails on what earlier attempts   *)
(* have left, and what it prints a summary for is the template less exactly *)
(* what was removed.  First the marker stripper, for files of any length.   *)
(***************************************************************************)
EXTENDS InitPipeline, WellFoundedInduction, FiniteSetTheorems, SequenceTheorems, TLAPS

Lines == [kind : {"text", "blank", "start", "end"}, name : Marked \cup {"none"}]

\* Line i is in a block of x, or one of its markers.
Covered(lines, i, x) ==
  \E s, e \in DOMAIN lines : Block(lines, x, s, e) /\ s <= i /\ i <= e

--------------------------------------------------------------------------------
(* The inductive invariant.                                                   *)

Printed    == status \in {"partly", "complete"}
Waiting(s) == \E i \in 1..Len(todo) : todo[i] = s

\* A step whose work may be undone: the summary is not printed, and a run has it before it.
Pending(s) == ~Printed /\ (status = "running" => Waiting(s))

\* The initialiser removes itself at the fourth step from the end, the tree builds from
\* the eighth on, and the markers go at the third.
StageInv ==
  /\ status = "idle" \/ (status = "running" /\ Len(todo) >= 4) => "init" \in Whole
  /\ status = "running" /\ Len(todo) <= 3 => "init" \notin dirs
  /\ "init" \notin Whole \/ (status = "running" /\ Len(todo) <= 7) =>
       Compiles /\ wireGen = "fresh"
  /\ status = "complete" \/ (status = "running" /\ Len(todo) <= 2) =>
       \A f \in DOMAIN files : \A i \in files[f] : ~IsMarker(template[f][i])

\* Only what was removed is missing or broken, and the rest of that will be deleted.
DirsInv ==
  /\ Marked \ Removed(command) \subseteq Whole
  /\ \A x \in Removed(command) \cap dirs : Pending(StepOn("delete", x, "none"))

\* A name that is still the template's will be changed.
NamesInv ==
  /\ goMod \in {"template", command.module}
  /\ goMod # command.module => Pending(Step("edit go.mod"))
  /\ \A f \in DOMAIN files :
       /\ imports[f] \in {"template", command.module}
       /\ imports[f] # command.module => Pending(StepOn("rename", "none", f))

\* What is left of the lines, but for blank ones, is what no feature of D covers.
Less(lines, left, D) ==
  \A i \in DOMAIN lines : ~IsBlank(lines[i]) =>
    (i \in left <=> \A x \in D : ~Covered(lines, i, x))
TextLess(lines, left, D) ==
  \A i \in DOMAIN lines : lines[i].kind = "text" =>
    (i \in left <=> \A x \in D : ~Covered(lines, i, x))

\* Every file is the template's less the blocks of some features that were to go, and
\* those of the others will be stripped.
FileInv(f) ==
  \E D \in SUBSET Removed(command) :
    /\ TextLess(template[f], files[f], D)
    /\ "init" \in dirs => Less(template[f], files[f], D)
    /\ \A x \in Removed(command) \ D : Pending(StepOn("strip", x, f))

FilesInv == \A f \in DOMAIN files : FileInv(f)

--------------------------------------------------------------------------------
(* The scan.                                                                  *)

\* Induction on a set of numbers.
LEMMA SetInduction ==
  ASSUME NEW S \in SUBSET Nat, 0 \in S, \A n \in S : n + 1 \in S
  PROVE  S = Nat
<1> DEFINE R == {p \in Nat \X Nat : p[1] < p[2]}
           T == Nat \ S
<1>1. SUFFICES ASSUME T # {} PROVE FALSE
  OBVIOUS
<1>2. PICK x \in T : \A y \in T : ~(<<y, x>> \in R)
  <2> HIDE DEF R, T
  <2>1. T \subseteq Nat
    BY DEF T
  <2>2. R = OpToRel(<, Nat)
    BY DEF OpToRel, R
  <2>3. IsWellFoundedOn(R, Nat)
    BY <2>2, NatLessThanWellFounded
  <2>4. QED
    BY <1>1, <2>1, <2>3, WFMin
<1>3. x \in Nat /\ x \notin S /\ x # 0 /\ x - 1 \in Nat
  BY <1>2
<1>4. x - 1 \in S
  <2>1. <<x - 1, x>> \in R
    BY <1>3
  <2>2. QED
    BY <1>2, <1>3, <2>1
<1>5. (x - 1) + 1 = x
  BY <1>3
<1>6. QED
  BY <1>3, <1>4, <1>5

\* The scan is in a block after line i if a start marker came and no end marker since.
Open(lines, left, x, i) ==
  \E s \in left : /\ s <= i
                  /\ lines[s] = Start(x)
                  /\ \A e \in left : s <= e /\ e <= i => lines[e] # End(x)

LEMMA MarkersDiffer == \A x, y : Start(x) # End(y)
  BY DEF Start, End, Line

\* One line further.
LEMMA OpenStep ==
  ASSUME NEW lines \in Seq(Lines), NEW left \in SUBSET (1 .. Len(lines)), NEW x,
         NEW i \in 1 .. Len(lines)
  PROVE  Open(lines, left, x, i) <=>
           IF i \notin left THEN Open(lines, left, x, i - 1)
           ELSE IF Open(lines, left, x, i - 1) THEN lines[i] # End(x) ELSE lines[i] = Start(x)
<1>1. PICK n \in Nat : n = Len(lines)
  BY LenProperties
<1>2. \A e \in left : e \in Int /\ 1 <= e /\ e <= n /\ (e <= i <=> e <= i - 1 \/ e = i)
  BY <1>1
<1>3. CASE i \notin left
  <2>1. \A e \in left : e <= i <=> e <= i - 1
    BY <1>2, <1>3
  <2>2. QED
    BY <1>3, <2>1 DEF Open
<1>4. CASE i \in left /\ lines[i] = End(x)
  <2>1. ~Open(lines, left, x, i)
    BY <1>1, <1>2, <1>4 DEF Open
  <2>2. lines[i] # Start(x)
    BY <1>4, MarkersDiffer
  <2>3. QED
    BY <1>4, <2>1, <2>2
<1>5. CASE i \in left /\ lines[i] # End(x) /\ Open(lines, left, x, i - 1)
  <2>1. PICK s \in left : /\ s <= i - 1 /\ lines[s] = Start(x)
                          /\ \A e \in left : s <= e /\ e <= i - 1 => lines[e] # End(x)
    BY <1>5 DEF Open
  <2>2. s <= i /\ \A e \in left : s <= e /\ e <= i => lines[e] # End(x)
    BY <1>2, <1>5, <2>1
  <2>3. Open(lines, left, x, i)
    BY <2>1, <2>2 DEF Open
  <2>4. QED
    BY <1>5, <2>3
<1>6. CASE i \in left /\ lines[i] # End(x) /\ ~Open(lines, left, x, i - 1)
  <2>1. ASSUME lines[i] = Start(x) PROVE Open(lines, left, x, i)
    <3>1. i <= i /\ \A e \in left : i <= e /\ e <= i => e = i
      BY <1>2
    <3>2. QED
      BY <1>6, <2>1, <3>1 DEF Open
  <2>2. ASSUME Open(lines, left, x, i) PROVE lines[i] = Start(x)
    <3>1. PICK s \in left : /\ s <= i /\ lines[s] = Start(x)
                            /\ \A e \in left : s <= e /\ e <= i => lines[e] # End(x)
      BY <2>2 DEF Open
    <3>2. CASE s <= i - 1
      <4>1. \A e \in left : s <= e /\ e <= i - 1 => lines[e] # End(x)
        BY <1>2, <3>1
      <4>2. QED
        BY <1>6, <3>1, <3>2, <4>1 DEF Open
    <3>3. QED
      BY <1>2, <3>1, <3>2
  <2>3. QED
    BY <1>6, <2>1, <2>2
<1>7. QED
  BY <1>3, <1>4, <1>5, <1>6

\* The scan of the program computes this.
LEMMA ScanExact ==
  ASSUME NEW lines \in Seq(Lines), NEW left \in SUBSET (1 .. Len(lines)), NEW x,
         NEW i \in 0 .. Len(lines)
  PROVE  InBlock(lines, left, x)[i] = Open(lines, left, x, i)
<1> DEFINE n == Len(lines)
           Next1(g, k) == IF k = 0 THEN FALSE
                          ELSE IF k \notin left THEN g[k - 1]
                          ELSE IF g[k - 1] THEN lines[k] # End(x) ELSE lines[k] = Start(x)
           w == [k \in 0 .. n |-> Open(lines, left, x, k)]
           b == InBlock(lines, left, x)
<1>1. n \in Nat
  BY LenProperties
<1>2. \A k \in 0 .. n : w[k] = Next1(w, k)
  <2>1. ASSUME NEW k \in 0 .. n PROVE w[k] = Next1(w, k)
    <3>1. CASE k = 0
      <4>1. ~Open(lines, left, x, 0)
        BY <1>1 DEF Open
      <4>2. Open(lines, left, x, 0) = FALSE
        BY <4>1 DEF Open
      <4>3. QED
        BY <1>1, <3>1, <4>2
    <3>2. CASE k # 0
      <4>1. k \in 1 .. n /\ k - 1 \in 0 .. n
        BY <1>1, <3>2
      <4>2. w[k] = Open(lines, left, x, k) /\ w[k - 1] = Open(lines, left, x, k - 1)
        BY <4>1
      <4>3. Open(lines, left, x, k) \in BOOLEAN /\ Open(lines, left, x, k - 1) \in BOOLEAN
        BY DEF Open
      <4>4. Open(lines, left, x, k) <=>
              IF k \notin left THEN Open(lines, left, x, k - 1)
              ELSE IF Open(lines, left, x, k - 1) THEN lines[k] # End(x) ELSE lines[k] = Start(x)
        BY <4>1, OpenStep
      <4>5. QED
        BY <3>2, <4>2, <4>3, <4>4
    <3>3. QED
      BY <3>1, <3>2
  <2>2. QED
    BY <2>1
<1>3. w = [k \in 0 .. n |-> Next1(w, k)]
  BY <1>2
<1>4. b = [k \in 0 .. n |-> Next1(b, k)]
  <2>1. b = CHOOSE g : g = [k \in 0 .. n |-> Next1(g, k)]
    BY DEF InBlock
  <2> HIDE DEF w, b
  <2>2. QED
    BY <1>3, <2>1
<1> DEFINE S == {k \in Nat : k <= n => b[k] = w[k]}
<1>5. S = Nat
  <2> HIDE DEF w, b, n
  <2>1. 0 \in S
    <3>1. 0 \in 0 .. n
      BY <1>1
    <3>2. QED
      BY <1>1, <1>2, <1>4, <3>1
  <2>2. ASSUME NEW k \in S PROVE k + 1 \in S
    <3>1. SUFFICES ASSUME k + 1 <= n PROVE b[k + 1] = w[k + 1]
      OBVIOUS
    <3>2. k \in 0 .. n /\ k + 1 \in 0 .. n /\ k + 1 # 0 /\ (k + 1) - 1 = k
      BY <1>1, <3>1
    <3>3. b[k] = w[k]
      BY <1>1, <3>2
    <3>4. b[k + 1] = Next1(b, k + 1) /\ w[k + 1] = Next1(w, k + 1)
      BY <1>2, <1>4, <3>2
    <3>5. QED
      BY <3>2, <3>3, <3>4
  <2>3. S \in SUBSET Nat
    OBVIOUS
  <2> HIDE DEF S
  <2>4. QED
    BY <2>1, <2>2, <2>3, SetInduction
<1>6. i \in Nat /\ i <= n
  BY <1>1
<1>7. b[i] = w[i]
  BY <1>5, <1>6
<1>8. QED
  BY <1>7

--------------------------------------------------------------------------------
(* Stripping.                                                                 *)

LEMMA MarkerKinds == \A x : ~IsBlank(Start(x)) /\ ~IsBlank(End(x))
  BY DEF Start, End, Line, IsBlank

LEMMA NamesMatter == \A x, y : (Start(x) = Start(y) \/ End(x) = End(y)) => x = y
  BY DEF Start, End, Line

\* The end of a block is left when its start is.
LEMMA EndStays ==
  ASSUME NEW M, NEW lines \in Seq(Lines), WellNested(lines, M),
         NEW left \in SUBSET (1 .. Len(lines)), NEW D \in SUBSET M, Less(lines, left, D),
         NEW x \in M, NEW s \in left, NEW e \in 1 .. Len(lines), Block(lines, x, s, e)
  PROVE  e \in left
<1>1. PICK n \in Nat : n = Len(lines) /\ DOMAIN lines = 1 .. n
  BY LenProperties
<1>2. s < e /\ lines[s] = Start(x) /\ lines[e] = End(x) /\ s \in 1 .. n /\ e \in 1 .. n
  BY <1>1 DEF Block
<1>3. SUFFICES ASSUME e \notin left PROVE FALSE
  OBVIOUS
<1>4. PICK y \in D : Covered(lines, e, y)
  BY <1>1, <1>2, <1>3, MarkerKinds DEF Less
<1>5. ~Covered(lines, s, y)
  BY <1>1, <1>2, MarkerKinds DEF Less
<1>6. PICK t \in 1 .. n, u \in 1 .. n : Block(lines, y, t, u) /\ t <= e /\ e <= u
  BY <1>1, <1>4 DEF Covered
<1>7. y # x
  <2>1. s <= s /\ s <= e
    BY <1>2
  <2>2. Covered(lines, s, x)
    BY <1>1, <1>2, <2>1 DEF Covered
  <2>3. QED
    BY <1>5, <2>2
<1>8. lines[t] = Start(y) /\ lines[u] = End(y)
  BY <1>6 DEF Block
<1>9. t < e /\ e < u
  <2>1. t # e
    BY <1>2, <1>8, MarkersDiffer
  <2>2. e # u
    BY <1>2, <1>7, <1>8, NamesMatter
  <2>3. QED
    BY <1>6, <2>1, <2>2
<1>10. s < t
  <2>1. ~(t <= s /\ s <= u)
    BY <1>1, <1>5, <1>6 DEF Covered
  <2>2. QED
    BY <1>2, <1>9, <2>1
<1>11. u < e
  BY <1>1, <1>2, <1>6, <1>9, <1>10 DEF WellNested
<1>12. QED
  BY <1>9, <1>11

\* Around a line that is left, the scan for x is in a block exactly in the template's blocks:
\* both markers of a block go with the blocks around it, or both stay.
LEMMA ScanFindsBlocks ==
  ASSUME NEW M, NEW lines \in Seq(Lines), WellNested(lines, M),
         NEW left \in SUBSET (1 .. Len(lines)), NEW D \in SUBSET M, Less(lines, left, D),
         NEW x \in M, NEW i \in left, ~IsBlank(lines[i])
  PROVE  (Open(lines, left, x, i - 1) \/ Open(lines, left, x, i)) <=> Covered(lines, i, x)
<1>1. PICK n \in Nat : n = Len(lines) /\ DOMAIN lines = 1 .. n
  BY LenProperties
<1>2. \A y \in D : ~Covered(lines, i, y)
  BY <1>1 DEF Less
<1>3. ASSUME Covered(lines, i, x)
      PROVE  Open(lines, left, x, i - 1) \/ Open(lines, left, x, i)
  <2>1. PICK s \in 1 .. n, e \in 1 .. n : Block(lines, x, s, e) /\ s <= i /\ i <= e
    BY <1>1, <1>3 DEF Covered
  <2>2. s < e /\ lines[s] = Start(x) /\ \A k \in s + 1 .. e - 1 : lines[k] # End(x)
    BY <2>1 DEF Block
  <2>3. s \in left
    <3>1. SUFFICES ASSUME s \notin left PROVE FALSE
      OBVIOUS
    <3>2. PICK y \in D : Covered(lines, s, y)
      BY <1>1, <2>2, <3>1, MarkerKinds DEF Less
    <3>3. PICK t \in 1 .. n, u \in 1 .. n : Block(lines, y, t, u) /\ t <= s /\ s <= u
      BY <1>1, <3>2 DEF Covered
    <3>4. y # x
      BY <1>2, <1>3
    <3>5. lines[t] = Start(y) /\ lines[u] = End(y)
      BY <3>3 DEF Block
    <3>6. t < s /\ s < u
      <4>1. t # s
        BY <2>2, <3>4, <3>5, NamesMatter
      <4>2. s # u
        BY <2>2, <3>5, MarkersDiffer
      <4>3. QED
        BY <3>3, <4>1, <4>2
    <3>7. e < u
      BY <1>1, <2>1, <3>3, <3>6 DEF WellNested
    <3>8. Covered(lines, i, y)
      <4>1. t <= i /\ i <= u
        BY <1>1, <2>1, <3>6, <3>7
      <4>2. QED
        BY <1>1, <3>3, <4>1 DEF Covered
    <3>9. QED
      BY <1>2, <3>8
  <2>4. CASE i = e
    <3>1. s <= i - 1 /\ \A k \in left : s <= k /\ k <= i - 1 => lines[k] # End(x)
      <4>1. \A k \in left : s <= k /\ k <= i - 1 => k = s \/ k \in s + 1 .. e - 1
        BY <1>1, <2>4
      <4>2. QED
        BY <1>1, <2>2, <2>4, <4>1, MarkersDiffer
    <3>2. QED
      BY <2>2, <2>3, <3>1 DEF Open
  <2>5. CASE i # e
    <3>1. \A k \in left : s <= k /\ k <= i => lines[k] # End(x)
      <4>1. \A k \in left : s <= k /\ k <= i => k = s \/ k \in s + 1 .. e - 1
        BY <1>1, <2>1, <2>5
      <4>2. QED
        BY <2>2, <4>1, MarkersDiffer
    <3>2. QED
      BY <2>1, <2>2, <2>3, <3>1 DEF Open
  <2>6. QED
    BY <2>4, <2>5
<1>4. ASSUME NEW k \in {i - 1, i}, Open(lines, left, x, k) PROVE Covered(lines, i, x)
  <2>1. PICK s \in left : /\ s <= k /\ lines[s] = Start(x)
                          /\ \A e \in left : s <= e /\ e <= k => lines[e] # End(x)
    BY <1>4 DEF Open
  <2>2. PICK e \in 1 .. n : Block(lines, x, s, e)
    BY <1>1, <2>1 DEF WellNested
  <2>3. e \in left
    BY <1>1, <2>1, <2>2, EndStays
  <2>4. s < e /\ lines[e] = End(x) /\ s \in 1 .. n /\ i \in 1 .. n
    BY <1>1, <2>2 DEF Block
  <2>5. s <= i /\ i <= e
    BY <1>1, <2>1, <2>3, <2>4
  <2>6. QED
    BY <1>1, <2>2, <2>4, <2>5 DEF Covered
<1>5. QED
  BY <1>3, <1>4

\* No pass is refused for an unclosed block.
LEMMA ScanCloses ==
  ASSUME NEW M, NEW lines \in Seq(Lines), WellNested(lines, M),
         NEW left \in SUBSET (1 .. Len(lines)), NEW D \in SUBSET M, Less(lines, left, D),
         NEW x \in M
  PROVE  ~Unclosed(lines, left, x)
<1>1. PICK n \in Nat : n = Len(lines) /\ DOMAIN lines = 1 .. n
  BY LenProperties
<1>2. ASSUME Open(lines, left, x, n) PROVE FALSE
  <2>1. PICK s \in left : /\ lines[s] = Start(x)
                          /\ \A e \in left : s <= e /\ e <= n => lines[e] # End(x)
    BY <1>2 DEF Open
  <2>2. PICK e \in 1 .. n : Block(lines, x, s, e)
    BY <1>1, <2>1 DEF WellNested
  <2>3. e \in left
    BY <1>1, <2>1, <2>2, EndStays
  <2>4. s <= e /\ e <= n /\ lines[e] = End(x)
    BY <1>1, <2>2 DEF Block
  <2>5. QED
    BY <2>1, <2>3, <2>4
<1>3. n \in 0 .. Len(lines)
  BY <1>1
<1>4. InBlock(lines, left, x)[n] = Open(lines, left, x, n)
  BY <1>3, ScanExact
<1>5. QED
  BY <1>1, <1>2, <1>4 DEF Unclosed

\* A pass for x leaves the template less what it was less and x.
LEMMA StripLess ==
  ASSUME NEW M, NEW lines \in Seq(Lines), WellNested(lines, M),
         NEW left \in SUBSET (1 .. Len(lines)), NEW D \in SUBSET M, Less(lines, left, D),
         NEW x \in M
  PROVE  Less(lines, StripFeature(lines, left, x), D \cup {x})
<1> DEFINE in == InBlock(lines, left, x)
           mid == OutsideBlocks(lines, left, x)
           out == StripFeature(lines, left, x)
<1>1. ASSUME NEW i \in DOMAIN lines, ~IsBlank(lines[i])
      PROVE  i \in out <=> \A y \in D \cup {x} : ~Covered(lines, i, y)
  <2>1. i \in out <=> i \in mid
    BY <1>1 DEF StripFeature, CollapseBlankRuns
  <2>2. i \in mid <=> i \in left /\ ~in[i - 1] /\ ~in[i]
    BY <1>1 DEF OutsideBlocks, Droppable
  <2>3. i \in left <=> \A y \in D : ~Covered(lines, i, y)
    BY <1>1 DEF Less
  <2>4. ASSUME i \in left PROVE (in[i - 1] \/ in[i]) <=> Covered(lines, i, x)
    <3>1. i - 1 \in 0 .. Len(lines) /\ i \in 0 .. Len(lines)
      BY <2>4, LenProperties
    <3>2. in[i - 1] = Open(lines, left, x, i - 1) /\ in[i] = Open(lines, left, x, i)
      BY <3>1, ScanExact
    <3>3. QED
      BY <1>1, <2>4, <3>2, ScanFindsBlocks
  <2> HIDE DEF in, mid, out
  <2>5. QED
    BY <2>1, <2>2, <2>3, <2>4
<1>2. QED
  BY <1>1 DEF Less

\* A pass only deletes lines.
LEMMA StripDeletes ==
  \A lines, left, x : StripFeature(lines, left, x) \subseteq left
  BY DEF StripFeature, CollapseBlankRuns, OutsideBlocks

--------------------------------------------------------------------------------
(* Counting markers, as the reference does, finds the same blocks.            *)

LEMMA CountStep ==
  ASSUME NEW lines \in Seq(Lines), NEW m, NEW i \in 1 .. Len(lines)
  PROVE  /\ Count(lines, i, m) \in Nat /\ Count(lines, i - 1, m) \in Nat
         /\ Count(lines, i, m) = Count(lines, i - 1, m) + IF lines[i] = m THEN 1 ELSE 0
<1> DEFINE P(k) == {j \in 1 .. k : lines[j] = m}
<1>1. i \in Nat /\ i - 1 \in Nat /\ i - 1 + 1 = i
  BY LenProperties
<1>2. \A k \in Nat : IsFiniteSet(P(k)) /\ Cardinality(P(k)) \in Nat
  <2>1. ASSUME NEW k \in Nat PROVE IsFiniteSet(P(k))
    <3>1. IsFiniteSet(1 .. k)
      BY FS_Interval
    <3>2. P(k) \subseteq 1 .. k
      OBVIOUS
    <3>3. QED
      BY <3>1, <3>2, FS_Subset
  <2>2. QED
    BY <2>1, FS_CardinalityType
<1>3. CASE lines[i] = m
  <2>1. P(i) = P(i - 1) \cup {i} /\ i \notin P(i - 1)
    BY <1>1, <1>3
  <2>2. IsFiniteSet(P(i - 1))
    BY <1>1, <1>2
  <2> HIDE DEF P
  <2>3. Cardinality(P(i)) = Cardinality(P(i - 1)) + 1
    BY <2>1, <2>2, FS_AddElement
  <2>4. QED
    BY <1>1, <1>2, <1>3, <2>3 DEF Count, P
<1>4. CASE lines[i] # m
  <2>1. P(i) = P(i - 1)
    BY <1>1, <1>4
  <2> HIDE DEF P
  <2>2. Cardinality(P(i)) = Cardinality(P(i - 1))
    BY <2>1
  <2>3. Cardinality(P(i)) \in Nat
    BY <1>1, <1>2
  <2>4. QED
    BY <1>4, <2>2, <2>3 DEF Count, P
<1>5. QED
  BY <1>3, <1>4

LEMMA CountNone == ASSUME NEW lines, NEW m PROVE Count(lines, 0, m) = 0
<1>1. {i \in 1 .. 0 : lines[i] = m} = {}
  OBVIOUS
<1>2. QED
  BY <1>1, FS_EmptySet DEF Count

\* The line after i is in a block of x, or its end marker.
Within(lines, x, i) ==
  \E s, e \in DOMAIN lines : Block(lines, x, s, e) /\ s <= i /\ i < e

LEMMA WithinStep ==
  ASSUME NEW M, NEW lines \in Seq(Lines), WellNested(lines, M), NEW x \in M,
         NEW i \in 1 .. Len(lines)
  PROVE  /\ lines[i] = Start(x) => ~Within(lines, x, i - 1) /\ Within(lines, x, i)
         /\ lines[i] = End(x) => Within(lines, x, i - 1) /\ ~Within(lines, x, i)
         /\ lines[i] # Start(x) /\ lines[i] # End(x) =>
              (Within(lines, x, i - 1) <=> Within(lines, x, i))
<1>1. PICK n \in Nat : n = Len(lines) /\ DOMAIN lines = 1 .. n /\ i \in 1 .. n
  BY LenProperties
<1>2. ASSUME NEW s \in 1 .. n, NEW e \in 1 .. n, Block(lines, x, s, e)
      PROVE  /\ s < e /\ lines[s] = Start(x) /\ lines[e] = End(x)
             /\ s < i /\ i < e => lines[i] # Start(x) /\ lines[i] # End(x)
  BY <1>1, <1>2 DEF Block
<1>3. ASSUME lines[i] = Start(x) PROVE ~Within(lines, x, i - 1) /\ Within(lines, x, i)
  <2>1. lines[i] # End(x)
    BY <1>3, MarkersDiffer
  <2>2. PICK e \in 1 .. n : Block(lines, x, i, e)
    BY <1>1, <1>3 DEF WellNested
  <2>3. i <= i /\ i < e
    BY <1>1, <2>2 DEF Block
  <2>4. Within(lines, x, i)
    BY <1>1, <2>2, <2>3 DEF Within
  <2>5. ASSUME NEW s \in 1 .. n, NEW t \in 1 .. n, Block(lines, x, s, t), s <= i - 1, i - 1 < t
        PROVE  FALSE
    <3>1. s < i /\ lines[t] = End(x) /\ i # t /\ i < t
      BY <1>1, <1>2, <2>1, <2>5
    <3>2. QED
      BY <1>2, <1>3, <2>5, <3>1
  <2>6. QED
    BY <1>1, <2>4, <2>5 DEF Within
<1>4. ASSUME lines[i] = End(x) PROVE Within(lines, x, i - 1) /\ ~Within(lines, x, i)
  <2>1. lines[i] # Start(x)
    BY <1>4, MarkersDiffer
  <2>2. PICK s \in 1 .. n : Block(lines, x, s, i)
    BY <1>1, <1>4 DEF WellNested
  <2>3. s <= i - 1 /\ i - 1 < i
    BY <1>1, <2>2 DEF Block
  <2>4. Within(lines, x, i - 1)
    BY <1>1, <2>2, <2>3 DEF Within
  <2>5. ASSUME NEW t \in 1 .. n, NEW e \in 1 .. n, Block(lines, x, t, e), t <= i, i < e
        PROVE  FALSE
    <3>1. t # i /\ t < i
      BY <1>1, <1>2, <2>1, <2>5
    <3>2. QED
      BY <1>2, <1>4, <2>5, <3>1
  <2>6. QED
    BY <1>1, <2>4, <2>5 DEF Within
<1>5. ASSUME lines[i] # Start(x), lines[i] # End(x)
      PROVE  Within(lines, x, i - 1) <=> Within(lines, x, i)
  <2>1. ASSUME NEW s \in 1 .. n, NEW e \in 1 .. n, Block(lines, x, s, e)
        PROVE  (s <= i - 1 /\ i - 1 < e) <=> (s <= i /\ i < e)
    <3>1. s # i /\ e # i
      BY <1>2, <1>5, <2>1
    <3>2. QED
      BY <1>1, <3>1
  <2>2. QED
    BY <1>1, <2>1 DEF Within
<1>6. QED
  BY <1>3, <1>4, <1>5

LEMMA CountExact ==
  ASSUME NEW M, NEW lines \in Seq(Lines), WellNested(lines, M), NEW x \in M,
         NEW i \in 0 .. Len(lines)
  PROVE  /\ Count(lines, i, Start(x)) \in Nat /\ Count(lines, i, End(x)) \in Nat
         /\ Count(lines, i, Start(x)) =
              Count(lines, i, End(x)) + IF Within(lines, x, i) THEN 1 ELSE 0
<1> DEFINE P(k) == /\ Count(lines, k, Start(x)) \in Nat /\ Count(lines, k, End(x)) \in Nat
                   /\ Count(lines, k, Start(x)) =
                        Count(lines, k, End(x)) + IF Within(lines, x, k) THEN 1 ELSE 0
           S == {k \in Nat : k <= Len(lines) => P(k)}
<1>1. PICK n \in Nat : n = Len(lines) /\ DOMAIN lines = 1 .. n
  BY LenProperties
<1>2. 0 \in S
  <2>1. ~Within(lines, x, 0)
    BY <1>1 DEF Within
  <2>2. Count(lines, 0, Start(x)) = 0 /\ Count(lines, 0, End(x)) = 0
    BY CountNone
  <2>3. P(0)
    BY <2>1, <2>2
  <2>4. QED
    BY <2>3
<1>3. ASSUME NEW k \in S PROVE k + 1 \in S
  <2>1. SUFFICES ASSUME k + 1 <= n PROVE P(k + 1)
    BY <1>1
  <2>2. k \in Nat /\ k + 1 \in 1 .. Len(lines) /\ (k + 1) - 1 = k /\ P(k)
    BY <1>1, <2>1
  <2> DEFINE c(m) == Count(lines, k, m)
             d(m) == Count(lines, k + 1, m)
  <2>3. \A m : d(m) \in Nat /\ d(m) = c(m) + IF lines[k + 1] = m THEN 1 ELSE 0
    BY <2>2, CountStep
  <2>4. /\ lines[k + 1] = Start(x) => ~Within(lines, x, k) /\ Within(lines, x, k + 1)
        /\ lines[k + 1] = End(x) => Within(lines, x, k) /\ ~Within(lines, x, k + 1)
        /\ lines[k + 1] # Start(x) /\ lines[k + 1] # End(x) =>
             (Within(lines, x, k) <=> Within(lines, x, k + 1))
    BY <2>2, WithinStep
  <2>5. Start(x) # End(x)
    BY MarkersDiffer
  <2>6. /\ c(Start(x)) \in Nat /\ c(End(x)) \in Nat
        /\ c(Start(x)) = c(End(x)) + IF Within(lines, x, k) THEN 1 ELSE 0
    BY <2>2
  <2> HIDE DEF c, d
  <2>7. /\ d(Start(x)) \in Nat /\ d(End(x)) \in Nat
        /\ d(Start(x)) = d(End(x)) + IF Within(lines, x, k + 1) THEN 1 ELSE 0
    <3>1. CASE lines[k + 1] = Start(x)
      BY <2>3, <2>4, <2>5, <2>6, <3>1
    <3>2. CASE lines[k + 1] = End(x)
      BY <2>3, <2>4, <2>5, <2>6, <3>2
    <3>3. CASE lines[k + 1] # Start(x) /\ lines[k + 1] # End(x)
      BY <2>3, <2>4, <2>6, <3>3
    <3>4. QED
      BY <3>1, <3>2, <3>3
  <2>8. QED
    BY <2>7 DEF d
<1>4. S = Nat
  <2>1. S \in SUBSET Nat
    OBVIOUS
  <2> HIDE DEF S
  <2>2. QED
    BY <1>2, <1>3, <2>1, SetInduction
<1>5. QED
  BY <1>1, <1>4

\* On a line of text the reference and the blocks agree.
LEMMA InsideExact ==
  ASSUME NEW M, NEW lines \in Seq(Lines), WellNested(lines, M), NEW x \in M,
         NEW i \in DOMAIN lines, lines[i].kind = "text"
  PROVE  Inside(lines, i, x) <=> Covered(lines, i, x)
<1>1. i \in 0 .. Len(lines) /\ i \in Nat /\ DOMAIN lines \subseteq Nat
  BY LenProperties
<1>2. Inside(lines, i, x) <=> Within(lines, x, i)
  BY <1>1, CountExact DEF Inside
<1>3. ASSUME NEW s \in DOMAIN lines, NEW e \in DOMAIN lines, Block(lines, x, s, e)
      PROVE  i <= e <=> i < e
  <2>1. lines[e] = End(x)
    BY <1>3 DEF Block
  <2>2. i # e
    BY <2>1 DEF End, Line
  <2>3. QED
    BY <1>1, <2>2
<1>4. QED
  BY <1>2, <1>3 DEF Within, Covered

--------------------------------------------------------------------------------
(* The plan.                                                                  *)

Has(q, s) == \E i \in 1..Len(q) : q[i] = s

LEMMA HasConcat ==
  ASSUME NEW S, NEW p \in Seq(S), NEW q \in Seq(S), NEW s
  PROVE  p \o q \in Seq(S) /\ (Has(p \o q, s) <=> Has(p, s) \/ Has(q, s))
<1>1. PICK m \in Nat, n \in Nat : m = Len(p) /\ n = Len(q)
  BY LenProperties
<1>2. /\ p \o q \in Seq(S) /\ Len(p \o q) = m + n
      /\ \A i \in 1 .. m + n : (p \o q)[i] = IF i <= m THEN p[i] ELSE q[i - m]
  BY <1>1, ConcatProperties
<1>3. ASSUME Has(p, s) PROVE Has(p \o q, s)
  <2>1. PICK i \in 1 .. m : p[i] = s
    BY <1>1, <1>3 DEF Has
  <2>2. i \in 1 .. m + n /\ i <= m
    BY <1>1
  <2>3. QED
    BY <1>2, <2>1, <2>2 DEF Has
<1>4. ASSUME Has(q, s) PROVE Has(p \o q, s)
  <2>1. PICK i \in 1 .. n : q[i] = s
    BY <1>1, <1>4 DEF Has
  <2>2. m + i \in 1 .. m + n /\ ~(m + i <= m) /\ (m + i) - m = i
    BY <1>1
  <2>3. QED
    BY <1>2, <2>1, <2>2 DEF Has
<1>5. ASSUME Has(p \o q, s) PROVE Has(p, s) \/ Has(q, s)
  <2>1. PICK i \in 1 .. m + n : (p \o q)[i] = s
    BY <1>2, <1>5 DEF Has
  <2>2. CASE i <= m
    <3>1. i \in 1 .. m /\ p[i] = s
      BY <1>1, <1>2, <2>1, <2>2
    <3>2. QED
      BY <1>1, <3>1 DEF Has
  <2>3. CASE ~(i <= m)
    <3>1. i - m \in 1 .. n /\ q[i - m] = s
      BY <1>1, <1>2, <2>1, <2>3
    <3>2. QED
      BY <1>1, <3>1 DEF Has
  <2>4. QED
    BY <2>2, <2>3
<1>6. QED
  BY <1>2, <1>3, <1>4, <1>5

\* The steps that delete and strip a feature, and all those before the post-actions.
RemovalStep(x) == {StepOn("delete", x, "none")} \cup {StepOn("strip", x, f) : f \in File}
RenamingStep   == {Step("edit go.mod")} \cup {StepOn("rename", "none", f) : f \in File}
WorkStep(c)    == RenamingStep \cup UNION {RemovalStep(x) : x \in Removed(c)}
Work(c)        == RenameSteps(c) \o SelectedSteps(c) \o CascadeSteps(c)

LEMMA RemoveStepsShape ==
  ASSUME NEW x, NEW S, RemovalStep(x) \subseteq S
  PROVE  RemoveSteps(x) \in Seq(S) /\ \A s \in RemovalStep(x) : Has(RemoveSteps(x), s)
<1> DEFINE d == StepOn("delete", x, "none")
           p == StepOn("strip", x, "server")
           q == StepOn("strip", x, "worker")
           strips == [i \in DOMAIN FileOrder |-> StepOn("strip", x, FileOrder[i])]
<1>1. RemovalStep(x) = {d, p, q}
  BY DEF RemovalStep, File
<1> HIDE DEF d, p, q
<1>2. strips = <<p, q>>
  <2>1. DOMAIN FileOrder = 1 .. 2 /\ FileOrder[1] = "server" /\ FileOrder[2] = "worker"
    BY DEF FileOrder
  <2>2. strips = [i \in 1 .. 2 |-> IF i = 1 THEN p ELSE q]
    BY <2>1 DEF p, q
  <2>3. QED
    BY <2>2
<1>3. RemoveSteps(x) = <<d>> \o <<p, q>>
  BY <1>2 DEF RemoveSteps, d
<1>4. <<d>> \in Seq(S) /\ <<p, q>> \in Seq(S)
  BY <1>1
<1>5. Has(<<d>>, d) /\ Has(<<p, q>>, p) /\ Has(<<p, q>>, q)
  BY DEF Has
<1>6. /\ <<d>> \o <<p, q>> \in Seq(S)
      /\ \A s : Has(<<d>> \o <<p, q>>, s) <=> Has(<<d>>, s) \/ Has(<<p, q>>, s)
  BY <1>4, HasConcat
<1>7. QED
  BY <1>1, <1>3, <1>5, <1>6

LEMMA RenameStepsShape ==
  ASSUME NEW c, NEW S, RenamingStep \subseteq S
  PROVE  /\ RenameSteps(c) \in Seq(S)
         /\ c.module # "template" => \A s \in RenamingStep : Has(RenameSteps(c), s)
<1> DEFINE d == Step("edit go.mod")
           p == StepOn("rename", "none", "server")
           q == StepOn("rename", "none", "worker")
           renames == [i \in DOMAIN FileOrder |-> StepOn("rename", "none", FileOrder[i])]
<1>1. RenamingStep = {d, p, q}
  BY DEF RenamingStep, File
<1> HIDE DEF d, p, q
<1>2. renames = <<p, q>>
  <2>1. DOMAIN FileOrder = 1 .. 2 /\ FileOrder[1] = "server" /\ FileOrder[2] = "worker"
    BY DEF FileOrder
  <2>2. renames = [i \in 1 .. 2 |-> IF i = 1 THEN p ELSE q]
    BY <2>1 DEF p, q
  <2>3. QED
    BY <2>2
<1>3. RenameSteps(c) = IF c.module = "template" THEN <<>> ELSE <<d>> \o <<p, q>>
  BY <1>2 DEF RenameSteps, d
<1>4. <<d>> \in Seq(S) /\ <<p, q>> \in Seq(S) /\ <<>> \in Seq(S)
  BY <1>1
<1>5. Has(<<d>>, d) /\ Has(<<p, q>>, p) /\ Has(<<p, q>>, q)
  BY DEF Has
<1>6. /\ <<d>> \o <<p, q>> \in Seq(S)
      /\ \A s : Has(<<d>> \o <<p, q>>, s) <=> Has(<<d>>, s) \/ Has(<<p, q>>, s)
  BY <1>4, HasConcat
<1>7. QED
  BY <1>1, <1>3, <1>4, <1>5, <1>6

\* What one feature of the manifest adds to the selected steps.
Chunk(c, i) == IF FeatureOrder[i] \in c.remove THEN RemoveSteps(FeatureOrder[i]) ELSE <<>>

\* The loop over the manifest, feature by feature.
LEMMA SelectedLoop ==
  ASSUME NEW c
  PROVE  \E g : /\ g = [i \in 0 .. Len(FeatureOrder) |->
                          IF i = 0 THEN <<>> ELSE g[i - 1] \o Chunk(c, i)]
                /\ SelectedSteps(c) = g[Len(FeatureOrder)]
<1> DEFINE n == Len(FeatureOrder)
           Loop(g, i) == IF i = 0 THEN <<>> ELSE g[i - 1] \o Chunk(c, i)
           S == {k \in Nat : \E g : g = [i \in 0 .. k |-> Loop(g, i)]}
           b == CHOOSE g : g = [i \in 0 .. n |-> Loop(g, i)]
<1>1. n \in Nat
  BY InitAssumption, LenProperties
<1>2. S = Nat
  <2>1. 0 \in S
    <3> DEFINE g == [i \in 0 .. 0 |-> <<>>]
    <3>1. g = [i \in 0 .. 0 |-> Loop(g, i)]
      OBVIOUS
    <3>2. QED
      BY <3>1
  <2>2. ASSUME NEW k \in S PROVE k + 1 \in S
    <3>0. k \in Nat /\ k + 1 \in Nat
      OBVIOUS
    <3>1. PICK g : g = [i \in 0 .. k |-> Loop(g, i)]
      OBVIOUS
    <3> DEFINE h == [i \in 0 .. k + 1 |-> IF i = k + 1 THEN g[k] \o Chunk(c, k + 1) ELSE g[i]]
    <3>2. ASSUME NEW i \in 0 .. k + 1 PROVE h[i] = Loop(h, i)
      <4>1. CASE i = k + 1
        <5>1. i # 0 /\ i - 1 = k /\ k \in 0 .. k + 1 /\ k + 1 \in 0 .. k + 1 /\ k # k + 1
          BY <3>0, <4>1
        <5>2. h[i] = g[k] \o Chunk(c, k + 1) /\ h[k] = g[k]
          BY <4>1, <5>1
        <5>3. QED
          BY <4>1, <5>1, <5>2
      <4>2. CASE i = 0
        <5>1. 0 \in 0 .. k /\ 0 # k + 1
          OBVIOUS
        <5>2. QED
          BY <3>1, <4>2, <5>1
      <4>3. CASE i # 0 /\ i # k + 1
        <5>1. i \in 0 .. k /\ i - 1 \in 0 .. k + 1 /\ i - 1 # k + 1
          BY <4>3
        <5>2. h[i] = g[i] /\ h[i - 1] = g[i - 1] /\ g[i] = Loop(g, i)
          BY <3>1, <4>3, <5>1
        <5>3. QED
          BY <4>3, <5>2
      <4>4. QED
        BY <4>1, <4>2, <4>3
    <3>3. h = [i \in 0 .. k + 1 |-> Loop(h, i)]
      BY <3>2
    <3> HIDE DEF h, Loop
    <3>4. QED
      BY <3>0, <3>3
  <2>3. S \in SUBSET Nat
    OBVIOUS
  <2> HIDE DEF S
  <2>4. QED
    BY <2>1, <2>2, <2>3, SetInduction
<1>3. \E g : g = [i \in 0 .. n |-> Loop(g, i)]
  BY <1>1, <1>2
<1>4. b = [i \in 0 .. n |-> Loop(b, i)]
  <2> HIDE DEF n
  <2>1. QED
    BY <1>3
<1>5. SelectedSteps(c) = b[n]
  BY DEF SelectedSteps, Chunk
<1>6. QED
  BY <1>4, <1>5

LEMMA SelectedStepsShape ==
  ASSUME NEW c \in Command, NEW S, \A x \in c.remove : RemovalStep(x) \subseteq S
  PROVE  /\ SelectedSteps(c) \in Seq(S)
         /\ \A x \in c.remove : \A s \in RemovalStep(x) : Has(SelectedSteps(c), s)
<1> DEFINE n == Len(FeatureOrder)
<1>1. n \in Nat /\ DOMAIN FeatureOrder = 1 .. n
  BY InitAssumption, LenProperties
<1>2. PICK g : /\ g = [i \in 0 .. n |-> IF i = 0 THEN <<>> ELSE g[i - 1] \o Chunk(c, i)]
               /\ SelectedSteps(c) = g[n]
  BY SelectedLoop
<1> DEFINE P(k) == /\ g[k] \in Seq(S)
                   /\ \A i \in 1 .. k : FeatureOrder[i] \in c.remove =>
                        \A s \in RemovalStep(FeatureOrder[i]) : Has(g[k], s)
           T == {k \in Nat : k <= n => P(k)}
<1> HIDE DEF n
<1>3. 0 \in T
  <2>1. g[0] = <<>>
    BY <1>1, <1>2
  <2>2. P(0)
    BY <2>1
  <2>3. QED
    BY <2>2
<1>4. ASSUME NEW k \in T PROVE k + 1 \in T
  <2>1. SUFFICES ASSUME k + 1 <= n PROVE P(k + 1)
    OBVIOUS
  <2>2. k \in Nat /\ k <= n /\ k + 1 \in 0 .. n /\ k + 1 # 0 /\ (k + 1) - 1 = k
    BY <1>1, <2>1
  <2>3. P(k)
    BY <2>2
  <2>4. g[k + 1] = g[k] \o Chunk(c, k + 1)
    BY <1>2, <2>2
  <2>5. /\ Chunk(c, k + 1) \in Seq(S)
        /\ FeatureOrder[k + 1] \in c.remove =>
             \A s \in RemovalStep(FeatureOrder[k + 1]) : Has(Chunk(c, k + 1), s)
    <3>1. CASE FeatureOrder[k + 1] \in c.remove
      <4>1. RemovalStep(FeatureOrder[k + 1]) \subseteq S
        BY <3>1
      <4>2. QED
        BY <3>1, <4>1, RemoveStepsShape DEF Chunk
    <3>2. CASE FeatureOrder[k + 1] \notin c.remove
      BY <3>2 DEF Chunk
    <3>3. QED
      BY <3>1, <3>2
  <2>6. /\ g[k + 1] \in Seq(S)
        /\ \A s : Has(g[k + 1], s) <=> Has(g[k], s) \/ Has(Chunk(c, k + 1), s)
    BY <2>3, <2>4, <2>5, HasConcat
  <2>7. \A i \in 1 .. k + 1 : i \in 1 .. k \/ i = k + 1
    BY <2>2
  <2>8. QED
    BY <2>3, <2>5, <2>6, <2>7
<1>5. T = Nat
  <2>1. T \in SUBSET Nat
    OBVIOUS
  <2> HIDE DEF T
  <2>2. QED
    BY <1>3, <1>4, <2>1, SetInduction
<1>6. P(n)
  <2>1. n <= n
    BY <1>1
  <2>2. \A k \in Nat : k <= n => P(k)
    BY <1>5
  <2> HIDE DEF P
  <2>3. QED
    BY <1>1, <2>1, <2>2
<1>7. \A x \in c.remove : \E i \in 1 .. n : FeatureOrder[i] = x
  BY <1>1, InitAssumption DEF Command, Feature
<1>8. QED
  BY <1>2, <1>6, <1>7

\* The work of a command consists of the steps for what it removes and renames, all of them.
LEMMA WorkShape ==
  ASSUME NEW c \in Command
  PROVE  /\ Work(c) \in Seq(WorkStep(c))
         /\ \A x \in Removed(c) : \A s \in RemovalStep(x) : Has(Work(c), s)
         /\ c.module # "template" => \A s \in RenamingStep : Has(Work(c), s)
<1> DEFINE S == WorkStep(c)
<1>1. RenamingStep \subseteq S /\ \A x \in Removed(c) : RemovalStep(x) \subseteq S
  BY DEF WorkStep
<1> HIDE DEF S
<1>2. c.remove \subseteq Removed(c)
  BY DEF Removed
<1>3. /\ RenameSteps(c) \in Seq(S)
      /\ c.module # "template" => \A s \in RenamingStep : Has(RenameSteps(c), s)
  BY <1>1, RenameStepsShape
<1>4. /\ SelectedSteps(c) \in Seq(S)
      /\ \A x \in c.remove : \A s \in RemovalStep(x) : Has(SelectedSteps(c), s)
  BY <1>1, <1>2, SelectedStepsShape
<1>5. /\ CascadeSteps(c) \in Seq(S)
      /\ Cascades(c.remove) => \A s \in RemovalStep("worker") : Has(CascadeSteps(c), s)
  <2>1. CASE Cascades(c.remove)
    <3>1. RemovalStep("worker") \subseteq S
      BY <1>1, <2>1 DEF Removed
    <3>2. QED
      BY <2>1, <3>1, RemoveStepsShape DEF CascadeSteps
  <2>2. CASE ~Cascades(c.remove)
    BY <2>2 DEF CascadeSteps
  <2>3. QED
    BY <2>1, <2>2
<1>6. /\ RenameSteps(c) \o SelectedSteps(c) \in Seq(S)
      /\ \A s : Has(RenameSteps(c) \o SelectedSteps(c), s) <=>
                  Has(RenameSteps(c), s) \/ Has(SelectedSteps(c), s)
  BY <1>3, <1>4, HasConcat
<1>7. /\ Work(c) \in Seq(S)
      /\ \A s : Has(Work(c), s) <=>
                  Has(RenameSteps(c) \o SelectedSteps(c), s) \/ Has(CascadeSteps(c), s)
  BY <1>5, <1>6, HasConcat DEF Work
<1>8. \A x \in Removed(c) : x \in c.remove \/ (x = "worker" /\ Cascades(c.remove))
  BY DEF Removed
<1>9. QED
  BY <1>3, <1>4, <1>5, <1>6, <1>7, <1>8 DEF S

AnyStep(c) ==
  WorkStep(c) \cup {Step("prereqs"), Step("remove wire_gen"), Step("gofmt"), Step("wire"),
                    Step("tidy"), Step("mockery"), Step("build"), Step("remove init"),
                    Step("residual")}

\* The work, then the post-actions, then the self-destruction.
LEMMA PlanShape ==
  ASSUME NEW c \in Command, ~Nothing(c)
  PROVE  \E N \in Nat :
           /\ N = Len(Work(c)) /\ Plan(c) \in Seq(AnyStep(c)) /\ Len(Plan(c)) = N + 11
           /\ \A i \in 1 .. N + 11 :
                Plan(c)[i] = IF i <= N THEN Work(c)[i]
                             ELSE IF i <= N + 7 THEN PostActions[i - N]
                             ELSE SelfDestruct[i - (N + 7)]
<1> DEFINE S == AnyStep(c)
<1>1. Work(c) \in Seq(S)
  <2>1. Work(c) \in Seq(WorkStep(c))
    BY WorkShape
  <2>2. QED
    BY <2>1, SeqMonotonic DEF AnyStep
<1>2. PostActions \in Seq(S) /\ SelfDestruct \in Seq(S)
  <2>1. \A a, b, d, e, g, h, j \in S : /\ <<a, b, d, e, g, h, j>> \in Seq(S)
                                       /\ <<a, b, d, e>> \in Seq(S)
    <3> HIDE DEF S
    <3>1. QED
      OBVIOUS
  <2>2. QED
    BY <2>1 DEF PostActions, SelfDestruct, AnyStep
<1>3. Len(PostActions) = 7 /\ Len(SelfDestruct) = 4
  BY DEF PostActions, SelfDestruct
<1>4. PICK N \in Nat : N = Len(Work(c))
  BY <1>1, LenProperties
<1> HIDE DEF S
<1> DEFINE W == Work(c) \o PostActions
<1>5. /\ W \in Seq(S) /\ Len(W) = N + 7
      /\ \A i \in 1 .. N + 7 : W[i] = IF i <= N THEN Work(c)[i] ELSE PostActions[i - N]
  <2>1. /\ W \in Seq(S) /\ Len(W) = N + Len(PostActions)
        /\ \A i \in 1 .. N + Len(PostActions) :
             W[i] = IF i <= N THEN Work(c)[i] ELSE PostActions[i - N]
    BY <1>1, <1>2, <1>4, ConcatProperties
  <2>2. QED
    BY <1>3, <2>1
<1>6. Plan(c) = W \o SelfDestruct
  BY DEF Plan, Work
<1> HIDE DEF W
<1>7. /\ Plan(c) \in Seq(S) /\ Len(Plan(c)) = (N + 7) + 4
      /\ \A i \in 1 .. (N + 7) + 4 :
           Plan(c)[i] = IF i <= N + 7 THEN W[i] ELSE SelfDestruct[i - (N + 7)]
  <2>1. W \in Seq(S)
    BY <1>5
  <2>2. PICK m \in Nat : m = Len(W)
    BY <2>1, LenProperties
  <2>3. /\ Plan(c) \in Seq(S) /\ Len(Plan(c)) = m + Len(SelfDestruct)
        /\ \A i \in 1 .. m + Len(SelfDestruct) :
             Plan(c)[i] = IF i <= m THEN W[i] ELSE SelfDestruct[i - m]
    BY <1>2, <1>6, <2>1, <2>2, ConcatProperties
  <2>4. m = N + 7
    BY <1>5, <2>2
  <2>5. QED
    BY <1>3, <2>3, <2>4
<1>8. ASSUME NEW i \in 1 .. N + 11
      PROVE  Plan(c)[i] = IF i <= N THEN Work(c)[i]
                          ELSE IF i <= N + 7 THEN PostActions[i - N]
                          ELSE SelfDestruct[i - (N + 7)]
  <2>1. i \in 1 .. (N + 7) + 4 /\ (i <= N => i <= N + 7) /\ (i <= N + 7 => i \in 1 .. N + 7)
    OBVIOUS
  <2>2. QED
    BY <1>5, <1>7, <2>1
<1>9. QED
  BY <1>4, <1>7, <1>8 DEF S

--------------------------------------------------------------------------------
(* Where a run stands: the steps still to do, counted from the end.           *)

LateSteps ==
  <<Step("tidy"), Step("gofmt"), Step("residual"), Step("remove init"), Step("build"),
    Step("mockery"), Step("tidy"), Step("wire"), Step("gofmt"), Step("remove wire_gen"),
    Step("prereqs")>>

LEMMA PlanFromEnd ==
  ASSUME NEW c \in Command, ~Nothing(c), NEW d \in 1 .. Len(Plan(c))
  PROVE  /\ Plan(c) \in Seq(AnyStep(c)) /\ Len(Plan(c)) \in Nat
         /\ d >= 12 => Plan(c)[Len(Plan(c)) - d + 1] \in WorkStep(c)
         /\ d <= 11 => Plan(c)[Len(Plan(c)) - d + 1] = LateSteps[d]
<1>1. PICK N \in Nat :
        /\ N = Len(Work(c)) /\ Plan(c) \in Seq(AnyStep(c)) /\ Len(Plan(c)) = N + 11
        /\ \A i \in 1 .. N + 11 :
             Plan(c)[i] = IF i <= N THEN Work(c)[i]
                          ELSE IF i <= N + 7 THEN PostActions[i - N]
                          ELSE SelfDestruct[i - (N + 7)]
  BY PlanShape
<1>2. \A i \in 1 .. N : Work(c)[i] \in WorkStep(c)
  BY <1>1, WorkShape, ElementOfSeq
<1> DEFINE i == N + 11 - d + 1
<1>3. d \in Nat /\ d >= 1 /\ d <= N + 11 /\ i \in 1 .. N + 11 /\ i = N + 12 - d
  BY <1>1
<1>4. Plan(c)[i] = IF i <= N THEN Work(c)[i]
                   ELSE IF i <= N + 7 THEN PostActions[i - N] ELSE SelfDestruct[i - (N + 7)]
  BY <1>1, <1>3
<1>5. CASE d >= 12
  <2>1. i \in 1 .. N
    BY <1>3, <1>5
  <2>2. ~(d <= 11)
    BY <1>3, <1>5
  <2>3. QED
    BY <1>1, <1>2, <1>4, <2>1, <2>2
<1>6. CASE d \in 5 .. 11
  <2>1. ~(i <= N) /\ i <= N + 7 /\ i - N = 12 - d
    BY <1>3, <1>6
  <2>2. \A k \in 5 .. 11 : PostActions[12 - k] = LateSteps[k]
    <3>1. \A k \in 5 .. 11 : k = 5 \/ k = 6 \/ k = 7 \/ k = 8 \/ k = 9 \/ k = 10 \/ k = 11
      OBVIOUS
    <3>2. /\ 12 - 5 = 7 /\ 12 - 6 = 6 /\ 12 - 7 = 5 /\ 12 - 8 = 4 /\ 12 - 9 = 3
          /\ 12 - 10 = 2 /\ 12 - 11 = 1
      OBVIOUS
    <3>3. /\ PostActions[7] = LateSteps[5] /\ PostActions[6] = LateSteps[6]
          /\ PostActions[5] = LateSteps[7] /\ PostActions[4] = LateSteps[8]
          /\ PostActions[3] = LateSteps[9] /\ PostActions[2] = LateSteps[10]
          /\ PostActions[1] = LateSteps[11]
      BY DEF PostActions, LateSteps
    <3>4. ASSUME NEW k \in 5 .. 11 PROVE PostActions[12 - k] = LateSteps[k]
      BY <3>1, <3>2, <3>3
    <3>5. QED
      BY <3>4
  <2>3. QED
    BY <1>1, <1>4, <1>6, <2>1, <2>2
<1>7. CASE d \in 1 .. 4
  <2>1. ~(i <= N) /\ ~(i <= N + 7) /\ i - (N + 7) = 5 - d
    BY <1>3, <1>7
  <2>2. \A k \in 1 .. 4 : SelfDestruct[5 - k] = LateSteps[k]
    <3>1. \A k \in 1 .. 4 : k = 1 \/ k = 2 \/ k = 3 \/ k = 4
      OBVIOUS
    <3>2. 5 - 1 = 4 /\ 5 - 2 = 3 /\ 5 - 3 = 2 /\ 5 - 4 = 1
      OBVIOUS
    <3>3. /\ SelfDestruct[4] = LateSteps[1] /\ SelfDestruct[3] = LateSteps[2]
          /\ SelfDestruct[2] = LateSteps[3] /\ SelfDestruct[1] = LateSteps[4]
      BY DEF SelfDestruct, LateSteps
    <3>4. ASSUME NEW k \in 1 .. 4 PROVE SelfDestruct[5 - k] = LateSteps[k]
      BY <3>1, <3>2, <3>3
    <3>5. QED
      BY <3>4
  <2>3. QED
    BY <1>1, <1>4, <1>7, <2>1, <2>2
<1>8. QED
  BY <1>3, <1>5, <1>6, <1>7

\* What is still to do, and what it is once the next step is done.
LEMMA RemainderShape ==
  ASSUME command \in Command, ~Nothing(command), NEW m \in 0 .. Len(Plan(command))
  PROVE  /\ Remainder(m) \in Seq(AnyStep(command)) /\ Len(Remainder(m)) = m
         /\ \A i \in 1 .. m :
              Remainder(m)[i] = Plan(command)[Len(Plan(command)) - (m - i + 1) + 1]
         /\ m > 0 => /\ Head(Remainder(m)) = Remainder(m)[1]
                     /\ Tail(Remainder(m)) = Remainder(m - 1)
<1> DEFINE P == Plan(command)
<1>1. PICK n \in Nat : n = Len(P) /\ P \in Seq(AnyStep(command))
  BY PlanShape, LenProperties
<1> HIDE DEF P
<1>2. \A k \in 0 .. n :
        /\ SubSeq(P, n - k + 1, n) \in Seq(AnyStep(command))
        /\ Len(SubSeq(P, n - k + 1, n)) = k
        /\ \A i \in 1 .. k : SubSeq(P, n - k + 1, n)[i] = P[n - (k - i + 1) + 1]
  <2>1. ASSUME NEW k \in 0 .. n
        PROVE  /\ SubSeq(P, n - k + 1, n) \in Seq(AnyStep(command))
               /\ Len(SubSeq(P, n - k + 1, n)) = k
               /\ \A i \in 1 .. k : SubSeq(P, n - k + 1, n)[i] = P[n - (k - i + 1) + 1]
    <3> DEFINE a == n - k + 1
    <3>1. a \in 1 .. n + 1 /\ n \in a - 1 .. n /\ a \in Int
      BY <1>1
    <3>2. \A i \in a .. n : P[i] \in AnyStep(command)
      BY <1>1, <3>1, ElementOfSeq
    <3>3. /\ SubSeq(P, a, n) \in Seq(AnyStep(command))
          /\ Len(SubSeq(P, a, n)) = IF a <= n THEN n - a + 1 ELSE 0
          /\ \A i \in 1 .. n - a + 1 : SubSeq(P, a, n)[i] = P[a + i - 1]
      <4> HIDE DEF a
      <4>1. QED
        BY <1>1, <3>1, <3>2, SubSeqProperties
    <3>4. /\ n - a + 1 = k /\ (IF a <= n THEN n - a + 1 ELSE 0) = k
          /\ \A i \in 1 .. k : a + i - 1 = n - (k - i + 1) + 1
      BY <1>1
    <3>5. QED
      BY <3>3, <3>4
  <2>2. QED
    BY <2>1
<1>3. \A k \in 0 .. n : Remainder(k) = SubSeq(P, n - k + 1, n)
  BY <1>1 DEF Remainder, P
<1>4. m \in 0 .. n
  BY <1>1 DEF P
<1>5. ASSUME m > 0
      PROVE  Head(Remainder(m)) = Remainder(m)[1] /\ Tail(Remainder(m)) = Remainder(m - 1)
  <2> DEFINE q == Remainder(m)
             r == Remainder(m - 1)
  <2>1. m - 1 \in 0 .. n /\ m \in Nat
    BY <1>4, <1>5
  <2>2. /\ q \in Seq(AnyStep(command)) /\ Len(q) = m
        /\ \A i \in 1 .. m : q[i] = P[n - (m - i + 1) + 1]
    BY <1>2, <1>3, <1>4
  <2>3. /\ r \in Seq(AnyStep(command)) /\ Len(r) = m - 1
        /\ \A i \in 1 .. m - 1 : r[i] = P[n - ((m - 1) - i + 1) + 1]
    BY <1>2, <1>3, <2>1
  <2> HIDE DEF q, r
  <2>4. q # <<>>
    BY <1>5, <2>1, <2>2
  <2>5. /\ Head(q) = q[1] /\ Tail(q) \in Seq(AnyStep(command)) /\ Len(Tail(q)) = m - 1
        /\ \A i \in 1 .. m - 1 : Tail(q)[i] = q[i + 1]
    BY <2>1, <2>2, <2>4, HeadTailProperties
  <2>6. \A i \in 1 .. m - 1 : Tail(q)[i] = r[i]
    <3>1. ASSUME NEW i \in 1 .. m - 1 PROVE Tail(q)[i] = r[i]
      <4>1. i + 1 \in 1 .. m /\ m - (i + 1) + 1 = (m - 1) - i + 1
        BY <2>1
      <4>2. QED
        BY <2>2, <2>3, <2>5, <4>1
    <3>2. QED
      BY <3>1
  <2>7. Tail(q) = r
    BY <2>1, <2>3, <2>5, <2>6, SeqEqual
  <2>8. QED
    BY <2>5, <2>7 DEF q, r
<1>6. QED
  BY <1>1, <1>2, <1>3, <1>4, <1>5 DEF P

\* The whole plan, and none of it.
LEMMA PlanEnds ==
  ASSUME command \in Command
  PROVE  /\ Len(Plan(command)) \in Nat /\ Remainder(Len(Plan(command))) = Plan(command)
         /\ Remainder(0) = <<>>
         /\ Nothing(command) => Plan(command) = <<>>
         /\ ~Nothing(command) => Len(Plan(command)) >= 11 /\ Plan(command) # <<>>
<1>1. CASE Nothing(command)
  <2>1. Plan(command) = <<>> /\ Len(Plan(command)) = 0
    BY <1>1 DEF Plan
  <2>2. Remainder(0) = <<>>
    BY <2>1 DEF Remainder
  <2>3. QED
    BY <1>1, <2>1, <2>2
<1>2. CASE ~Nothing(command)
  <2> DEFINE P == Plan(command)
             S == AnyStep(command)
  <2>1. PICK N \in Nat : P \in Seq(S) /\ Len(P) = N + 11
    BY <1>2, PlanShape
  <2>2. PICK n \in Nat : n = Len(P) /\ n >= 11
    BY <2>1
  <2>3. n \in 0 .. n /\ 0 \in 0 .. n
    BY <2>2
  <2>4. /\ Remainder(n) \in Seq(S) /\ Len(Remainder(n)) = n
        /\ \A i \in 1 .. n : Remainder(n)[i] = P[n - (n - i + 1) + 1]
    BY <1>2, <2>2, <2>3, RemainderShape
  <2>5. Remainder(0) \in Seq(S) /\ Len(Remainder(0)) = 0
    BY <1>2, <2>2, <2>3, RemainderShape
  <2> HIDE DEF P, S
  <2>6. \A i \in 1 .. n : n - (n - i + 1) + 1 = i
    BY <2>2
  <2>7. Remainder(n) = P
    BY <2>1, <2>2, <2>4, <2>6, SeqEqual
  <2>8. Remainder(0) = <<>>
    BY <2>5, EmptySeq
  <2>9. P # <<>>
    BY <2>2
  <2>10. QED
    BY <1>2, <2>2, <2>7, <2>8, <2>9 DEF P
<1>3. QED
  BY <1>1, <1>2

\* The steps still to do, in a run that has not ended, and the same less the first of them.
LEMMA Standing ==
  ASSUME TypeOK, status = "running"
  PROVE  \E m \in Nat :
           /\ m = Len(todo) /\ m >= 1 /\ m <= Len(Plan(command)) /\ ~Nothing(command)
           /\ Head(todo) = todo[1] /\ Tail(todo) = Remainder(m - 1) /\ Len(Tail(todo)) = m - 1
           /\ Tail(todo) = <<>> <=> m = 1
           /\ \A i \in 1 .. m - 1 : Tail(todo)[i] = todo[i + 1]
           /\ \A i \in 1 .. m : m - i + 1 >= 12 => todo[i] \in WorkStep(command)
           /\ \A i \in 1 .. m : m - i + 1 <= 11 => todo[i] = LateSteps[m - i + 1]
<1>1. command \in Command /\ todo # <<>> /\ todo = Remainder(Len(todo))
  BY DEF TypeOK
<1>2. ~Nothing(command)
  <2>1. SUFFICES ASSUME Nothing(command) PROVE FALSE
    OBVIOUS
  <2>2. Plan(command) = <<>>
    BY <1>1, <2>1, PlanEnds
  <2>3. Len(todo) \in 0 .. 0
    BY <2>2 DEF TypeOK
  <2>4. Len(todo) = 0
    BY <2>3
  <2>5. todo = <<>>
    BY <1>1, <2>4, PlanEnds
  <2>6. QED
    BY <1>1, <2>5
<1>3. PICK n \in Nat : n = Len(Plan(command))
  BY <1>1, PlanEnds
<1>4. PICK m \in 0 .. n : m = Len(todo)
  BY <1>3 DEF TypeOK
<1>5. m \in Nat /\ m >= 1 /\ m - 1 \in 0 .. n /\ m <= n
  <2>1. m # 0
    BY <1>1, <1>4, PlanEnds
  <2>2. QED
    BY <1>3, <1>4, <2>1
<1>6. /\ todo \in Seq(AnyStep(command))
      /\ \A i \in 1 .. m : todo[i] = Plan(command)[n - (m - i + 1) + 1]
      /\ Head(todo) = todo[1] /\ Tail(todo) = Remainder(m - 1)
  <2>1. m > 0
    BY <1>5
  <2>2. QED
    BY <1>1, <1>2, <1>3, <1>4, <2>1, RemainderShape
<1>7. Remainder(m - 1) \in Seq(AnyStep(command)) /\ Len(Remainder(m - 1)) = m - 1
  BY <1>1, <1>2, <1>3, <1>5, RemainderShape
<1>8. Tail(todo) = <<>> <=> m = 1
  <2>1. m = 1 => Tail(todo) = <<>>
    <3>1. m = 1 => m - 1 = 0
      OBVIOUS
    <3>2. QED
      BY <1>1, <1>6, <3>1, PlanEnds
  <2>2. Len(Tail(todo)) = m - 1
    BY <1>6, <1>7
  <2> DEFINE t == Tail(todo)
  <2>3. t = <<>> => Len(t) = 0
    OBVIOUS
  <2> HIDE DEF t
  <2>4. Len(t) = m - 1
    BY <2>2 DEF t
  <2>5. t = <<>> => m = 1
    BY <1>5, <2>3, <2>4
  <2>6. QED
    BY <2>1, <2>5 DEF t
<1>9. \A i \in 1 .. m - 1 : Tail(todo)[i] = todo[i + 1]
  BY <1>1, <1>4, <1>6, HeadTailProperties
<1>10. ASSUME NEW i \in 1 .. m
       PROVE  /\ m - i + 1 >= 12 => todo[i] \in WorkStep(command)
              /\ m - i + 1 <= 11 => todo[i] = LateSteps[m - i + 1]
  <2>1. m - i + 1 \in 1 .. n
    BY <1>5
  <2>2. todo[i] = Plan(command)[n - (m - i + 1) + 1]
    BY <1>6
  <2>3. QED
    BY <1>1, <1>2, <1>3, <2>1, <2>2, PlanFromEnd
<1>11. QED
  BY <1>2, <1>3, <1>4, <1>5, <1>6, <1>7, <1>8, <1>9, <1>10

LEMMA WorkNames ==
  ASSUME NEW c, NEW s \in WorkStep(c)
  PROVE  /\ s[1] \in {"edit go.mod", "rename", "delete", "strip"}
         /\ s[1] = "edit go.mod" => s = Step("edit go.mod")
         /\ s[1] = "rename" => s[3] \in File /\ s = StepOn("rename", "none", s[3])
         /\ s[1] = "delete" => s[2] \in Removed(c) /\ s = StepOn("delete", s[2], "none")
         /\ s[1] = "strip" =>
              s[2] \in Removed(c) /\ s[3] \in File /\ s = StepOn("strip", s[2], s[3])
<1>1. \A n, x, f : StepOn(n, x, f)[1] = n /\ StepOn(n, x, f)[2] = x /\ StepOn(n, x, f)[3] = f
  BY DEF StepOn
<1>2. \A n : Step(n)[1] = n
  BY DEF Step
<1>3. CASE s = Step("edit go.mod")
  <2>1. s[1] = "edit go.mod"
    BY <1>2, <1>3
  <2>2. QED
    BY <1>3, <2>1
<1>4. ASSUME NEW f \in File, s = StepOn("rename", "none", f)
      PROVE  s[1] = "rename" /\ s[3] = f
  BY <1>1, <1>4
<1>5. ASSUME NEW x \in Removed(c), s = StepOn("delete", x, "none")
      PROVE  s[1] = "delete" /\ s[2] = x
  BY <1>1, <1>5
<1>6. ASSUME NEW x \in Removed(c), NEW f \in File, s = StepOn("strip", x, f)
      PROVE  s[1] = "strip" /\ s[2] = x /\ s[3] = f
  BY <1>1, <1>6
<1>7. \/ s = Step("edit go.mod")
      \/ \E f \in File : s = StepOn("rename", "none", f)
      \/ \E x \in Removed(c) : s = StepOn("delete", x, "none")
      \/ \E x \in Removed(c), f \in File : s = StepOn("strip", x, f)
  BY DEF WorkStep, RenamingStep, RemovalStep
<1>8. CASE \E f \in File : s = StepOn("rename", "none", f)
  BY <1>4, <1>8
<1>9. CASE \E x \in Removed(c) : s = StepOn("delete", x, "none")
  BY <1>5, <1>9
<1>10. CASE \E x \in Removed(c), f \in File : s = StepOn("strip", x, f)
  BY <1>6, <1>10
<1>11. QED
  BY <1>3, <1>7, <1>8, <1>9, <1>10

LEMMA LateNames ==
  ASSUME NEW d \in 1 .. 11
  PROVE  \/ d = 1 /\ LateSteps[d][1] = "tidy"
         \/ d = 2 /\ LateSteps[d][1] = "gofmt"
         \/ d = 3 /\ LateSteps[d][1] = "residual"
         \/ d = 4 /\ LateSteps[d][1] = "remove init"
         \/ d = 5 /\ LateSteps[d][1] = "build"
         \/ d = 6 /\ LateSteps[d][1] = "mockery"
         \/ d = 7 /\ LateSteps[d][1] = "tidy"
         \/ d = 8 /\ LateSteps[d][1] = "wire"
         \/ d = 9 /\ LateSteps[d][1] = "gofmt"
         \/ d = 10 /\ LateSteps[d][1] = "remove wire_gen"
         \/ d = 11 /\ LateSteps[d][1] = "prereqs"
<1>1. \A n : Step(n)[1] = n
  BY DEF Step
<1>2. LateSteps[1][1] = "tidy"
  BY <1>1 DEF LateSteps
<1>3. LateSteps[2][1] = "gofmt"
  BY <1>1 DEF LateSteps
<1>4. LateSteps[3][1] = "residual"
  BY <1>1 DEF LateSteps
<1>5. LateSteps[4][1] = "remove init"
  BY <1>1 DEF LateSteps
<1>6. LateSteps[5][1] = "build"
  BY <1>1 DEF LateSteps
<1>7. LateSteps[6][1] = "mockery"
  BY <1>1 DEF LateSteps
<1>8. LateSteps[7][1] = "tidy"
  BY <1>1 DEF LateSteps
<1>9. LateSteps[8][1] = "wire"
  BY <1>1 DEF LateSteps
<1>10. LateSteps[9][1] = "gofmt"
  BY <1>1 DEF LateSteps
<1>11. LateSteps[10][1] = "remove wire_gen"
  BY <1>1 DEF LateSteps
<1>12. LateSteps[11][1] = "prereqs"
  BY <1>1 DEF LateSteps
<1>13. \/ d = 1 \/ d = 2 \/ d = 3 \/ d = 4 \/ d = 5 \/ d = 6 \/ d = 7 \/ d = 8 \/ d = 9 \/ d = 10
       \/ d = 11
  OBVIOUS
<1>14. QED
  BY <1>2, <1>3, <1>4, <1>5, <1>6, <1>7, <1>8, <1>9, <1>10, <1>11, <1>12, <1>13

\* The name of the next step tells how many are left.
LEMMA Places ==
  ASSUME TypeOK, status = "running"
  PROVE  \E m \in Nat :
           /\ m = Len(todo) /\ m >= 1
           /\ Head(todo)[1] \in {"edit go.mod", "rename", "delete", "strip"} =>
                m >= 12 /\ Head(todo) \in WorkStep(command)
           /\ Head(todo)[1] = "remove wire_gen" => m = 10
           /\ Head(todo)[1] = "wire" => m = 8
           /\ Head(todo)[1] = "build" => m = 5
           /\ Head(todo)[1] = "remove init" => m = 4
           /\ Head(todo)[1] = "residual" => m = 3
           /\ Head(todo)[1] \in {"prereqs", "gofmt", "tidy", "mockery"} =>
                m \in {1, 2, 6, 7, 9, 11}
<1>1. PICK m \in Nat :
        /\ m = Len(todo) /\ m >= 1 /\ Head(todo) = todo[1]
        /\ \A i \in 1 .. m : m - i + 1 >= 12 => todo[i] \in WorkStep(command)
        /\ \A i \in 1 .. m : m - i + 1 <= 11 => todo[i] = LateSteps[m - i + 1]
  BY Standing
<1>2. 1 \in 1 .. m /\ m - 1 + 1 = m
  BY <1>1
<1> DEFINE h == Head(todo)[1]
           Place == /\ h \in {"edit go.mod", "rename", "delete", "strip"} =>
                         m >= 12 /\ Head(todo) \in WorkStep(command)
                    /\ h = "remove wire_gen" => m = 10
                    /\ h = "wire" => m = 8
                    /\ h = "build" => m = 5
                    /\ h = "remove init" => m = 4
                    /\ h = "residual" => m = 3
                    /\ h \in {"prereqs", "gofmt", "tidy", "mockery"} => m \in {1, 2, 6, 7, 9, 11}
<1>3. ASSUME m >= 12 PROVE Place
  <2>1. Head(todo) \in WorkStep(command)
    BY <1>1, <1>2, <1>3
  <2>2. Head(todo)[1] \in {"edit go.mod", "rename", "delete", "strip"}
    BY <2>1, WorkNames
  <2>3. h \in {"edit go.mod", "rename", "delete", "strip"}
    BY <2>2
  <2> HIDE DEF h
  <2>4. /\ h # "remove wire_gen" /\ h # "wire" /\ h # "build" /\ h # "remove init"
        /\ h # "residual" /\ h \notin {"prereqs", "gofmt", "tidy", "mockery"}
    BY <2>3
  <2>5. QED
    BY <1>3, <2>1, <2>3, <2>4
<1>4. ASSUME m <= 11 PROVE Place
  <2>1. Head(todo) = LateSteps[m]
    BY <1>1, <1>2, <1>4
  <2>2. m \in 1 .. 11
    <3>1. m >= 1
      BY <1>1
    <3>2. QED
      BY <1>4, <3>1
  <2>3. h = LateSteps[m][1]
    BY <2>1 DEF h
  <2> HIDE DEF h
  <2>4. \/ m = 1 /\ h = "tidy"
        \/ m = 2 /\ h = "gofmt"
        \/ m = 3 /\ h = "residual"
        \/ m = 4 /\ h = "remove init"
        \/ m = 5 /\ h = "build"
        \/ m = 6 /\ h = "mockery"
        \/ m = 7 /\ h = "tidy"
        \/ m = 8 /\ h = "wire"
        \/ m = 9 /\ h = "gofmt"
        \/ m = 10 /\ h = "remove wire_gen"
        \/ m = 11 /\ h = "prereqs"
    BY <2>2, <2>3, LateNames
  <2>5. ~(m >= 12)
    BY <1>4
  <2>6. /\ h \notin {"edit go.mod", "rename", "delete", "strip"}
        /\ h = "remove wire_gen" => m = 10
        /\ h = "wire" => m = 8
        /\ h = "build" => m = 5
        /\ h = "remove init" => m = 4
        /\ h = "residual" => m = 3
        /\ h \in {"prereqs", "gofmt", "tidy", "mockery"} => m \in {1, 2, 6, 7, 9, 11}
    BY <2>4
  <2>7. QED
    BY <2>6
<1>5. Place
  <2> HIDE DEF Place
  <2>1. QED
    BY <1>1, <1>3, <1>4
<1>6. QED
  BY <1>1, <1>5

\* No work is waiting any more when the post-actions have begun.
LEMMA NoWorkLeft ==
  ASSUME TypeOK, status = "running", Len(todo) <= 11, NEW s \in WorkStep(command)
  PROVE  ~Waiting(s)
<1>1. PICK m \in Nat :
        /\ m = Len(todo) /\ m >= 1
        /\ \A i \in 1 .. m : m - i + 1 <= 11 => todo[i] = LateSteps[m - i + 1]
  BY Standing
<1>2. ASSUME NEW i \in 1 .. m, todo[i] = s PROVE FALSE
  <2>1. m - i + 1 \in 1 .. 11
    BY <1>1
  <2>2. s = LateSteps[m - i + 1]
    BY <1>1, <1>2, <2>1
  <2>3. s[1] \notin {"edit go.mod", "rename", "delete", "strip"}
    BY <2>1, <2>2, LateNames
  <2>4. QED
    BY <2>3, WorkNames
<1>3. QED
  BY <1>1, <1>2 DEF Waiting

\* A step is done, and the others wait as before.
LEMMA Advances ==
  ASSUME TypeOK, status = "running", Advance
  PROVE  /\ Len(todo') = Len(todo) - 1 /\ Len(todo) \in Nat
         /\ todo' = Remainder(Len(todo) - 1) /\ Len(todo) - 1 \in 0 .. Len(Plan(command))
         /\ status' \in {"running", "complete"}
         /\ status' = "running" <=> todo' # <<>>
         /\ status' = "complete" <=> Len(todo) = 1
         /\ \A s : Waiting(s) /\ s # Head(todo) => Waiting(s)'
<1>1. PICK m \in Nat :
        /\ m = Len(todo) /\ m >= 1 /\ m <= Len(Plan(command))
        /\ Head(todo) = todo[1] /\ Tail(todo) = Remainder(m - 1) /\ Len(Tail(todo)) = m - 1
        /\ Tail(todo) = <<>> <=> m = 1
        /\ \A i \in 1 .. m - 1 : Tail(todo)[i] = todo[i + 1]
  BY Standing
<1>2. Len(Plan(command)) \in Nat
  BY PlanEnds DEF TypeOK
<1>3. /\ todo' = Tail(todo)
      /\ status' = IF Tail(todo) = <<>> THEN "complete" ELSE "running"
  BY DEF Advance
<1>4. ASSUME NEW s, Waiting(s), s # Head(todo) PROVE Waiting(s)'
  <2>1. PICK i \in 1 .. m : todo[i] = s
    BY <1>1, <1>4 DEF Waiting
  <2>2. i # 1
    BY <1>1, <1>4, <2>1
  <2>3. i - 1 \in 1 .. m - 1 /\ (i - 1) + 1 = i
    BY <2>2
  <2>4. i - 1 \in 1 .. Len(todo') /\ todo'[i - 1] = s
    BY <1>1, <1>3, <2>1, <2>3
  <2>5. QED
    BY <2>4 DEF Waiting
<1>5. QED
  BY <1>1, <1>2, <1>3, <1>4

--------------------------------------------------------------------------------
(* Type correctness.                                                          *)

RunType ==
  /\ command \in Command
  /\ Len(todo) \in 0..Len(Plan(command)) /\ todo = Remainder(Len(todo))
  /\ status \in {"idle", "running", "failed", "nothing", "partly", "complete"}
  /\ (status = "running") = (todo # <<>>)
  /\ failures \in Nat

TreeType ==
  /\ DOMAIN files \subseteq File
  /\ \A f \in DOMAIN files : files[f] \subseteq DOMAIN template[f]
  /\ DOMAIN imports = DOMAIN files
  /\ \A f \in DOMAIN files : imports[f] \in Module
  /\ goMod \in Module
  /\ dirs \subseteq Marked \cup {"init"}
  /\ partial \subseteq dirs
  /\ wireGen \in {"committed", "absent", "fresh"}
  /\ "worker" \in Whole => "worker" \in DOMAIN files
  /\ "worker" \in DOMAIN files => "worker" \in dirs

LEMMA TypeParts == TypeOK <=> RunType /\ TreeType
  BY DEF TypeOK, RunType, TreeType

\* The files that are kept are kept as they are.
LEMMA Kept ==
  ASSUME NEW left, KeepFiles(left)
  PROVE  /\ DOMAIN files' = left /\ DOMAIN imports' = left
         /\ \A f \in left : files'[f] = files[f] /\ imports'[f] = imports[f]
  BY DEF KeepFiles

\* A deletion, whole or half-way, touches the files of what is deleted and no others.
LEMMA DeletionKeeps ==
  ASSUME DeletePaths \/ DeletePartly
  PROVE  /\ UNCHANGED <<goMod, wireGen>>
         /\ DOMAIN files' \subseteq DOMAIN files /\ DOMAIN imports' = DOMAIN files'
         /\ \A f \in DOMAIN files' : files'[f] = files[f] /\ imports'[f] = imports[f]
<1>1. UNCHANGED <<goMod, wireGen>>
  BY DEF DeletePaths, DeletePartly, RemovePaths
<1>2. PICK left : KeepFiles(left) /\ left \subseteq DOMAIN files
  BY DEF DeletePaths, DeletePartly, RemovePaths
<1>3. QED
  BY <1>1, <1>2, Kept

\* What has been stripped when the last strip stops half-way.
LEMMA PartStripped ==
  ASSUME StripPartly
  PROVE  /\ UNCHANGED <<imports, goMod, dirs, partial, wireGen>>
         /\ DOMAIN files' = DOMAIN files
         /\ \A f \in DOMAIN files :
              files'[f] = files[f] \/ files'[f] = StripMarkers(template[f], files[f])
  BY DEF StripPartly

LEMMA RunTypeAdvance ==
  ASSUME TypeOK, status = "running", Advance
  PROVE  RunType'
<1>1. command' = command /\ failures' = failures
  BY DEF Advance
<1>2. /\ Len(todo') = Len(todo) - 1 /\ todo' = Remainder(Len(todo) - 1)
      /\ Len(todo) - 1 \in 0 .. Len(Plan(command))
      /\ status' \in {"running", "complete"} /\ (status' = "running" <=> todo' # <<>>)
  BY Advances
<1>3. Len(todo') \in 0..Len(Plan(command')) /\ todo' = (Remainder(Len(todo)))'
  BY <1>1, <1>2 DEF Remainder
<1>4. QED
  BY <1>1, <1>2, <1>3 DEF RunType, TypeOK

\* A run that ends has no steps left.
LEMMA RunTypeEnd ==
  ASSUME RunType, command' = command, failures' \in Nat, todo' = <<>>,
         status' \in {"failed", "partly", "nothing"}
  PROVE  RunType'
<1>1. Len(Plan(command)) \in Nat /\ Remainder(0) = <<>>
  BY PlanEnds DEF RunType
<1>2. Len(todo') = 0 /\ 0 \in 0 .. Len(Plan(command))
  BY <1>1
<1>3. Len(todo') \in 0..Len(Plan(command')) /\ todo' = (Remainder(Len(todo)))'
  BY <1>1, <1>2 DEF Remainder
<1>4. status' # "running"
  OBVIOUS
<1>5. QED
  BY <1>3, <1>4 DEF RunType

LEMMA InitTyped == Init => TypeOK
<1>1. SUFFICES ASSUME Init PROVE TypeOK
  OBVIOUS
<1>2. command \in Command /\ todo = <<>> /\ status = "idle" /\ failures \in Nat
  BY <1>1, InitAssumption DEF Init
<1>3. Len(Plan(command)) \in Nat /\ Remainder(0) = <<>>
  BY <1>2, PlanEnds
<1>4. RunType
  <2>1. Len(todo) = 0 /\ 0 \in 0 .. Len(Plan(command))
    BY <1>2, <1>3
  <2>2. Len(todo) \in 0..Len(Plan(command)) /\ todo = Remainder(Len(todo))
    BY <1>2, <1>3, <2>1
  <2>3. QED
    BY <1>2, <2>2 DEF RunType
<1>5. TreeType
  BY <1>1 DEF Init, TreeType, Whole, File, Module, Marked
<1>6. QED
  BY <1>4, <1>5, TypeParts

LEMMA TreeTypeStep ==
  ASSUME TypeOK, Next
  PROVE  TreeType'
<1>1. TreeType
  BY TypeParts
<1>2. CASE UNCHANGED <<template, tree>>
  BY <1>1, <1>2 DEF TreeType, Whole, tree
<1>3. CASE Begin \/ Retry \/ (Fail /\ UNCHANGED tree)
  BY <1>2, <1>3 DEF Begin, Retry, Fail
<1>3a. CASE Fail /\ DeletePartly
  <2>1. PICK x \in dirs :
          /\ partial' = partial \cup {x} /\ UNCHANGED dirs
          /\ \E gone \in SUBSET FilesUnder(x) : KeepFiles(DOMAIN files \ gone)
    BY <1>3a DEF DeletePartly
  <2>1a. PICK gone \in SUBSET FilesUnder(x) : KeepFiles(DOMAIN files \ gone)
    BY <2>1
  <2>2. DOMAIN files' = DOMAIN files \ gone
    BY <2>1a, Kept
  <2>3. "worker" \in gone => x = "worker"
    BY DEF FilesUnder
  <2>4. "worker" \in Whole' => "worker" \in DOMAIN files'
    BY <1>1, <2>1, <2>2, <2>3 DEF TreeType, Whole
  <2>5. partial' \subseteq dirs' /\ UNCHANGED template
    BY <1>1, <1>3a, <2>1 DEF TreeType, Fail
  <2>6. QED
    BY <1>1, <1>3a, <2>1, <2>4, <2>5, DeletionKeeps DEF TreeType
<1>3b. CASE Fail /\ StripPartly
  <2>1. \A f \in DOMAIN files : files'[f] \subseteq files[f]
    BY <1>3b, PartStripped DEF StripMarkers
  <2>2. QED
    BY <1>1, <1>3b, <2>1, PartStripped DEF TreeType, Whole, Fail
<1>4. CASE Restore
  BY <1>4 DEF Restore, Committed, TreeType, Whole, File, Module, Marked
<1>5. CASE EditGoMod
  BY <1>1, <1>5 DEF EditGoMod, Advance, TreeType, Whole, TypeOK, Command
<1>6. CASE RenameFile
  <2>1. command.module \in Module
    BY DEF TypeOK, Command
  <2>2. DOMAIN imports' = DOMAIN imports /\ \A f \in DOMAIN imports' : imports'[f] \in Module
    BY <1>1, <1>6, <2>1 DEF RenameFile, TreeType
  <2>3. QED
    BY <1>1, <1>6, <2>2 DEF RenameFile, Advance, TreeType, Whole
<1>7. CASE DeletePaths
  <2>1. /\ dirs' = dirs \ {StepArg} /\ partial' = partial \ {StepArg} /\ UNCHANGED template
        /\ KeepFiles(DOMAIN files \ FilesUnder(StepArg))
    BY <1>7 DEF DeletePaths, RemovePaths, Advance
  <2>2. DOMAIN files' = DOMAIN files \ FilesUnder(StepArg)
    BY <2>1, Kept
  <2>3. "worker" \in FilesUnder(StepArg) <=> StepArg = "worker"
    BY DEF FilesUnder
  <2>4. /\ "worker" \in Whole' => "worker" \in DOMAIN files'
        /\ "worker" \in DOMAIN files' => "worker" \in dirs'
    BY <1>1, <2>1, <2>2, <2>3 DEF TreeType, Whole
  <2>5. partial' \subseteq dirs' /\ dirs' \subseteq Marked \cup {"init"}
    BY <1>1, <2>1 DEF TreeType
  <2>6. QED
    BY <1>1, <1>7, <2>1, <2>4, <2>5, DeletionKeeps DEF TreeType
<1>8. CASE Strip
  <2>1. CASE Abort
    BY <1>2, <2>1 DEF Abort
  <2>2. CASE ~Abort
    <3>1. /\ files' = [f \in DOMAIN files |->
                        IF f = StepFile THEN StripFeature(template[f], files[f], StepArg)
                        ELSE files[f]]
          /\ UNCHANGED <<template, imports, goMod, dirs, partial, wireGen>>
      BY <1>8, <2>2 DEF Strip, Advance
    <3>2. DOMAIN files' = DOMAIN files /\ \A f \in DOMAIN files : files'[f] \subseteq files[f]
      BY <3>1, StripDeletes
    <3>3. QED
      BY <1>1, <3>1, <3>2 DEF TreeType, Whole
  <2>3. QED
    BY <2>1, <2>2
<1>9. CASE RemoveWireGen
  BY <1>1, <1>9 DEF RemoveWireGen, Advance, TreeType, Whole
<1>10. CASE RunTool \/ Build
  BY <1>2, <1>10 DEF RunTool, Build, Advance, Abort
<1>11. CASE Wire
  <2>1. UNCHANGED <<template, files, imports, goMod, dirs, partial>> /\ wireGen' \in {wireGen, "fresh"}
    BY <1>11 DEF Wire, Advance, Abort, tree
  <2>2. QED
    BY <1>1, <2>1 DEF TreeType, Whole
<1>12. CASE RemoveInit
  <2>1. /\ dirs' = dirs \ {"init"} /\ partial' = partial \ {"init"}
        /\ UNCHANGED <<template, files, imports, goMod, wireGen>>
    BY <1>12 DEF RemoveInit, Advance
  <2>2. dirs' \subseteq Marked \cup {"init"} /\ partial' \subseteq dirs'
    BY <1>1, <2>1 DEF TreeType
  <2>3. ("worker" \in dirs' <=> "worker" \in dirs) /\ ("worker" \in Whole' <=> "worker" \in Whole)
    BY <2>1 DEF Whole
  <2>4. QED
    BY <1>1, <2>1, <2>2, <2>3 DEF TreeType
<1>13. CASE StripResidual
  <2>1. /\ files' = [f \in DOMAIN files |-> StripMarkers(template[f], files[f])]
        /\ UNCHANGED <<template, imports, goMod, dirs, partial, wireGen>>
    BY <1>13 DEF StripResidual, Advance
  <2>2. DOMAIN files' = DOMAIN files /\ \A f \in DOMAIN files : files'[f] \subseteq files[f]
    BY <2>1 DEF StripMarkers
  <2>3. QED
    BY <1>1, <2>1, <2>2 DEF TreeType, Whole
<1>14. QED
  BY <1>3, <1>3a, <1>3b, <1>4, <1>5, <1>6, <1>7, <1>8, <1>9, <1>10, <1>11, <1>12, <1>13 DEF Next, DoStep, Fail

\* A step either is done or ends the run.
LEMMA DoneOrAborted ==
  ASSUME DoStep
  PROVE  status = "running" /\ (Advance \/ Abort)
<1>1. CASE EditGoMod
  BY <1>1 DEF EditGoMod, At
<1>2. CASE RenameFile
  BY <1>2 DEF RenameFile, At
<1>3. CASE DeletePaths
  BY <1>3 DEF DeletePaths, At
<1>4. CASE Strip
  BY <1>4 DEF Strip, At
<1>5. CASE RemoveWireGen
  BY <1>5 DEF RemoveWireGen, At
<1>6. CASE RunTool
  BY <1>6 DEF RunTool, At
<1>7. CASE Wire
  BY <1>7 DEF Wire, At
<1>8. CASE Build
  BY <1>8 DEF Build, At
<1>9. CASE RemoveInit
  BY <1>9 DEF RemoveInit, At
<1>10. CASE StripResidual
  BY <1>10 DEF StripResidual, At
<1>11. QED
  BY <1>1, <1>2, <1>3, <1>4, <1>5, <1>6, <1>7, <1>8, <1>9, <1>10 DEF DoStep

\* A run that has failed had something to do.
FailedInv == status = "failed" => ~Nothing(command)

LEMMA FailedStep ==
  ASSUME TypeOK, FailedInv, Next
  PROVE  FailedInv'
<1>1. UNCHANGED command
  <2>1. CASE DoStep
    BY <2>1, DoneOrAborted DEF Advance, Abort
  <2>2. QED
    BY <2>1 DEF Next, Begin, Retry, Restore, Fail
<1>2. CASE status = "running"
  BY <1>1, <1>2, Standing DEF FailedInv, Nothing
<1>3. CASE status # "running"
  <2>1. ~DoStep /\ ~Fail
    BY <1>3, DoneOrAborted DEF Fail
  <2>2. status' # "failed"
    BY <2>1 DEF Next, Begin, Retry, Restore
  <2>3. QED
    BY <2>2 DEF FailedInv
<1>4. QED
  BY <1>2, <1>3

LEMMA RunTypeStep ==
  ASSUME TypeOK, FailedInv, Next
  PROVE  RunType'
<1>1. RunType
  BY TypeParts
<1>2. Len(Plan(command)) \in Nat /\ Remainder(Len(Plan(command))) = Plan(command)
  BY PlanEnds DEF TypeOK
<1>3. ASSUME todo' = Plan(command), todo' # <<>>, status' = "running", UNCHANGED <<command, failures>>
      PROVE  RunType'
  <2>1. Len(todo') \in 0..Len(Plan(command')) /\ todo' = (Remainder(Len(todo)))'
    BY <1>2, <1>3 DEF Remainder
  <2>2. QED
    BY <1>1, <1>3, <2>1 DEF RunType
<1>4. CASE Begin
  <2>1. CASE Plan(command) = <<>>
    BY <1>1, <1>4, <2>1, RunTypeEnd DEF Begin, RunType
  <2>2. CASE Plan(command) # <<>>
    BY <1>3, <1>4, <2>2 DEF Begin
  <2>3. QED
    BY <2>1, <2>2
<1>5. CASE Retry
  <2>1. ~Nothing(command)
    BY <1>5 DEF Retry, FailedInv
  <2>2. Plan(command) # <<>>
    BY <2>1, PlanEnds DEF TypeOK
  <2>3. QED
    BY <1>3, <1>5, <2>2 DEF Retry
<1>6. CASE Restore
  BY <1>1, <1>6 DEF Restore, RunType, Remainder
<1>7. CASE DoStep
  <2>1. CASE Advance
    BY <1>7, <2>1, DoneOrAborted, RunTypeAdvance
  <2>2. CASE Abort
    BY <1>1, <2>2, RunTypeEnd DEF Abort, RunType
  <2>3. QED
    BY <1>7, <2>1, <2>2, DoneOrAborted
<1>8. CASE Fail
  BY <1>1, <1>8, RunTypeEnd DEF Fail, RunType
<1>9. QED
  BY <1>4, <1>5, <1>6, <1>7, <1>8 DEF Next

TypeInv == TypeOK /\ FailedInv

LEMMA TypeInduction ==
  /\ Init => TypeInv
  /\ TypeInv /\ [Next]_vars => TypeInv'
<1>1. Init => FailedInv
  BY DEF Init, FailedInv
<1>2. ASSUME TypeInv, Next PROVE TypeInv'
  <2>1. RunType' /\ TreeType' /\ FailedInv'
    BY <1>2, FailedStep, RunTypeStep, TreeTypeStep DEF TypeInv
  <2>2. TypeOK'
    BY <2>1 DEF TypeOK, RunType, TreeType
  <2>3. QED
    BY <2>1, <2>2 DEF TypeInv
<1>3. ASSUME TypeInv, UNCHANGED vars PROVE TypeInv'
  BY <1>3 DEF TypeInv, TypeOK, FailedInv, vars, tree, Remainder, Whole
<1>4. QED
  BY <1>1, <1>2, <1>3, InitTyped DEF TypeInv

\* Whatever fails and however often, the tree consists of the template's directories and
\* of files with lines of the template, and a run is at some point of the plan of its
\* command, which it follows to the end or abandons (main.go).
THEOREM TypeCorrect == Spec => []TypeOK
<1>1. TypeInv => TypeOK
  BY DEF TypeInv
<1>2. QED
  BY <1>1, TypeInduction, PTL DEF Spec

--------------------------------------------------------------------------------
(* The initialiser survives until the tree builds.                            *)

LEMMA RemovedMarked ==
  ASSUME NEW c \in Command
  PROVE  Removed(c) \subseteq Marked /\ "init" \notin Marked
<1>1. c.remove \subseteq Feature
  BY InitAssumption DEF Command
<1>2. "init" \notin Marked
  BY InitAssumption DEF Marked
<1>3. QED
  BY <1>1, <1>2 DEF Removed, Marked

\* Fewer lines, of fewer files, compile as well.
LEMMA CompilesKept ==
  ASSUME Compiles, UNCHANGED <<template, goMod>>, DOMAIN files' \subseteq DOMAIN files,
         \A f \in DOMAIN files' : imports'[f] = imports[f] /\ files'[f] \subseteq files[f],
         Whole \cap Marked \subseteq Whole'
  PROVE  Compiles'
<1>1. ASSUME NEW f \in DOMAIN files' PROVE imports'[f] = goMod'
  BY <1>1 DEF Compiles
<1>2. ASSUME NEW f \in DOMAIN files', NEW i \in Texts(template[f], files'[f]), NEW x \in Marked,
             Inside(template[f], i, x)
      PROVE  x \in Whole'
  <2>1. i \in Texts(template[f], files[f])
    BY <1>2 DEF Texts
  <2>2. x \in Whole
    BY <1>2, <2>1 DEF Compiles
  <2>3. QED
    BY <2>2
<1>3. QED
  BY <1>1, <1>2 DEF Compiles

\* Early in a run nothing is claimed but that the initialiser is there.
LEMMA StageEarly ==
  ASSUME "init" \in Whole', status' # "complete",
         status' = "running" => Len(todo') \in Nat /\ Len(todo') >= 8
  PROVE  StageInv'
<1>1. status' = "running" => ~(Len(todo') <= 7) /\ ~(Len(todo') <= 3) /\ ~(Len(todo') <= 2)
  OBVIOUS
<1>2. QED
  BY <1>1 DEF StageInv

\* A run may end without touching the tree.
LEMMA StageEnd ==
  ASSUME StageInv, UNCHANGED <<template, tree>>, status' \in {"failed", "partly"}
  PROVE  StageInv'
<1>1. status' # "idle" /\ status' # "running" /\ status' # "complete"
  OBVIOUS
<1>2. UNCHANGED <<template, files, imports, goMod, Whole, wireGen>>
  BY DEF tree, Whole
<1>3. "init" \notin Whole' => Compiles' /\ wireGen' = "fresh"
  <2>1. Compiles => Compiles'
    BY <1>2 DEF Compiles
  <2>2. QED
    BY <1>2, <2>1 DEF StageInv
<1>4. QED
  BY <1>1, <1>3 DEF StageInv

\* Or in the middle of a deletion or of the last strip.
LEMMA StageHalfway ==
  ASSUME TypeOK, StageInv, Fail, DeletePartly \/ StripPartly
  PROVE  StageInv'
<1>1. /\ status = "running" /\ status' \in {"failed", "partly"}
      /\ status' # "running" /\ status' # "complete" /\ status' # "idle" /\ UNCHANGED template
  BY DEF Fail
<1> DEFINE h == Head(todo)[1]
<1>2. PICK m \in Nat :
        /\ m = Len(todo)
        /\ h = "delete" => m >= 12 /\ Head(todo) \in WorkStep(command)
        /\ h = "remove init" => m = 4
        /\ h = "residual" => m = 3
  BY <1>1, Places
<1> HIDE DEF h
<1>3. ASSUME m <= 7, DOMAIN files' \subseteq DOMAIN files, UNCHANGED <<goMod, wireGen>>,
             \A f \in DOMAIN files' : imports'[f] = imports[f] /\ files'[f] \subseteq files[f],
             Whole \cap Marked \subseteq Whole'
      PROVE  StageInv'
  <2>1. Compiles /\ wireGen = "fresh"
    BY <1>1, <1>2, <1>3 DEF StageInv
  <2>2. Compiles'
    BY <1>1, <1>3, <2>1, CompilesKept
  <2>3. QED
    BY <1>1, <1>3, <2>1, <2>2 DEF StageInv
<1>4. CASE StripPartly
  <2>1. m = 3
    BY <1>2, <1>4 DEF StripPartly, At, h
  <2>2. m <= 7
    BY <2>1
  <2>3. \A f \in DOMAIN files : files'[f] \subseteq files[f]
    BY <1>4, PartStripped DEF StripMarkers
  <2>4. QED
    BY <1>3, <1>4, <2>2, <2>3, PartStripped DEF Whole
<1>5. CASE DeletePartly
  <2>1. PICK x \in dirs :
          /\ \/ h = "delete" /\ x = StepArg
             \/ h = "remove init" /\ x = "init"
          /\ partial' = partial \cup {x} /\ UNCHANGED dirs
    BY <1>5 DEF DeletePartly, At, h
  <2>2. CASE h = "delete" /\ x = StepArg
    <3>1. m >= 12 /\ Head(todo) \in WorkStep(command)
      BY <1>2, <2>2
    <3>2. x \in Removed(command)
      BY <2>2, <3>1, WorkNames DEF StepArg, h
    <3>3. x # "init"
      BY <3>2, RemovedMarked DEF TypeOK
    <3>4. m >= 4
      BY <3>1
    <3>5. "init" \in Whole'
      BY <1>1, <1>2, <2>1, <3>3, <3>4 DEF StageInv, Whole
    <3>6. QED
      BY <1>1, <3>5, StageEarly
  <2>3. CASE h = "remove init" /\ x = "init"
    <3>1. m = 4
      BY <1>2, <2>3
    <3>2. m <= 7
      BY <3>1
    <3>3. Whole \cap Marked \subseteq Whole'
      BY <2>1, <2>3, RemovedMarked DEF TypeOK, Whole
    <3>4. QED
      BY <1>3, <1>5, <3>2, <3>3, DeletionKeeps
  <2>4. QED
    BY <2>1, <2>2, <2>3
<1>6. QED
  BY <1>4, <1>5

LEMMA StageStep ==
  ASSUME TypeInv, StageInv, Next
  PROVE  StageInv'
<1>0. TypeOK
  BY DEF TypeInv
<1>1. ASSUME todo' = Plan(command), "init" \in Whole', ~Nothing(command), status' = "running"
      PROVE  StageInv'
  <2>1. Len(todo') \in Nat /\ Len(todo') >= 11
    BY <1>0, <1>1, PlanEnds DEF TypeOK
  <2>2. Len(todo') >= 8
    BY <2>1
  <2>3. QED
    BY <1>1, <2>1, <2>2, StageEarly
<1>2. CASE Begin
  <2>1. "init" \in Whole'
    BY <1>2 DEF Begin, tree, StageInv, Whole
  <2>2. CASE Plan(command) = <<>>
    <3>1. status' = "nothing"
      BY <1>2, <2>2 DEF Begin
    <3>2. QED
      BY <2>1, <3>1, StageEarly
  <2>3. CASE Plan(command) # <<>>
    <3>1. ~Nothing(command)
      BY <2>3 DEF Plan
    <3>2. QED
      BY <1>1, <1>2, <2>1, <2>3, <3>1 DEF Begin
  <2>4. QED
    BY <2>2, <2>3
<1>3. CASE Retry
  <2>1. "init" \in Whole' /\ ~Nothing(command)
    BY <1>3 DEF Retry, tree, TypeInv, FailedInv, Whole
  <2>2. QED
    BY <1>1, <1>3, <2>1 DEF Retry
<1>4. CASE Restore
  <2>1. "init" \in Whole' /\ status' = "idle"
    BY <1>4 DEF Restore, Committed, Whole
  <2>2. QED
    BY <2>1, StageEarly
<1>5. CASE Fail
  BY <1>0, <1>5, StageEnd, StageHalfway DEF Fail
<1>6. CASE DoStep /\ Abort
  BY <1>6, StageEnd DEF Abort
<1>7. ASSUME DoStep, Advance, ~Abort PROVE StageInv'
  <2>1. status = "running"
    BY <1>7, DoneOrAborted
  <2> DEFINE h == Head(todo)[1]
  <2>2. PICK m \in Nat :
          /\ m = Len(todo) /\ m >= 1
          /\ h \in {"edit go.mod", "rename", "delete", "strip"} =>
               m >= 12 /\ Head(todo) \in WorkStep(command)
          /\ h = "remove wire_gen" => m = 10
          /\ h = "wire" => m = 8
          /\ h = "build" => m = 5
          /\ h = "remove init" => m = 4
          /\ h = "residual" => m = 3
          /\ h \in {"prereqs", "gofmt", "tidy", "mockery"} => m \in {1, 2, 6, 7, 9, 11}
    BY <1>0, <2>1, Places
  <2>3. /\ Len(todo') = m - 1 /\ status' \in {"running", "complete"}
        /\ status' = "complete" <=> m = 1
    BY <1>0, <1>7, <2>1, <2>2, Advances
  <2>4. UNCHANGED <<template, command, failures>>
    BY <1>7 DEF Advance
  <2>5. m >= 4 => "init" \in Whole
    BY <2>1, <2>2 DEF StageInv
  <2>6. m <= 7 => Compiles /\ wireGen = "fresh"
    BY <2>1, <2>2 DEF StageInv
  <2>6a. m <= 3 => "init" \notin dirs
    BY <2>1, <2>2 DEF StageInv
  <2> HIDE DEF h
  <2>7. ASSUME m >= 9, "init" \in Whole' PROVE StageInv'
    <3>1. m # 1 /\ m - 1 \in Nat /\ m - 1 >= 8
      BY <2>7
    <3>2. status' # "complete" /\ Len(todo') \in Nat /\ Len(todo') >= 8
      BY <2>3, <3>1
    <3>3. QED
      BY <2>7, <3>2, StageEarly
  <2>8. CASE EditGoMod \/ RenameFile \/ Strip
    <3>1. h \in {"edit go.mod", "rename", "delete", "strip"} /\ Whole' = Whole
      BY <1>7, <2>8 DEF EditGoMod, RenameFile, Strip, At, h, Whole
    <3>2. m >= 12
      BY <2>2, <3>1
    <3>3. m >= 9 /\ m >= 4
      BY <3>2
    <3>4. QED
      BY <2>5, <2>7, <3>1, <3>3
  <2>9. CASE DeletePaths
    <3>1. h = "delete" /\ Whole' = Whole \ {StepArg}
      BY <2>9 DEF DeletePaths, RemovePaths, At, h, Whole
    <3>2. m >= 12 /\ Head(todo) \in WorkStep(command)
      BY <2>2, <3>1
    <3>3. StepArg \in Removed(command)
      BY <3>1, <3>2, WorkNames DEF StepArg, h
    <3>4. StepArg # "init"
      BY <1>0, <3>3, RemovedMarked DEF TypeOK
    <3>5. m >= 9 /\ m >= 4
      BY <3>2
    <3>6. QED
      BY <2>5, <2>7, <3>1, <3>4, <3>5
  <2>10. CASE RemoveWireGen
    <3>1. m = 10 /\ Whole' = Whole
      BY <2>2, <2>10 DEF RemoveWireGen, At, h, Whole
    <3>2. m >= 9 /\ m >= 4
      BY <3>1
    <3>3. QED
      BY <2>5, <2>7, <3>1, <3>2
  <2>11. CASE Wire
    <3>1. m = 8 /\ Compiles /\ wireGen' = "fresh" /\ UNCHANGED <<files, imports, goMod, Whole>>
      BY <1>7, <2>2, <2>11 DEF Wire, At, h, Whole
    <3>2. Compiles'
      BY <2>4, <3>1 DEF Compiles
    <3>3. Len(todo') = 7 /\ status' = "running" /\ "init" \in Whole'
      BY <2>3, <2>5, <3>1
    <3>4. ~(7 <= 3) /\ ~(7 <= 2)
      OBVIOUS
    <3>5. QED
      BY <3>1, <3>2, <3>3, <3>4 DEF StageInv
  <2>12. CASE Build
    <3>1. m = 5 /\ UNCHANGED <<files, imports, goMod, Whole, wireGen>>
      BY <1>7, <2>2, <2>12 DEF Build, At, h, tree, Whole
    <3>2. Compiles /\ wireGen = "fresh"
      BY <2>6, <3>1
    <3>3. Compiles'
      BY <2>4, <3>1, <3>2 DEF Compiles
    <3>4. Len(todo') = 4 /\ status' = "running" /\ "init" \in Whole'
      BY <2>3, <2>5, <3>1
    <3>5. ~(4 <= 3) /\ ~(4 <= 2)
      OBVIOUS
    <3>6. QED
      BY <3>1, <3>2, <3>3, <3>4, <3>5 DEF StageInv
  <2>13. CASE RunTool
    <3>1. m \in {1, 2, 6, 7, 9, 11} /\ UNCHANGED <<files, imports, goMod, dirs, Whole, wireGen>>
      <4>1. h \in {"prereqs", "gofmt", "tidy", "mockery"}
        BY <2>13 DEF RunTool, At, h
      <4>2. QED
        BY <2>2, <2>13, <4>1 DEF RunTool, tree, Whole
    <3>2. Compiles => Compiles'
      BY <2>4, <3>1 DEF Compiles
    <3>3. /\ Len(todo') >= 4 => m >= 4
          /\ Len(todo') <= 3 => m <= 3
          /\ Len(todo') <= 7 => m <= 7
          /\ Len(todo') <= 2 => m <= 2
          /\ status' = "complete" => m <= 2
      BY <2>3, <3>1
    <3>4. status' # "idle"
      BY <2>3
    <3>5. /\ m >= 4 => "init" \in Whole'
          /\ m <= 3 => "init" \notin dirs'
          /\ m <= 7 => Compiles' /\ wireGen' = "fresh"
      BY <2>1, <2>2, <2>5, <2>6, <3>1, <3>2 DEF StageInv
    <3>6. "init" \notin Whole' => Compiles' /\ wireGen' = "fresh"
      BY <3>1, <3>2 DEF StageInv
    <3>7. m <= 2 => \A f \in DOMAIN files' : \A i \in files'[f] : ~IsMarker(template'[f][i])
      BY <2>1, <2>2, <2>4, <3>1 DEF StageInv
    <3>8. QED
      BY <3>3, <3>4, <3>5, <3>6, <3>7 DEF StageInv
  <2>14. CASE RemoveInit
    <3>1. /\ m = 4 /\ dirs' = dirs \ {"init"} /\ Whole' = Whole \ {"init"}
          /\ UNCHANGED <<files, imports, goMod, wireGen>>
      BY <2>2, <2>14 DEF RemoveInit, At, h, Whole
    <3>2. Compiles /\ wireGen = "fresh"
      BY <2>6, <3>1
    <3>3. Whole \cap Marked \subseteq Whole'
      BY <1>0, <3>1, RemovedMarked DEF TypeOK
    <3>4. Compiles'
      BY <2>4, <3>1, <3>2, <3>3, CompilesKept
    <3>5. Len(todo') = 3 /\ status' = "running"
      BY <2>3, <3>1
    <3>6. ~(3 >= 4) /\ ~(3 <= 2)
      OBVIOUS
    <3>7. QED
      BY <3>1, <3>2, <3>4, <3>5, <3>6 DEF StageInv
  <2>15. CASE StripResidual
    <3>1. /\ m = 3 /\ UNCHANGED <<imports, goMod, dirs, Whole, wireGen>>
          /\ files' = [f \in DOMAIN files |-> StripMarkers(template[f], files[f])]
      BY <2>2, <2>15 DEF StripResidual, At, h, Whole
    <3>2. /\ DOMAIN files' = DOMAIN files
          /\ \A f \in DOMAIN files :
               files'[f] \subseteq files[f] /\ \A i \in files'[f] : ~IsMarker(template[f][i])
      BY <3>1 DEF StripMarkers
    <3>3. Compiles /\ wireGen = "fresh"
      BY <2>6, <3>1
    <3>4. Compiles'
      BY <2>4, <3>1, <3>2, <3>3, CompilesKept
    <3>5. Len(todo') = 2 /\ status' = "running"
      BY <2>3, <3>1
    <3>6. ~(2 >= 4) /\ "init" \notin dirs'
      <4>1. m = 3
        BY <3>1
      <4>2. m <= 3
        BY <4>1
      <4>3. "init" \notin dirs
        BY <2>6a, <4>2
      <4>4. QED
        BY <3>1, <4>3
    <3>7. QED
      BY <2>4, <3>1, <3>2, <3>3, <3>4, <3>5, <3>6 DEF StageInv
  <2>16. QED
    BY <1>7, <2>8, <2>9, <2>10, <2>11, <2>12, <2>13, <2>14, <2>15 DEF DoStep
<1>8. QED
  BY <1>2, <1>3, <1>4, <1>5, <1>6, <1>7, DoneOrAborted DEF Next

LEMMA StageInduction ==
  /\ Init => StageInv
  /\ TypeInv /\ StageInv /\ [Next]_vars => StageInv'
<1>1. ASSUME Init PROVE StageInv
  BY <1>1 DEF Init, StageInv, Whole
<1>2. ASSUME StageInv, UNCHANGED vars PROVE StageInv'
  BY <1>2 DEF StageInv, Compiles, vars, tree, Whole
<1>3. QED
  BY <1>1, <1>2, StageStep

\* The initialiser is removed only from a tree that has been seen to build, with freshly
\* generated injectors, and what it does after that keeps the tree so; before, it is there
\* to be run again (destruct.go, main.go).
THEOREM ToolSurvivesFailures == Spec => []ToolSurvives
<1>1. StageInv => ToolSurvives
  BY DEF StageInv, ToolSurvives
<1>2. QED
  BY <1>1, TypeInduction, StageInduction, PTL DEF Spec

--------------------------------------------------------------------------------
(* The result.                                                                *)

\* The steps that a command cannot do without.
Required(c) == {s \in WorkStep(c) : Has(Work(c), s)}

LEMMA RequiredSteps ==
  ASSUME NEW c \in Command
  PROVE  /\ \A x \in Removed(c) : StepOn("delete", x, "none") \in Required(c)
         /\ \A x \in Removed(c), f \in File : StepOn("strip", x, f) \in Required(c)
         /\ c.module # "template" =>
              /\ Step("edit go.mod") \in Required(c)
              /\ \A f \in File : StepOn("rename", "none", f) \in Required(c)
<1>1. \A x \in Removed(c) : \A s \in RemovalStep(x) : s \in Required(c)
  BY WorkShape DEF Required, WorkStep
<1>2. c.module # "template" => \A s \in RenamingStep : s \in Required(c)
  BY WorkShape DEF Required, WorkStep
<1>3. QED
  BY <1>1, <1>2 DEF RemovalStep, RenamingStep

\* A new run has all of them before it.
LEMMA AllWaiting ==
  ASSUME command \in Command, ~Nothing(command), todo' = Plan(command), UNCHANGED command,
         NEW s \in Required(command)
  PROVE  Waiting(s)'
<1>1. PICK N \in Nat :
        /\ N = Len(Work(command)) /\ Len(Plan(command)) = N + 11
        /\ \A i \in 1 .. N + 11 :
             Plan(command)[i] = IF i <= N THEN Work(command)[i]
                                ELSE IF i <= N + 7 THEN PostActions[i - N]
                                ELSE SelfDestruct[i - (N + 7)]
  BY PlanShape
<1>2. PICK i \in 1 .. N : Work(command)[i] = s
  BY <1>1 DEF Required, Has
<1>3. i \in 1 .. N + 11 /\ i <= N
  OBVIOUS
<1>4. Plan(command)[i] = s /\ i \in 1 .. Len(Plan(command))
  BY <1>1, <1>2, <1>3
<1>5. QED
  BY <1>4 DEF Waiting

\* A required step is pending until it is done: no run prints its summary before.
LEMMA StillPending ==
  ASSUME TypeInv, Next, NEW s \in Required(command), Restore \/ Pending(s),
         status = "running" /\ Advance => Head(todo) # s
  PROVE  Pending(s)'
<1>0. TypeOK /\ command \in Command /\ s \in WorkStep(command)
  BY DEF TypeInv, TypeOK, Required
<1>1. CASE Begin
  <2>1. CASE Plan(command) = <<>>
    BY <1>1, <2>1 DEF Begin, Pending, Printed
  <2>2. CASE Plan(command) # <<>>
    <3>1. ~Nothing(command)
      BY <2>2 DEF Plan
    <3>2. status' = "running" /\ Waiting(s)'
      BY <1>0, <1>1, <2>2, <3>1, AllWaiting DEF Begin
    <3>3. QED
      BY <3>2 DEF Pending, Printed
  <2>3. QED
    BY <2>1, <2>2
<1>2. CASE Retry
  <2>1. status' = "running" /\ Waiting(s)'
    BY <1>0, <1>2, AllWaiting DEF Retry, TypeInv, FailedInv
  <2>2. QED
    BY <2>1 DEF Pending, Printed
<1>3. CASE Restore
  BY <1>3 DEF Restore, Pending, Printed
<1>4. CASE ~Restore /\ Fail
  <2>1. status = "running" /\ Waiting(s)
    BY <1>4 DEF Fail, Pending
  <2>2. PICK m \in Nat : m = Len(todo)
    BY <1>0, <2>1, Places
  <2>3. ~(Len(todo) <= 11)
    BY <1>0, <2>1, NoWorkLeft
  <2>4. ~(Len(todo) <= Len(SelfDestruct))
    <3>1. Len(SelfDestruct) = 4
      BY DEF SelfDestruct
    <3>2. QED
      BY <2>2, <2>3, <3>1
  <2>5. status' = "failed"
    BY <1>4, <2>4 DEF Fail
  <2>6. QED
    BY <2>5 DEF Pending, Printed
<1>5. CASE ~Restore /\ DoStep /\ Advance
  <2>1. status = "running" /\ Waiting(s) /\ Head(todo) # s
    BY <1>5, DoneOrAborted DEF Pending
  <2>2. Waiting(s)'
    BY <1>0, <1>5, <2>1, Advances
  <2>3. status' \in {"running", "complete"} /\ (status' = "complete" => Len(todo) = 1)
    BY <1>0, <1>5, <2>1, Advances
  <2>4. Len(todo) # 1
    <3>1. Len(todo) = 1 => Len(todo) <= 11
      OBVIOUS
    <3>2. QED
      BY <1>0, <2>1, <3>1, NoWorkLeft
  <2>5. QED
    BY <2>2, <2>3, <2>4 DEF Pending, Printed
<1>6. CASE DoStep /\ Abort
  BY <1>6 DEF Abort, Pending, Printed
<1>7. QED
  BY <1>1, <1>2, <1>3, <1>4, <1>5, <1>6, DoneOrAborted DEF Next

LEMMA CommandFixed == ASSUME Next PROVE UNCHANGED <<template, command>>
<1>1. CASE DoStep
  BY <1>1, DoneOrAborted DEF Advance, Abort
<1>2. QED
  BY <1>1 DEF Next, Begin, Retry, Restore, Fail

LEMMA DirsStep ==
  ASSUME TypeInv, DirsInv, Next
  PROVE  DirsInv'
<1>0. command \in Command /\ TypeOK
  BY DEF TypeInv, TypeOK
<1>1. UNCHANGED command /\ Removed(command') = Removed(command)
  BY CommandFixed
<1>2. Removed(command) \subseteq Marked /\ "init" \notin Marked
  BY <1>0, RemovedMarked
<1>3. ASSUME NEW x \in Removed(command), x \in dirs', Restore \/ x \in dirs,
             status = "running" /\ Advance => Head(todo) # StepOn("delete", x, "none")
      PROVE  Pending(StepOn("delete", x, "none"))'
  <2>1. Restore \/ Pending(StepOn("delete", x, "none"))
    BY <1>3 DEF DirsInv
  <2>2. StepOn("delete", x, "none") \in Required(command)
    BY <1>0, RequiredSteps
  <2>3. QED
    BY <1>3, <2>1, <2>2, StillPending
<1>4. CASE Restore
  <2>1. dirs' = Marked \cup {"init"} /\ Whole' = dirs' /\ status' = "idle"
    BY <1>4 DEF Restore, Committed, Whole
  <2>2. QED
    BY <1>1, <2>1 DEF DirsInv, Pending, Printed
<1>5. CASE DeletePaths
  <2>1. /\ status = "running" /\ Head(todo)[1] = "delete"
        /\ dirs' = dirs \ {Head(todo)[2]} /\ Whole' = Whole \ {Head(todo)[2]}
    BY <1>5 DEF DeletePaths, RemovePaths, At, StepArg, Whole
  <2>2. Head(todo) \in WorkStep(command)
    BY <1>0, <2>1, Places
  <2>3. Head(todo)[2] \in Removed(command)
    BY <2>1, <2>2, WorkNames
  <2>4. Marked \ Removed(command') \subseteq Whole'
    BY <1>1, <2>1, <2>3 DEF DirsInv
  <2>5. \A x : StepOn("delete", x, "none")[2] = x
    BY DEF StepOn
  <2>6. \A x \in Removed(command) \cap dirs' : Pending(StepOn("delete", x, "none"))'
    <3>1. ASSUME NEW x \in Removed(command), x \in dirs'
          PROVE  Pending(StepOn("delete", x, "none"))'
      <4>1. x \in dirs /\ x # Head(todo)[2]
        BY <2>1, <3>1
      <4>2. Head(todo) # StepOn("delete", x, "none")
        BY <2>5, <4>1
      <4>3. QED
        BY <1>3, <3>1, <4>1, <4>2
    <3>2. QED
      BY <3>1
  <2>7. QED
    BY <1>1, <2>4, <2>6 DEF DirsInv
<1>6. CASE ~Restore /\ ~DeletePaths
  <2>1. /\ dirs' \subseteq dirs
        /\ \/ Whole' = Whole
           \/ Whole' = Whole \ {"init"}
           \/ \E x \in Removed(command) : Whole' = Whole \ {x}
    <3>1. CASE DoStep
      BY <1>6, <3>1 DEF DoStep, EditGoMod, RenameFile, Strip, RemoveWireGen, RunTool, Wire, Build,
                        RemoveInit, StripResidual, Abort, tree, Whole
    <3>2. CASE Begin \/ Retry \/ (Fail /\ (UNCHANGED tree \/ StripPartly))
      BY <3>2 DEF Begin, Retry, StripPartly, tree, Whole
    <3>3. CASE Fail /\ DeletePartly
      <4>1. PICK x \in dirs :
              /\ \/ Head(todo)[1] = "delete" /\ x = Head(todo)[2]
                 \/ x = "init"
              /\ partial' = partial \cup {x} /\ dirs' = dirs
        BY <3>3 DEF DeletePartly, At, StepArg
      <4>2. Whole' = Whole \ {x}
        BY <4>1 DEF Whole
      <4>3. CASE Head(todo)[1] = "delete" /\ x = Head(todo)[2]
        <5>1. status = "running"
          BY <3>3 DEF Fail
        <5>2. Head(todo) \in WorkStep(command)
          BY <1>0, <4>3, <5>1, Places
        <5>3. x \in Removed(command)
          BY <4>3, <5>2, WorkNames
        <5>4. QED
          BY <4>1, <4>2, <5>3
      <4>4. QED
        BY <4>1, <4>2, <4>3
    <3>4. QED
      BY <1>6, <3>1, <3>2, <3>3 DEF Next, Fail
  <2>2. ASSUME Advance, status = "running", NEW x PROVE Head(todo) # StepOn("delete", x, "none")
    <3>1. StepOn("delete", x, "none")[1] = "delete"
      BY DEF StepOn
    <3>2. Head(todo)[1] # "delete"
      <4>1. DoStep
        BY <1>6, <2>2 DEF Next, Begin, Retry, Fail, Advance
      <4>2. QED
        BY <1>6, <4>1 DEF DoStep, EditGoMod, RenameFile, Strip, RemoveWireGen, RunTool, Wire,
                          Build, RemoveInit, StripResidual, At
    <3>3. QED
      BY <3>1, <3>2
  <2>3. \A x \in Removed(command) \cap dirs' : Pending(StepOn("delete", x, "none"))'
    BY <1>3, <2>1, <2>2
  <2>4. Marked \ Removed(command') \subseteq Whole'
    BY <1>1, <1>2, <2>1 DEF DirsInv
  <2>5. QED
    BY <1>1, <2>3, <2>4 DEF DirsInv
<1>7. QED
  BY <1>4, <1>5, <1>6

LEMMA NamesStep ==
  ASSUME TypeInv, NamesInv, Next
  PROVE  NamesInv'
<1>0. command \in Command /\ TypeOK /\ TreeType /\ UNCHANGED command
  BY TypeParts, CommandFixed DEF TypeInv, TypeOK
<1> DEFINE module == command.module
           h == Head(todo)
<1>1. ASSUME goMod' = goMod,
             status = "running" /\ Advance => h[1] # "edit go.mod"
      PROVE  /\ goMod' \in {"template", command.module'}
             /\ goMod' # command.module' => Pending(Step("edit go.mod"))'
  <2>1. ASSUME goMod # module PROVE Pending(Step("edit go.mod"))'
    <3>1. Pending(Step("edit go.mod")) /\ module # "template"
      BY <2>1 DEF NamesInv
    <3>2. Step("edit go.mod") \in Required(command)
      BY <1>0, <3>1, RequiredSteps
    <3>3. Step("edit go.mod")[1] = "edit go.mod"
      BY DEF Step
    <3>4. QED
      BY <1>1, <3>1, <3>2, <3>3, StillPending
  <2>2. QED
    BY <1>0, <1>1, <2>1 DEF NamesInv
<1>2. ASSUME NEW f \in DOMAIN files, imports'[f] = imports[f],
             status = "running" /\ Advance => h # StepOn("rename", "none", f)
      PROVE  /\ imports'[f] \in {"template", command.module'}
             /\ imports'[f] # command.module' => Pending(StepOn("rename", "none", f))'
  <2>1. ASSUME imports[f] # module PROVE Pending(StepOn("rename", "none", f))'
    <3>1. Pending(StepOn("rename", "none", f)) /\ module # "template"
      BY <2>1 DEF NamesInv
    <3>2. f \in File
      BY <1>0 DEF TreeType
    <3>3. StepOn("rename", "none", f) \in Required(command)
      BY <1>0, <3>1, <3>2, RequiredSteps
    <3>4. QED
      BY <1>2, <3>1, <3>3, StillPending
  <2>2. QED
    BY <1>0, <1>2, <2>1 DEF NamesInv
<1>3. \A f : StepOn("rename", "none", f)[1] = "rename" /\ StepOn("rename", "none", f)[3] = f
  BY DEF StepOn
<1>4. CASE Restore
  <2>1. /\ goMod' = "template" /\ status' = "idle" /\ imports' = [f \in File |-> "template"]
        /\ files' = [f \in File |-> DOMAIN template[f]]
    BY <1>4 DEF Restore, Committed
  <2>2. QED
    BY <2>1 DEF NamesInv, Pending, Printed
<1>5. CASE EditGoMod
  <2>1. goMod' = module /\ UNCHANGED <<files, imports>> /\ h[1] = "edit go.mod"
    BY <1>5 DEF EditGoMod, At
  <2>2. ASSUME NEW f PROVE h # StepOn("rename", "none", f)
    BY <1>3, <2>1
  <2>3. QED
    BY <1>0, <1>2, <2>1, <2>2 DEF NamesInv
<1>6. CASE RenameFile
  <2>1. /\ UNCHANGED <<files, goMod>> /\ h[1] = "rename" /\ status = "running"
        /\ imports' = [f \in DOMAIN imports |->
             IF f = h[3] /\ imports[f] = "template" THEN module ELSE imports[f]]
    BY <1>6 DEF RenameFile, At, StepFile
  <2>2. ASSUME NEW f \in DOMAIN files
        PROVE  /\ imports'[f] \in {"template", command.module'}
               /\ imports'[f] # command.module' => Pending(StepOn("rename", "none", f))'
    <3>1. f \in DOMAIN imports /\ imports[f] \in {"template", module}
      BY <1>0 DEF TreeType, NamesInv
    <3>2. CASE f = h[3]
      <4>1. imports'[f] = module
        BY <2>1, <3>1, <3>2
      <4>2. QED
        BY <1>0, <4>1
    <3>3. CASE f # h[3]
      <4>1. imports'[f] = imports[f]
        BY <2>1, <3>1, <3>3
      <4>2. h # StepOn("rename", "none", f)
        BY <1>3, <3>3
      <4>3. QED
        BY <1>2, <4>1, <4>2
    <3>4. QED
      BY <3>2, <3>3
  <2>3. h[1] # "edit go.mod"
    BY <2>1
  <2>4. /\ goMod' \in {"template", command.module'}
        /\ goMod' # command.module' => Pending(Step("edit go.mod"))'
    BY <1>1, <2>1, <2>3
  <2>5. QED
    BY <2>1, <2>2, <2>4 DEF NamesInv
<1>7. CASE ~Restore /\ ~EditGoMod /\ ~RenameFile
  <2>1. /\ goMod' = goMod
        /\ \A f \in DOMAIN files' : f \in DOMAIN files /\ imports'[f] = imports[f]
    <3>1. CASE DeletePaths \/ (Fail /\ DeletePartly)
      BY <3>1, DeletionKeeps
    <3>2. CASE Strip
      <4>1. imports' = imports /\ goMod' = goMod /\ DOMAIN files' = DOMAIN files
        BY <3>2 DEF Strip, Abort, tree
      <4>2. QED
        BY <4>1
    <3>3. CASE StripResidual \/ (Fail /\ StripPartly)
      <4>1. imports' = imports /\ goMod' = goMod /\ DOMAIN files' = DOMAIN files
        BY <3>3, PartStripped DEF StripResidual
      <4>2. QED
        BY <4>1
    <3>4. CASE RemoveWireGen \/ RunTool \/ Wire \/ Build \/ RemoveInit
      <4>1. UNCHANGED <<files, imports, goMod>>
        BY <3>4 DEF RemoveWireGen, RunTool, Wire, Build, RemoveInit, Abort, tree
      <4>2. QED
        BY <4>1
    <3>5. CASE Begin \/ Retry \/ (Fail /\ UNCHANGED tree)
      <4>1. UNCHANGED <<files, imports, goMod>>
        BY <3>5 DEF Begin, Retry, tree
      <4>2. QED
        BY <4>1
    <3>6. QED
      BY <1>7, <3>1, <3>2, <3>3, <3>4, <3>5 DEF Next, DoStep, Fail
  <2>2. ASSUME Advance, status = "running" PROVE h[1] # "edit go.mod" /\ h[1] # "rename"
    <3>1. DoStep
      BY <1>7, <2>2 DEF Next, Begin, Retry, Fail, Advance
    <3>2. QED
      BY <1>7, <3>1 DEF DoStep, DeletePaths, Strip, RemoveWireGen, RunTool, Wire, Build,
                        RemoveInit, StripResidual, At
  <2>3. \A f : status = "running" /\ Advance => h # StepOn("rename", "none", f)
    BY <1>3, <2>2
  <2>4. /\ goMod' \in {"template", command.module'}
        /\ goMod' # command.module' => Pending(Step("edit go.mod"))'
    BY <1>1, <2>1, <2>2
  <2>5. \A f \in DOMAIN files' :
          /\ imports'[f] \in {"template", command.module'}
          /\ imports'[f] # command.module' => Pending(StepOn("rename", "none", f))'
    BY <1>2, <2>1, <2>3
  <2>6. QED
    BY <2>4, <2>5 DEF NamesInv
<1>8. QED
  BY <1>4, <1>5, <1>6, <1>7

TemplateInv == \E t \in Trees : template = t.lines

LEMMA TemplateShape ==
  ASSUME TemplateInv, NEW f \in File
  PROVE  /\ template[f] \in Seq(Lines)
         /\ DOMAIN template[f] = 1 .. Len(template[f])
<1>1. PICK t \in Trees : template = t.lines
  BY DEF TemplateInv
<1>2. t.lines \in [File -> Seq(Lines)]
  BY InitAssumption DEF Lines
<1>3. template[f] \in Seq(Lines)
  BY <1>1, <1>2
<1>4. QED
  BY <1>3, LenProperties

\* What D took remains taken as long as the lines and the plan for the others are the same.
LEMMA FileKept ==
  ASSUME TypeInv, Next, NEW f \in DOMAIN files, f \in File, FileInv(f), f \in DOMAIN files',
         \A i \in DOMAIN template[f] :
           template[f][i].kind = "text" => (i \in files'[f] <=> i \in files[f]),
         "init" \in dirs' => "init" \in dirs /\ files'[f] = files[f],
         \A x : status = "running" /\ Advance => Head(todo) # StepOn("strip", x, f)
  PROVE  FileInv(f)'
<1>0. command \in Command /\ UNCHANGED <<template, command>> /\ Removed(command') = Removed(command)
  BY CommandFixed DEF TypeInv, TypeOK
<1>1. PICK D \in SUBSET Removed(command) :
        /\ TextLess(template[f], files[f], D)
        /\ "init" \in dirs => Less(template[f], files[f], D)
        /\ \A x \in Removed(command) \ D : Pending(StepOn("strip", x, f))
  BY DEF FileInv
<1>2. TextLess(template'[f], files'[f], D)
  BY <1>0, <1>1 DEF TextLess
<1>3. "init" \in dirs' => Less(template'[f], files'[f], D)
  BY <1>0, <1>1
<1>4. ASSUME NEW x \in Removed(command) \ D PROVE Pending(StepOn("strip", x, f))'
  <2>1. StepOn("strip", x, f) \in Required(command)
    BY <1>0, RequiredSteps
  <2>2. QED
    BY <1>1, <2>1, StillPending
<1>5. QED
  BY <1>0, <1>2, <1>3, <1>4 DEF FileInv

LEMMA FilesStep ==
  ASSUME Nested, TypeInv, StageInv, TemplateInv, FilesInv, Next
  PROVE  FilesInv'
<1>0. /\ command \in Command /\ TypeOK /\ TreeType /\ UNCHANGED <<template, command>>
      /\ Removed(command') = Removed(command)
  BY TypeParts, CommandFixed DEF TypeInv, TypeOK
<1> DEFINE h == Head(todo)
<1>1. ASSUME UNCHANGED files, "init" \in dirs' => "init" \in dirs,
             status = "running" /\ Advance => h[1] # "strip"
      PROVE  FilesInv'
  <2>1. \A x, f : status = "running" /\ Advance => h # StepOn("strip", x, f)
    <3>1. \A x, f : StepOn("strip", x, f)[1] = "strip"
      BY DEF StepOn
    <3>2. QED
      BY <1>1, <3>1
  <2>2. ASSUME NEW f \in DOMAIN files PROVE FileInv(f)'
    <3>1. f \in File /\ FileInv(f) /\ f \in DOMAIN files' /\ files'[f] = files[f]
      BY <1>0, <1>1 DEF FilesInv, TreeType
    <3>2. QED
      BY <1>1, <2>1, <3>1, FileKept
  <2>3. QED
    BY <1>1, <2>2 DEF FilesInv
<1>2. CASE Restore
  <2>1. files' = [f \in File |-> DOMAIN template[f]] /\ status' = "idle"
    BY <1>2 DEF Restore, Committed
  <2>2. ASSUME NEW f \in File PROVE FileInv(f)'
    <3>1. files'[f] = DOMAIN template'[f]
      BY <1>0, <2>1
    <3>2. TextLess(template'[f], files'[f], {}) /\ Less(template'[f], files'[f], {})
      BY <3>1 DEF TextLess, Less
    <3>3. \A s : Pending(s)'
      BY <2>1 DEF Pending, Printed
    <3>4. QED
      BY <3>2, <3>3 DEF FileInv
  <2>3. QED
    BY <2>1, <2>2 DEF FilesInv
<1>3. CASE Begin \/ Retry \/ (Fail /\ UNCHANGED tree)
  <2>1. UNCHANGED <<files, dirs>>
    BY <1>3 DEF Begin, Retry, tree
  <2>2. ~(status = "running" /\ Advance)
    BY <1>3 DEF Begin, Retry, Fail, Advance
  <2>3. QED
    BY <1>1, <2>1, <2>2
<1>4. CASE EditGoMod \/ RenameFile \/ RemoveWireGen \/ RunTool \/ Wire \/ Build \/ RemoveInit
  <2>1. UNCHANGED files /\ dirs' \subseteq dirs /\ h[1] # "strip"
    BY <1>4 DEF EditGoMod, RenameFile, RemoveWireGen, RunTool, Wire, Build, RemoveInit, Abort,
                tree, At
  <2>2. QED
    BY <1>1, <2>1
<1>5. CASE DeletePaths \/ (Fail /\ DeletePartly)
  <2>1. /\ dirs' \subseteq dirs /\ DOMAIN files' \subseteq DOMAIN files
        /\ \A f \in DOMAIN files' : files'[f] = files[f]
    BY <1>5, DeletionKeeps DEF DeletePaths, DeletePartly, RemovePaths
  <2>2. status = "running" /\ Advance => h[1] # "strip"
    BY <1>5 DEF DeletePaths, Fail, Advance, At
  <2>3. \A x, f : status = "running" /\ Advance => h # StepOn("strip", x, f)
    <3>1. \A x, f : StepOn("strip", x, f)[1] = "strip"
      BY DEF StepOn
    <3>2. QED
      BY <2>2, <3>1
  <2>4. ASSUME NEW f \in DOMAIN files' PROVE FileInv(f)'
    <3>1. f \in DOMAIN files /\ files'[f] = files[f]
      BY <2>1
    <3>2. f \in File /\ FileInv(f)
      BY <1>0, <3>1 DEF FilesInv, TreeType
    <3>3. "init" \in dirs' => "init" \in dirs
      BY <2>1
    <3>4. QED
      BY <2>3, <3>1, <3>2, <3>3, FileKept
  <2>5. QED
    BY <2>4 DEF FilesInv
<1>6. CASE StripResidual \/ (Fail /\ StripPartly)
  <2>1. /\ DOMAIN files' = DOMAIN files /\ UNCHANGED dirs
        /\ \A f \in DOMAIN files :
             files'[f] = files[f] \/ files'[f] = StripMarkers(template[f], files[f])
    BY <1>6, PartStripped DEF StripResidual
  <2>1a. h[1] = "residual" /\ status = "running"
    BY <1>6 DEF StripResidual, StripPartly, At
  <2>2. "init" \notin dirs'
    <3>1. PICK m \in Nat : m = Len(todo) /\ (h[1] = "residual" => m = 3)
      BY <1>0, <2>1a, Places
    <3>2. m <= 3
      BY <2>1a, <3>1
    <3>3. QED
      BY <2>1, <2>1a, <3>1, <3>2 DEF StageInv
  <2>3. \A x, f : h # StepOn("strip", x, f)
    <3>1. \A x, f : StepOn("strip", x, f)[1] = "strip"
      BY DEF StepOn
    <3>2. QED
      BY <2>1a, <3>1
  <2>4. ASSUME NEW f \in DOMAIN files PROVE FileInv(f)'
    <3>1. f \in File /\ FileInv(f) /\ f \in DOMAIN files'
      BY <1>0, <2>1 DEF FilesInv, TreeType
    <3>2. \A i \in DOMAIN template[f] :
            template[f][i].kind = "text" => (i \in files'[f] <=> i \in files[f])
      BY <2>1 DEF StripMarkers, IsMarker
    <3>3. QED
      BY <2>2, <2>3, <3>1, <3>2, FileKept
  <2>5. QED
    BY <2>1, <2>4 DEF FilesInv
<1>7. CASE Strip /\ ~Abort
  <2>1. /\ files' = [f \in DOMAIN files |->
                      IF f = StepFile THEN StripFeature(template[f], files[f], StepArg)
                      ELSE files[f]]
        /\ UNCHANGED dirs /\ h[1] = "strip" /\ status = "running" /\ Advance
    BY <1>7 DEF Strip, At
  <2>2. "init" \in dirs /\ h \in WorkStep(command)
    <3>1. PICK m \in Nat :
            m = Len(todo) /\ (h[1] \in {"edit go.mod", "rename", "delete", "strip"} =>
                                m >= 12 /\ h \in WorkStep(command))
      BY <1>0, <2>1, Places
    <3>2. m >= 12 /\ h \in WorkStep(command)
      BY <2>1, <3>1
    <3>3. m >= 4
      BY <3>2
    <3>4. QED
      BY <2>1, <3>1, <3>2, <3>3 DEF StageInv, Whole
  <2>3. StepArg \in Removed(command) /\ StepFile \in File
    BY <2>1, <2>2, WorkNames DEF StepArg, StepFile
  <2>4. \A x, f : StepOn("strip", x, f)[2] = x /\ StepOn("strip", x, f)[3] = f
    BY DEF StepOn
  <2>5. ASSUME NEW f \in DOMAIN files, f # StepFile PROVE FileInv(f)'
    <3>1. f \in File /\ FileInv(f) /\ f \in DOMAIN files' /\ files'[f] = files[f]
      BY <1>0, <2>1, <2>5 DEF FilesInv, TreeType
    <3>2. \A x : h # StepOn("strip", x, f)
      BY <2>4, <2>5 DEF StepFile
    <3>3. QED
      BY <2>1, <3>1, <3>2, FileKept
  <2>6. ASSUME NEW f \in DOMAIN files, NEW x, f = StepFile, x = StepArg PROVE FileInv(f)'
    <3>1. f \in File /\ FileInv(f) /\ files'[f] = StripFeature(template[f], files[f], x)
      BY <1>0, <2>1, <2>3, <2>6 DEF FilesInv
    <3>2. PICK D \in SUBSET Removed(command) :
            /\ Less(template[f], files[f], D)
            /\ \A y \in Removed(command) \ D : Pending(StepOn("strip", y, f))
      BY <2>2, <3>1 DEF FileInv
    <3>3. /\ template[f] \in Seq(Lines) /\ WellNested(template[f], Removed(command))
          /\ DOMAIN template[f] = 1 .. Len(template[f])
      BY <3>1, TemplateShape DEF Nested
    <3>4. files[f] \in SUBSET (1 .. Len(template[f]))
      BY <1>0, <2>6, <3>3 DEF TreeType
    <3>5. x \in Removed(command)
      BY <2>3, <2>6
    <3>6. Less(template'[f], files'[f], D \cup {x})
      BY <1>0, <3>1, <3>2, <3>3, <3>4, <3>5, StripLess
    <3>7. TextLess(template'[f], files'[f], D \cup {x})
      BY <3>6 DEF Less, TextLess, IsBlank
    <3>8. ASSUME NEW y \in Removed(command) \ (D \cup {x}) PROVE Pending(StepOn("strip", y, f))'
      <4>1. StepOn("strip", y, f) \in Required(command)
        BY <1>0, <3>1, RequiredSteps
      <4>2. Pending(StepOn("strip", y, f))
        BY <3>2, <3>8
      <4>3. h # StepOn("strip", y, f)
        BY <2>4, <2>6, <3>8 DEF StepArg
      <4>4. QED
        BY <4>1, <4>2, <4>3, StillPending
    <3>9. D \cup {x} \in SUBSET Removed(command')
      BY <1>0, <2>3, <2>6
    <3>10. QED
      BY <1>0, <3>6, <3>7, <3>8, <3>9 DEF FileInv
  <2>7. QED
    BY <2>1, <2>5, <2>6 DEF FilesInv
<1>8. CASE DoStep /\ Abort
  <2>1. UNCHANGED <<files, dirs>> /\ status' = "failed"
    BY <1>8 DEF Abort, tree
  <2>2. ~Advance
    BY <2>1 DEF Advance
  <2>3. QED
    BY <1>1, <2>1, <2>2
<1>9. QED
  BY <1>2, <1>3, <1>4, <1>5, <1>6, <1>7, <1>8 DEF Next, DoStep, Fail

ResultInv == TemplateInv /\ DirsInv /\ NamesInv /\ (Nested => FilesInv)

LEMMA ResultInduction ==
  /\ Init => ResultInv
  /\ TypeInv /\ StageInv /\ ResultInv /\ [Next]_vars => ResultInv'
<1>1. ASSUME Init PROVE ResultInv
  <2>1. /\ status = "idle" /\ dirs = Marked \cup {"init"} /\ Whole = dirs /\ goMod = "template"
        /\ files = [f \in File |-> DOMAIN template[f]] /\ imports = [f \in File |-> "template"]
    BY <1>1 DEF Init, Whole
  <2>2. \A s : Pending(s)
    BY <2>1 DEF Pending, Printed
  <2>3. TemplateInv
    BY <1>1 DEF Init, TemplateInv
  <2>4. DirsInv
    BY <2>1, <2>2 DEF DirsInv
  <2>5. NamesInv
    BY <2>1, <2>2 DEF NamesInv
  <2>6. ASSUME NEW f \in File PROVE FileInv(f)
    <3>1. TextLess(template[f], files[f], {}) /\ Less(template[f], files[f], {})
      BY <2>1 DEF TextLess, Less
    <3>2. QED
      BY <2>2, <3>1 DEF FileInv
  <2>7. FilesInv
    BY <2>1, <2>6 DEF FilesInv
  <2>8. QED
    BY <2>3, <2>4, <2>5, <2>7 DEF ResultInv
<1>2. ASSUME TypeInv, StageInv, ResultInv, Next PROVE ResultInv'
  <2>1. TemplateInv'
    BY <1>2, CommandFixed DEF ResultInv, TemplateInv
  <2>2. DirsInv' /\ NamesInv'
    BY <1>2, DirsStep, NamesStep DEF ResultInv
  <2>3. Nested' => Nested
    BY <1>2, CommandFixed DEF Nested
  <2>4. Nested => FilesInv'
    BY <1>2, FilesStep DEF ResultInv
  <2>5. QED
    BY <2>1, <2>2, <2>3, <2>4 DEF ResultInv
<1>3. ASSUME ResultInv, UNCHANGED vars PROVE ResultInv'
  <2>1. UNCHANGED <<template, files, imports, goMod, dirs, Whole, command, todo, status>>
    BY <1>3 DEF vars, tree, Whole
  <2>2. \A s : Pending(s) => Pending(s)'
    BY <2>1 DEF Pending, Printed, Waiting
  <2>3. TemplateInv'
    BY <1>3, <2>1 DEF ResultInv, TemplateInv
  <2>4. DirsInv'
    BY <1>3, <2>1, <2>2 DEF ResultInv, DirsInv
  <2>5. NamesInv'
    BY <1>3, <2>1, <2>2 DEF ResultInv, NamesInv
  <2>6. ASSUME FilesInv, NEW f \in DOMAIN files PROVE FileInv(f)'
    <3>1. FileInv(f)
      BY <2>6 DEF FilesInv
    <3>2. QED
      BY <2>1, <2>2, <3>1 DEF FileInv
  <2>7. Nested' => FilesInv'
    <3>1. Nested' => Nested
      BY <2>1 DEF Nested
    <3>2. QED
      BY <1>3, <2>1, <2>6, <3>1 DEF ResultInv, FilesInv
  <2>8. QED
    BY <2>3, <2>4, <2>5, <2>7 DEF ResultInv
<1>4. QED
  BY <1>1, <1>2, <1>3

\* What is left of a file is what the reference says when nothing is pending.
LEMMA ExactText ==
  ASSUME Nested, TypeOK, TemplateInv, FilesInv, NEW f \in DOMAIN files,
         \A s \in Required(command) : ~Pending(s)
  PROVE  Texts(template[f], files[f]) = Remaining(template[f], Removed(command))
<1>1. f \in File /\ command \in Command /\ files[f] \subseteq DOMAIN template[f]
  BY DEF TypeOK
<1>2. template[f] \in Seq(Lines) /\ WellNested(template[f], Removed(command))
  BY <1>1, TemplateShape DEF Nested
<1>3. TextLess(template[f], files[f], Removed(command))
  <2>1. PICK D \in SUBSET Removed(command) :
          /\ TextLess(template[f], files[f], D)
          /\ \A x \in Removed(command) \ D : Pending(StepOn("strip", x, f))
    BY DEF FilesInv, FileInv
  <2>2. D = Removed(command)
    BY <1>1, <2>1, RequiredSteps
  <2>3. QED
    BY <2>1, <2>2
<1>4. ASSUME NEW i \in DOMAIN template[f], template[f][i].kind = "text"
      PROVE  i \in files[f] <=> \A x \in Removed(command) : ~Inside(template[f], i, x)
  <2>1. i \in files[f] <=> \A x \in Removed(command) : ~Covered(template[f], i, x)
    BY <1>3, <1>4 DEF TextLess
  <2>2. \A x \in Removed(command) : Inside(template[f], i, x) <=> Covered(template[f], i, x)
    BY <1>2, <1>4, InsideExact
  <2>3. QED
    BY <2>1, <2>2
<1>5. QED
  BY <1>1, <1>4 DEF Texts, Remaining

LEMMA ResultFollows ==
  ASSUME Nested, TypeOK, StageInv, ResultInv
  PROVE  ResultExact
<1>1. SUFFICES ASSUME Printed
               PROVE  /\ dirs \cap Marked = Marked \ Removed(command)
                      /\ partial \cap Marked = {}
                      /\ \A f \in DOMAIN files :
                           /\ Texts(template[f], files[f]) =
                                Remaining(template[f], Removed(command))
                           /\ imports[f] = command.module
                           /\ status = "complete" =>
                                \A i \in files[f] : ~IsMarker(template[f][i])
                      /\ goMod = command.module
  BY DEF ResultExact, Printed
<1>2. \A s : ~Pending(s)
  BY <1>1 DEF Pending
<1>3. dirs \cap Marked = Marked \ Removed(command) /\ partial \cap Marked = {}
  BY <1>2 DEF ResultInv, DirsInv, TypeOK, Whole
<1>4. goMod = command.module /\ \A f \in DOMAIN files : imports[f] = command.module
  BY <1>2 DEF ResultInv, NamesInv
<1>5. \A f \in DOMAIN files :
        Texts(template[f], files[f]) = Remaining(template[f], Removed(command))
  BY <1>2, ExactText DEF ResultInv
<1>6. status = "complete" => \A f \in DOMAIN files : \A i \in files[f] : ~IsMarker(template[f][i])
  BY DEF StageInv
<1>7. QED
  BY <1>3, <1>4, <1>5, <1>6

\* When the summary is printed, after however many failed attempts, the tree is the
\* template less exactly what was removed: for files of any length in which the blocks of
\* what is removed are closed and nested, any number of features and any order of steps,
\* failures, retries and restorations (main.go, stripper.go, deleter.go, rename.go).
THEOREM ResultIsExact == Spec => [](Nested => ResultExact)
<1>1. TypeInv /\ StageInv /\ ResultInv => (Nested => ResultExact)
  BY ResultFollows DEF TypeInv
<1>2. QED
  BY <1>1, TypeInduction, StageInduction, ResultInduction, PTL DEF Spec

\* Before the injectors are generated all the work is done, and the tree compiles.
LEMMA WorkDone ==
  ASSUME Nested, TypeOK, ResultInv, status = "running", Len(todo) <= 11
  PROVE  Compiles
<1>1. command \in Command /\ \A s \in WorkStep(command) : ~Pending(s)
  BY NoWorkLeft DEF TypeOK, Pending
<1>2. \A s \in Required(command) : ~Pending(s)
  BY <1>1 DEF Required
<1>3. /\ \A x \in Removed(command) : ~Pending(StepOn("delete", x, "none"))
      /\ command.module # "template" =>
           /\ ~Pending(Step("edit go.mod"))
           /\ \A f \in File : ~Pending(StepOn("rename", "none", f))
  BY <1>1, <1>2, RequiredSteps
<1>4. DOMAIN files \subseteq File
  BY DEF TypeOK
<1>5. goMod = command.module /\ \A f \in DOMAIN files : imports[f] = command.module
  BY <1>3, <1>4 DEF ResultInv, NamesInv
<1>6. ASSUME NEW f \in DOMAIN files, NEW i \in Texts(template[f], files[f]), NEW x \in Marked,
             Inside(template[f], i, x)
      PROVE  x \in Whole
  <2>1. Texts(template[f], files[f]) = Remaining(template[f], Removed(command))
    BY <1>2, ExactText DEF ResultInv
  <2>2. x \notin Removed(command)
    BY <1>6, <2>1 DEF Remaining
  <2>3. QED
    BY <2>2 DEF ResultInv, DirsInv
<1>7. QED
  BY <1>5, <1>6 DEF Compiles

\* No pass of the stripper is refused.
LEMMA StripGoes ==
  ASSUME Nested, TypeOK, StageInv, ResultInv, At("strip")
  PROVE  Strippable(StepFile, StepArg)
<1>1. status = "running" /\ Head(todo)[1] = "strip"
  BY DEF At
<1>2. PICK m \in Nat : m = Len(todo) /\ m >= 12 /\ Head(todo) \in WorkStep(command)
  BY <1>1, Places
<1>3. "init" \in dirs
  <2>1. m >= 4
    BY <1>2
  <2>2. QED
    BY <1>1, <1>2, <2>1 DEF StageInv, Whole
<1>4. StepArg \in Removed(command)
  BY <1>1, <1>2, WorkNames DEF StepArg
<1>5. SUFFICES ASSUME NEW f \in DOMAIN files, NEW x \in Removed(command)
               PROVE  ~Unclosed(template[f], files[f], x)
  BY <1>4 DEF Strippable
<1>6. f \in File /\ files[f] \subseteq DOMAIN template[f]
  BY DEF TypeOK
<1>7. /\ template[f] \in Seq(Lines) /\ WellNested(template[f], Removed(command))
      /\ DOMAIN template[f] = 1 .. Len(template[f])
  BY <1>6, TemplateShape DEF Nested, ResultInv
<1>8. PICK D \in SUBSET Removed(command) : Less(template[f], files[f], D)
  BY <1>3 DEF ResultInv, FilesInv, FileInv
<1>9. QED
  BY <1>6, <1>7, <1>8, ScanCloses

LEMMA StepSucceeds ==
  ASSUME Nested, TypeOK, StageInv, ResultInv, DoStep
  PROVE  Advance
<1>1. status = "running"
  BY DoneOrAborted
<1>2. CASE Strip
  BY <1>2, StripGoes DEF Strip
<1>3. CASE Wire
  <2>1. Head(todo)[1] = "wire"
    BY <1>3 DEF Wire, At
  <2>2. PICK m \in Nat : m = Len(todo) /\ m = 8
    BY <1>1, <2>1, Places
  <2>3. m <= 11
    BY <2>2
  <2>4. Compiles
    BY <1>1, <2>2, <2>3, WorkDone
  <2>5. QED
    BY <1>3, <2>4 DEF Wire
<1>4. CASE Build
  <2>1. Head(todo)[1] = "build"
    BY <1>4 DEF Build, At
  <2>2. PICK m \in Nat : m = Len(todo) /\ m = 5
    BY <1>1, <2>1, Places
  <2>3. m <= 7
    BY <2>2
  <2>4. Compiles /\ wireGen = "fresh"
    BY <1>1, <2>2, <2>3 DEF StageInv
  <2>5. QED
    BY <1>4, <2>4 DEF Build
<1>5. CASE EditGoMod \/ RenameFile \/ DeletePaths \/ RemoveWireGen
  BY <1>5 DEF EditGoMod, RenameFile, DeletePaths, RemoveWireGen
<1>6. CASE RunTool \/ RemoveInit \/ StripResidual
  BY <1>6 DEF RunTool, RemoveInit, StripResidual
<1>7. QED
  BY <1>2, <1>3, <1>4, <1>5, <1>6 DEF DoStep

\* No step fails on what earlier attempts have left of the tree: what the stripper, the
\* generator and the compiler meet is always good, and only a fault from outside ends a run
\* early (stripper.go, deleter.go, actions.go).
THEOREM StepsNeverFail == Spec => StepsSucceed
<1>1. TypeInv /\ StageInv /\ ResultInv /\ [Next]_vars =>
        [DoStep /\ status' = "failed" => ~Nested]_vars
  <2>1. ASSUME TypeInv, StageInv, ResultInv, Nested, DoStep PROVE status' # "failed"
    <3>1. TypeOK
      BY <2>1 DEF TypeInv
    <3>2. Advance
      BY <2>1, <3>1, StepSucceeds
    <3>3. QED
      BY <3>2 DEF Advance
  <2>2. QED
    BY <2>1
<1>2. QED
  BY <1>1, TypeInduction, StageInduction, ResultInduction, PTL DEF Spec, StepsSucceed
================================================================================
