--------------------------- MODULE DeliveryProofs ---------------------------
(***************************************************************************)
(* Proofs about the shell merges, the CSV conversion and the two beside    *)
(* each other, for any number of files, rows, CSV lines and runs, any      *)
(* folders and any shape of the CSVs.                                      *)
(***************************************************************************)
EXTENDS Delivery, FiniteSetTheorems, TLAPS


\* A prefix of a file holds only rows of that file, written by that run.
LEMMA PrefixRows ==
    ASSUME NEW r, NEW f, NEW k
    PROVE  /\ Prefix(r, f, k) \in SUBSET Row
           /\ \A row \in Prefix(r, f, k) : row.run = r /\ row.file = f
  BY DEF Prefix

\* A first part of a file is never the whole file: its last row is missing.
LEMMA PrefixNotWhole ==
    ASSUME NEW r \in Run, NEW f \in File, NEW k \in 0..RowsPerFile - 1
    PROVE  ~(Whole(r, f) \subseteq Prefix(r, f, k))
<1> DEFINE last == [run |-> r, file |-> f, pos |-> RowsPerFile]
<1>1. last \in Whole(r, f)
  BY OgrAssumption DEF Whole, Prefix, Row
<1>2. last \notin Prefix(r, f, k)
  BY OgrAssumption DEF Prefix
<1> QED BY <1>1, <1>2

\* The whole of a file has rows.
LEMMA WholeNotEmpty ==
    ASSUME NEW r \in Run, NEW f \in File
    PROVE  \E row \in Whole(r, f) : row.run = r /\ row.file = f
<1> DEFINE last == [run |-> r, file |-> f, pos |-> RowsPerFile]
<1>1. last \in Whole(r, f) /\ last.run = r /\ last.file = f
  BY OgrAssumption DEF Whole, Prefix, Row
<1> QED BY <1>1

\* A dataset with rows is a dataset.
LEMMA HoldingIsDataset ==
    ASSUME NEW S \in SUBSET Row
    PROVE  Holding(S) \in Dataset /\ Holding(S).there = TRUE /\ Holding(S).rows = S
  BY DEF Holding, Dataset

\* A successful append loses nothing and gains exactly the appended file.
LEMMA AppendedRows ==
    ASSUME NEW r, NEW f, NEW d \in Dataset
    PROVE  /\ Appended(r, f, d) \in Dataset
           /\ Appended(r, f, d).there
           /\ Appended(r, f, d).rows = d.rows \union Whole(r, f)
<1>1. d.rows \in SUBSET Row
  BY DEF Dataset
<1>2. d.rows \union Whole(r, f) \in SUBSET Row
  BY <1>1, PrefixRows DEF Whole
<1> QED BY <1>2, HoldingIsDataset DEF Appended

\* A failed append loses nothing and gains only a first part of the file.
LEMMA AppendFails ==
    ASSUME NEW r, NEW f, NEW d \in Dataset, NEW e \in AppendFailures(r, f, d)
    PROVE  /\ e \in Dataset
           /\ d.there => e.there
           /\ \/ e = d
              \/ \E k \in 0..RowsPerFile - 1 : e.rows = d.rows \union Prefix(r, f, k)
           /\ d.rows \subseteq e.rows
           /\ \A row \in e.rows : row \in d.rows \/ (row.run = r /\ row.file = f)
<1>1. d.rows \in SUBSET Row
  BY DEF Dataset
<1>2. CASE e = d
  BY <1>2
<1>3. ASSUME NEW k \in 0..RowsPerFile - 1, e = Holding(d.rows \union Prefix(r, f, k))
      PROVE  /\ e \in Dataset
             /\ e.there
             /\ e.rows = d.rows \union Prefix(r, f, k)
             /\ \A row \in e.rows : row \in d.rows \/ (row.run = r /\ row.file = f)
  <2>1. d.rows \union Prefix(r, f, k) \in SUBSET Row
    BY <1>1, PrefixRows
  <2>2. e \in Dataset /\ e.there = TRUE /\ e.rows = d.rows \union Prefix(r, f, k)
    BY <1>3, <2>1, HoldingIsDataset
  <2> QED BY <2>2, PrefixRows
<1> QED BY <1>2, <1>3 DEF AppendFailures

\* A successful create leaves exactly the file.
LEMMA CreatedRows ==
    ASSUME NEW r, NEW f
    PROVE  Created(r, f) \in Dataset /\ Created(r, f).there /\ Created(r, f).rows = Whole(r, f)
  BY PrefixRows, HoldingIsDataset DEF Created, Whole

\* A failed create leaves the old dataset, or some rows of this file and run
\* that are not the whole file (an absent dataset has none).
LEMMA CreateFails ==
    ASSUME NEW r \in Run, NEW f \in File, NEW d \in Dataset, NEW e \in CreateFailures(r, f, d)
    PROVE  /\ e \in Dataset
           /\ \/ e = d
              \/ /\ \A row \in e.rows : row.run = r /\ row.file = f
                 /\ ~(Whole(r, f) \subseteq e.rows)
<1>1. CASE e = d
  BY <1>1
<1>2. CASE e = Absent
  <2>1. Absent \in Dataset /\ Absent.rows = {}
    BY DEF Absent, Dataset
  <2> QED BY <1>2, <2>1, WholeNotEmpty
<1>3. ASSUME NEW k \in 0..RowsPerFile - 1, e = Holding(Prefix(r, f, k))
      PROVE  /\ e \in Dataset
             /\ \A row \in e.rows : row.run = r /\ row.file = f
             /\ ~(Whole(r, f) \subseteq e.rows)
  <2>1. e \in Dataset /\ e.rows = Prefix(r, f, k)
    BY <1>3, PrefixRows, HoldingIsDataset
  <2> QED BY <2>1, PrefixRows, PrefixNotWhole
<1> QED BY <1>1, <1>2, <1>3 DEF CreateFailures

-----------------------------------------------------------------------------
\* The invariant holds initially.
LEMMA InitInv == Init => MergeInv
  BY OgrAssumption DEF Init, MergeInv, TypeOK, NotRunning, Absent, Dataset

\* Every step preserves the invariant.
LEMMA StepInv == MergeInv /\ [Next]_vars => MergeInv'
<1> SUFFICES ASSUME MergeInv, [Next]_vars PROVE MergeInv'
  OBVIOUS
<1> USE OgrAssumption
<1>1. CASE StartRun
  <2>1. run' \in Run /\ \A row \in out.rows : row.run # run'
    BY <1>1 DEF StartRun, MergeInv, TypeOK, Run, Dataset, Row
  <2>2. \A f \in File : ~(Whole(run', f) \subseteq out.rows)
    BY <2>1, WholeNotEmpty
  <2> QED BY <1>1, <2>1, <2>2 DEF StartRun, MergeInv, TypeOK, NotRunning, Run, Dataset, Row
<1>2. ASSUME NEW f \in File, CreateFirst(f) PROVE MergeInv'
  <2>1. run \in Run /\ out \in Dataset /\ merged = {}
    BY <1>2 DEF CreateFirst, MergeInv, TypeOK
  <2>2. \A row \in Whole(run, f) : row.run = run /\ row.file = f
    BY PrefixRows DEF Whole
  <2>3. CASE out' = Created(run, f) /\ first' = FALSE /\ merged' = merged \union {f}
    <3>1. out' \in Dataset /\ out'.there /\ out'.rows = Whole(run, f)
      BY <2>3, CreatedRows
    <3>2. \A row \in out'.rows : row.run = run /\ row.run <= run
      BY <2>1, <2>2, <3>1 DEF Run
    <3> QED BY <1>2, <2>1, <2>2, <2>3, <3>1, <3>2 DEF CreateFirst, MergeInv, TypeOK, NotRunning
  <2>4. CASE out' \in CreateFailures(run, f, out) /\ first' = first /\ merged' = merged
    <3>1. /\ out' \in Dataset
          /\ \/ out' = out
             \/ /\ \A row \in out'.rows : row.run = run /\ row.file = f
                /\ ~(Whole(run, f) \subseteq out'.rows)
      BY <2>1, <2>4, CreateFails
    <3>2. \A row \in out'.rows : row.run <= run
      BY <2>1, <3>1 DEF MergeInv, Run
    <3>3. \A g \in File : ~(Whole(run, g) \subseteq out'.rows)
      BY <1>2, <2>1, <3>1, WholeNotEmpty DEF MergeInv, CreateFirst
    <3> QED BY <1>2, <2>1, <2>4, <3>1, <3>2, <3>3 DEF CreateFirst, MergeInv, TypeOK, NotRunning
  <2> QED BY <1>2, <2>3, <2>4 DEF CreateFirst, FirstAfterFailure, MergedAfterFailure
<1>3. ASSUME NEW f \in File, AppendNext(f) PROVE MergeInv'
  <2>1. run \in Run /\ out \in Dataset /\ out.there
    BY <1>3 DEF AppendNext, MergeInv, TypeOK
  <2>2. /\ out' \in Dataset /\ out'.there /\ out.rows \subseteq out'.rows
        /\ \A row \in out'.rows : row \in out.rows \/ (row.run = run /\ row.file = f)
        /\ \/ merged' = merged \union {f} /\ Whole(run, f) \subseteq out'.rows
           \/ merged' = merged
    <3>1. CASE out' = Appended(run, f, out) /\ merged' = merged \union {f}
      <4>1. out' \in Dataset /\ out'.there /\ out'.rows = out.rows \union Whole(run, f)
        BY <2>1, <3>1, AppendedRows
      <4> QED BY <3>1, <4>1, PrefixRows DEF Whole
    <3>2. CASE out' \in AppendFailures(run, f, out) /\ merged' = merged
      BY <2>1, <3>2, AppendFails
    <3> QED BY <1>3, <3>1, <3>2 DEF AppendNext, AppendResult, MergedAfterFailure
  <2>3. f \in todo /\ todo' = todo \ {f}
    BY <1>3 DEF AppendNext, IsNext
  <2>4. \A g \in merged' : Whole(run, g) \subseteq out'.rows /\ g \notin todo'
    BY <1>3, <2>2, <2>3 DEF AppendNext, MergeInv
  <2>5. \A row \in out'.rows : row.run = run /\ row.file \notin todo' /\ row.run <= run
    BY <1>3, <2>1, <2>2, <2>3 DEF AppendNext, MergeInv, Run
  <2> QED BY <1>3, <2>2, <2>3, <2>4, <2>5 DEF AppendNext, MergeInv, TypeOK, NotRunning
<1>4. CASE Finish
  BY <1>4 DEF Finish, MergeInv, TypeOK, NotRunning
<1>5. CASE Kill
  <2>1. out' \in Dataset /\ \A row \in out'.rows : row.run <= run
    <3>1. run \in Run /\ run <= run /\ out \in Dataset
      BY <1>5 DEF Kill, MergeInv, TypeOK, Run
    <3>2. ASSUME NEW f \in File, out' \in CreateFailures(run, f, out)
          PROVE  out' \in Dataset /\ \A row \in out'.rows : row.run <= run
      <4>1. out' \in Dataset /\ (out' = out \/ \A row \in out'.rows : row.run = run)
        BY <3>1, <3>2, CreateFails
      <4> QED BY <3>1, <4>1 DEF MergeInv
    <3>3. ASSUME NEW f \in File, out' \in AppendFailures(run, f, out)
          PROVE  out' \in Dataset /\ \A row \in out'.rows : row.run <= run
      <4>1. out' \in Dataset /\ \A row \in out'.rows : row \in out.rows \/ row.run = run
        BY <3>1, <3>3, AppendFails
      <4> QED BY <3>1, <4>1 DEF MergeInv
    <3> QED BY <1>5, <3>1, <3>2, <3>3 DEF Kill, MergeInv, TypeOK
  <2> QED BY <1>5, <2>1 DEF Kill, MergeInv, TypeOK, NotRunning
<1>6. ASSUME NEW f \in File, ChangeFolder(f) PROVE MergeInv'
  BY <1>6 DEF ChangeFolder, MergeInv, TypeOK, NotRunning
<1>7. CASE UNCHANGED vars
  BY <1>7 DEF vars, MergeInv, TypeOK, NotRunning
<1> QED BY <1>1, <1>2, <1>3, <1>4, <1>5, <1>6, <1>7 DEF Next

\* The loop's bookkeeping (first, merged, todo) agrees with OUTPUT_FILE in
\* every reachable state.
THEOREM MergeInvariant == Spec => []MergeInv
  BY InitInv, StepInv, PTL DEF Spec

\* Whatever fails or is killed, a merge that ends with status 0 leaves
\* no row of an earlier run in OUTPUT_FILE.
THEOREM NoStaleRowsTheorem == Spec => []NoStaleRows
<1>1. MergeInv => NoStaleRows
  BY DEF MergeInv, NoStaleRows
<1> QED BY <1>1, MergeInvariant, PTL

\* Every file counted by the final message is completely in OUTPUT_FILE.
THEOREM CountedIsCompleteTheorem == Spec => []CountedIsComplete
<1>1. MergeInv => CountedIsComplete
  BY DEF MergeInv, CountedIsComplete
<1> QED BY <1>1, MergeInvariant, PTL

\* No step of a run that has merged a file takes a row out of OUTPUT_FILE.
THEOREM NeverLosesRowsTheorem == Spec => NeverLosesRows
<1>1. MergeInv /\ [Next]_vars => [pc = "loop" /\ merged # {} => out.rows \subseteq out'.rows]_vars
  <2> SUFFICES ASSUME MergeInv, Next, pc = "loop", merged # {}
               PROVE  out.rows \subseteq out'.rows
    BY DEF vars
  <2>1. run \in Run /\ out \in Dataset /\ ~first
    BY DEF MergeInv, TypeOK
  <2>2. ASSUME NEW f, \/ out' = Appended(run, f, out)
                      \/ out' \in AppendFailures(run, f, out)
        PROVE  out.rows \subseteq out'.rows
    BY <2>1, <2>2, AppendedRows, AppendFails
  <2> QED BY <2>1, <2>2 DEF Next, StartRun, NotRunning, CreateFirst, AppendNext, AppendResult, Finish, Kill, ChangeFolder
<1> QED BY <1>1, MergeInvariant, PTL DEF Spec, NeverLosesRows

-----------------------------------------------------------------------------
\* While a run is going on, the files that are completely in OUTPUT_FILE say
\* whether merged is zero.
LEMMA GotIsMerged ==
    MergeInv /\ pc = "loop" => (Got = {} <=> merged = {}) /\ (~first => ~Dirty)
  BY DEF MergeInv, TypeOK, Got, Dirty, NotRunning

\* A failed append changes neither the set of complete files nor dirtiness.
LEMMA FailedAppend ==
    ASSUME MergeInv, pc = "loop", ~first, run' = run, NEW f \in todo,
           out' \in AppendFailures(run, f, out)
    PROVE  Got' = Got /\ Dirty' = Dirty
<1>1. run \in Run /\ f \in File /\ out \in Dataset /\ out.rows \in SUBSET Row
  BY DEF MergeInv, TypeOK, Dataset, NotRunning
<1>2. \A row \in out.rows : row.run = run /\ row.file # f
  BY DEF MergeInv
<1>3. CASE out' = out
  BY <1>3 DEF Got, Dirty
<1>4. ASSUME NEW k \in 0..RowsPerFile - 1, out'.rows = out.rows \union Prefix(run, f, k)
      PROVE  Got' = Got /\ Dirty' = Dirty
  <2>1. Dirty' = FALSE /\ Dirty = FALSE
    BY <1>2, <1>4, PrefixRows DEF Dirty
  <2>2. \A g \in File : Whole(run, g) \subseteq out.rows => Whole(run, g) \subseteq out'.rows
    BY <1>4
  <2>3. ASSUME NEW g \in File, Whole(run, g) \subseteq out'.rows
        PROVE  Whole(run, g) \subseteq out.rows
    <3>1. CASE g = f
      <4>1. Whole(run, f) \intersect out.rows = {}
        BY <1>2, PrefixRows DEF Whole
      <4> QED BY <1>1, <1>4, <2>3, <3>1, <4>1, PrefixNotWhole
    <3>2. CASE g # f
      <4>1. Whole(run, g) \intersect Prefix(run, f, k) = {}
        BY <3>2, PrefixRows DEF Whole
      <4> QED BY <1>4, <2>3, <4>1
    <3> QED BY <3>1, <3>2
  <2> QED BY <2>1, <2>2, <2>3 DEF Got
<1> QED BY <1>1, <1>3, <1>4, AppendFails

\* A failed create while nothing is merged leaves no complete file, and either
\* keeps the old dataset or leaves only rows of this run.
LEMMA FailedCreate ==
    ASSUME MergeInv, pc = "loop", first, run' = run, NEW f \in File,
           out' \in CreateFailures(run, f, out)
    PROVE  Got' = {} /\ Got = {} /\ Dirty' \in {Dirty, FALSE}
<1>1. run \in Run /\ out \in Dataset
  BY DEF MergeInv, TypeOK, NotRunning
<1>2. \/ out' = out
      \/ /\ \A row \in out'.rows : row.run = run /\ row.file = f
         /\ ~(Whole(run, f) \subseteq out'.rows)
  BY <1>1, CreateFails
<1>3. Got = {}
  BY DEF MergeInv, Got
<1>4. CASE out' = out
  BY <1>3, <1>4 DEF Got, Dirty
<1>5. CASE /\ \A row \in out'.rows : row.run = run /\ row.file = f
           /\ ~(Whole(run, f) \subseteq out'.rows)
  BY <1>1, <1>3, <1>5, WholeNotEmpty DEF Got, Dirty
<1> QED BY <1>2, <1>4, <1>5

LEMMA StepRefines == MergeInv /\ [Next]_vars => [Abs!Next]_Abs!vars
<1> SUFFICES ASSUME MergeInv, [Next]_vars PROVE [Abs!Next]_Abs!vars
  OBVIOUS
<1> USE DEF Abs!vars, Abs!Next
<1>1. CASE StartRun
  <2>1. run' \in Run /\ out' = out /\ \A row \in out.rows : row.run # run'
    BY <1>1, OgrAssumption DEF StartRun, MergeInv, TypeOK, Run, Dataset, Row
  <2>2. Got' = {}
    BY <2>1, WholeNotEmpty DEF Got
  <2>3. Dirty' \in BOOLEAN
    BY DEF Dirty
  <2> QED BY <1>1, <2>2, <2>3 DEF StartRun, NotRunning, Abs!Begin
<1>2. ASSUME NEW f \in File, CreateFirst(f) PROVE [Abs!Next]_Abs!vars
  <2>1. run \in Run /\ out \in Dataset /\ Got = {}
    BY <1>2, GotIsMerged DEF CreateFirst, MergeInv, TypeOK
  <2>2. CASE out' = Created(run, f)
    <3>1. out'.rows = Whole(run, f)
      BY <2>2, CreatedRows
    <3>2. Dirty' = FALSE
      BY <1>2, <3>1, PrefixRows DEF CreateFirst, Dirty, Whole
    <3>3. Got' = {f}
      BY <1>2, <2>1, <3>1, PrefixRows, WholeNotEmpty DEF CreateFirst, Got, Whole
    <3> QED BY <1>2, <2>1, <3>2, <3>3 DEF CreateFirst, Abs!Take
  <2>3. CASE out' \in CreateFailures(run, f, out)
    <3>1. Got' = {} /\ Dirty' \in {Dirty, FALSE}
      BY <1>2, <2>3, FailedCreate DEF CreateFirst
    <3> QED BY <1>2, <2>1, <3>1 DEF CreateFirst, Abs!Fail
  <2> QED BY <1>2, <2>2, <2>3 DEF CreateFirst
<1>3. ASSUME NEW f \in File, AppendNext(f) PROVE [Abs!Next]_Abs!vars
  <2>1. run \in Run /\ out \in Dataset /\ f \in todo /\ Dirty = FALSE
    BY <1>3, GotIsMerged DEF AppendNext, MergeInv, TypeOK, IsNext, Dirty
  <2>2. CASE out' = Appended(run, f, out)
    <3>1. out'.rows = out.rows \union Whole(run, f)
      BY <2>1, <2>2, AppendedRows
    <3>2. Dirty' = FALSE
      BY <1>3, <2>1, <3>1, PrefixRows DEF AppendNext, Dirty, Whole
    <3>3. ASSUME NEW g \in File, g # f, Whole(run, g) \subseteq out'.rows
          PROVE  Whole(run, g) \subseteq out.rows
      BY <3>1, <3>3, PrefixRows DEF Whole
    <3>4. Got' = Got \union {f}
      BY <1>3, <2>1, <3>1, <3>3 DEF AppendNext, Got
    <3> QED BY <1>3, <2>1, <3>2, <3>4 DEF AppendNext, Abs!Take
  <2>3. CASE out' \in AppendFailures(run, f, out)
    <3>1. Got' = Got /\ Dirty' = Dirty
      BY <1>3, <2>1, <2>3, FailedAppend DEF AppendNext
    <3> QED BY <1>3, <3>1 DEF AppendNext, Abs!Fail
  <2> QED BY <1>3, <2>2, <2>3 DEF AppendNext, AppendResult
<1>4. CASE Finish
  <2>1. Got' = Got /\ Dirty' = Dirty
    BY <1>4 DEF Finish, Got, Dirty
  <2> QED BY <1>4, <2>1, GotIsMerged DEF Finish, Abs!End
<1>5. CASE Kill
  <2>1. Got' = Got /\ Dirty' \in {Dirty, FALSE}
    <3>1. CASE UNCHANGED out
      BY <1>5, <3>1 DEF Kill, Got, Dirty
    <3>2. ASSUME NEW f \in todo, first, out' \in CreateFailures(run, f, out)
          PROVE  Got' = Got /\ Dirty' \in {Dirty, FALSE}
      BY <1>5, <3>2, FailedCreate DEF Kill, MergeInv, TypeOK
    <3>3. ASSUME NEW f \in todo, ~first, out' \in AppendFailures(run, f, out)
          PROVE  Got' = Got /\ Dirty' \in {Dirty, FALSE}
      BY <1>5, <3>3, FailedAppend DEF Kill
    <3> QED BY <1>5, <3>1, <3>2, <3>3 DEF Kill
  <2> QED BY <1>5, <2>1 DEF Kill, Abs!Killed
<1>6. ASSUME NEW f \in File, ChangeFolder(f) PROVE [Abs!Next]_Abs!vars
  BY <1>6 DEF ChangeFolder, Got, Dirty
<1>7. CASE UNCHANGED vars
  BY <1>7 DEF vars, Got, Dirty
<1> QED BY <1>1, <1>2, <1>3, <1>4, <1>5, <1>6, <1>7 DEF Next

\* The shell merges implement the abstract merge.
THEOREM MergeRefinement == Spec => ImplementsMerge
<1>1. Init => Abs!Init
  BY OgrAssumption DEF Init, Abs!Init, Got, Dirty, Absent, Run
<1> QED BY <1>1, StepRefines, MergeInvariant, PTL DEF Spec, ImplementsMerge, Abs!Spec

-----------------------------------------------------------------------------
\* The conversion.  All rows of a file are of one run, and are lines of the CSV.
OneRun(d, f) ==
    \E r : \A row \in d.rows : /\ row = [run |-> r, file |-> f, pos |-> row.pos]
                               /\ row.pos \in Convert!Data(csv[f])

Lines(d) == {row.pos : row \in d.rows}

ConvertOK ==
    /\ \A f \in File : /\ csv[f].lines \in 0..LinesPerCsv
                       /\ folder[f] # "tochi" => csv[f].header
    /\ cout \in [File -> Convert!Dataset]
    /\ ctodo \subseteq File
    /\ crun \in 0..MaxConversions
    /\ cpc \in {"next", "ogr"} \union Convert!NotRunning
    /\ cpc \in {"next", "ogr"} => crun \in 1..MaxConversions

\* What the files hold, and what ogr2ogr is given to read.
HoldsInv ==
    /\ \A f \in File : OneRun(cout[f], f)
    /\ cpc = "ogr" => \/ ctmp = Convert!Missing
                      \/ \A f \in File : Convert!IsNext(f) => ctmp \subseteq Convert!Data(csv[f])
    /\ \A f \in File : cout[f].there =>
          Lines(cout[f]) = Convert!Data(csv[f]) \/ f \in clossy \/ f \in chit

\* What the run has left so far, as CleanRunLeaves has it at the end.
LeftBy(f) ==
    /\ Convert!Complete(f) \/ f \in clossy \/ (cskip /\ f \in chit)
    /\ cout[f].there
    /\ ~cskip => \A row \in cout[f].rows : row.run = crun /\ row.file = f

ProgressInv ==
    /\ cpc \in {"next", "ogr", "ok"} =>
          /\ \A f \in File \ ctodo : folder[f] \in cmade
          /\ ~cfailed => \A f \in File \ ctodo : LeftBy(f)
    /\ cpc = "ogr" => \A f \in File : Convert!IsNext(f) => folder[f] \in cmade
    /\ cpc = "ok" => ctodo = {}
    /\ cverdict # "none" => cpc \in Convert!NotRunning

ConvertInv == ConvertOK /\ HoldsInv /\ ProgressInv /\ VerifiedIsComplete

\* What the merge has read while no conversion began after it.
TakenInv ==
    /\ since \in 0..crun
    /\ since = crun /\ since # 0 =>
          /\ CleanlyConverted
          /\ \A f \in merged : {row.pos : row \in taken[f]} = Convert!Data(csv[f]) \/ f \in clossy

DeliveryInv ==
    /\ ConvertInv
    /\ TakenInv
    /\ merged \subseteq File
    /\ taken \in [File -> SUBSET Convert!Row]

\* The conversion numbers its files as the merge does, and its lines from 1.
LEMMA ConvertSets ==
    /\ Convert!File = File
    /\ Convert!Line = 1..LinesPerCsv
    /\ \A f \in File : Convert!Data(csv[f]) \subseteq 1..LinesPerCsv
BY DEF Convert!File, File, Convert!Line, Convert!Data

\* What ogr2ogr writes for some lines of a CSV.
LEMMA HoldingRows ==
    ASSUME ConvertOK, cpc \in {"next", "ogr"}, NEW f \in File, NEW L \in SUBSET Convert!Data(csv[f]),
           NEW d, d = Convert!Holding(Convert!Rows(f, L))
    PROVE  /\ d \in Convert!Dataset /\ d.there /\ Lines(d) = L /\ OneRun(d, f)
           /\ \A row \in d.rows : row.run = crun /\ row.file = f
<1>1. d.there = TRUE /\ d.rows = Convert!Rows(f, L)
  BY DEF Convert!Holding
<1>2. \A row \in d.rows : /\ row = [run |-> crun, file |-> f, pos |-> row.pos]
                          /\ row.run = crun /\ row.file = f /\ row.pos \in L
  <2> SUFFICES ASSUME NEW row \in d.rows
               PROVE  /\ row = [run |-> crun, file |-> f, pos |-> row.pos]
                      /\ row.run = crun /\ row.file = f /\ row.pos \in L
    OBVIOUS
  <2>1. PICK p \in L : row = [run |-> crun, file |-> f, pos |-> p]
    BY <1>1 DEF Convert!Rows
  <2>2. row.pos = p /\ row.run = crun /\ row.file = f
    BY <2>1
  <2> QED
    BY <2>1, <2>2
<1>3. ASSUME NEW p \in L PROVE \E row \in d.rows : row.pos = p
  <2>1. [run |-> crun, file |-> f, pos |-> p] \in d.rows
    BY <1>1 DEF Convert!Rows
  <2> QED
    BY <2>1
<1>4. crun \in 1..MaxConversions /\ L \subseteq 1..LinesPerCsv
  BY ConvertSets DEF ConvertOK
<1>5. Convert!Rows(f, L) \subseteq Convert!Row
  BY <1>4, ConvertSets DEF Convert!Rows, Convert!Row, Convert!Run
<1>6. d \in Convert!Dataset
  BY <1>5 DEF Convert!Holding, Convert!Dataset
<1>7. Lines(d) = L
  BY <1>2, <1>3 DEF Lines
<1> QED
  BY <1>1, <1>2, <1>6, <1>7 DEF OneRun

\* What it leaves when it fails.
LEMMA OgrFailureLeaves ==
    ASSUME ConvertOK, HoldsInv, cpc = "ogr", NEW f \in File, Convert!IsNext(f), NEW d \in Convert!OgrFailures(f)
    PROVE  d \in Convert!Dataset /\ OneRun(d, f)
<1>1. CASE d = cout[f]
  BY <1>1 DEF ConvertOK, HoldsInv
<1>2. CASE d = Convert!Absent
  BY <1>2 DEF Convert!Absent, Convert!Dataset, OneRun
<1>3. ASSUME ctmp # Convert!Missing, NEW k, d = Convert!Holding(Convert!Rows(f, {p \in ctmp : p < k}))
      PROVE  d \in Convert!Dataset /\ OneRun(d, f)
  <2>1. {p \in ctmp : p < k} \in SUBSET Convert!Data(csv[f])
    BY <1>3 DEF HoldsInv
  <2> QED
    BY <1>3, <2>1, HoldingRows
<1>4. \/ d = cout[f]
      \/ ctmp # Convert!Missing /\ (d = Convert!Absent \/ \E k \in Convert!Line : d = Convert!Holding(Convert!Rows(f, {p \in ctmp : p < k})))
  BY DEF Convert!OgrFailures
<1> QED
  BY <1>1, <1>2, <1>3, <1>4

\* The next CSV is one CSV.
LEMMA NextIsOne ==
    ASSUME ConvertOK, NEW f, NEW g, Convert!IsNext(f), Convert!IsNext(g)
    PROVE  f = g /\ f \in ctodo
<1>1. ctodo \subseteq Nat
  BY OgrAssumption DEF ConvertOK, File
<1>2. f \in ctodo /\ g \in ctodo
  BY DEF Convert!IsNext
<1> QED
  BY <1>1, <1>2 DEF Convert!IsNext

\* What the step before ogr2ogr does: it hands over lines of the CSV or nothing,
\* gives the CSV up with FAILED=1, or ends the script.
LEMMA PreprocessEffect ==
    ASSUME NEW f \in File, Convert!Preprocess(f)
    PROVE  /\ cpc = "next" /\ Convert!IsNext(f) /\ folder[f] \in cmade
           /\ UNCHANGED <<folder, csv, cout, crun, cskip, cmade, clossy, chit, cverdict>>
           /\ \/ /\ cpc' = "ogr" /\ ctodo' = ctodo /\ cfailed' = cfailed
                 /\ ctmp' = Convert!Missing \/ ctmp' \subseteq Convert!Data(csv[f])
              \/ cpc' = cpc /\ cfailed' = TRUE /\ ctodo' = ctodo \ {f}
              \/ cpc' = "error" /\ ctodo' = ctodo
<1> DEFINE Goal == \/ /\ cpc' = "ogr" /\ ctodo' = ctodo /\ cfailed' = cfailed
                      /\ ctmp' = Convert!Missing \/ ctmp' \subseteq Convert!Data(csv[f])
                   \/ cpc' = cpc /\ cfailed' = TRUE /\ ctodo' = ctodo \ {f}
                   \/ cpc' = "error" /\ ctodo' = ctodo
<1>1. ASSUME NEW L, Convert!ToOgr(L), L = Convert!Missing \/ L \subseteq Convert!Data(csv[f]) PROVE Goal
  BY <1>1 DEF Convert!ToOgr
<1>2. Convert!GiveUp(f) => Goal
  BY DEF Convert!GiveUp, Convert!FailedIsSet
<1>3. /\ Convert!TochiWrites(csv[f]) \subseteq Convert!Data(csv[f])
      /\ Convert!KozuWrites(csv[f]) \subseteq Convert!Data(csv[f])
  BY DEF Convert!TochiWrites, Convert!KozuWrites
<1>4. \A L \in Convert!Torn(Convert!TochiWrites(csv[f])) : L = Convert!Missing \/ L \subseteq Convert!Data(csv[f])
  BY <1>3 DEF Convert!Torn
<1>5. Convert!WithZone(f) => Goal
  BY <1>1, <1>2, <1>3, <1>4 DEF Convert!WithZone
<1>6. ASSUME NEW b, NEW L, Convert!WithStatus(f, b, L), L \subseteq Convert!Data(csv[f]) PROVE Goal
  BY <1>1, <1>2, <1>6 DEF Convert!WithStatus
<1>7. Convert!WithIconv(f) => Goal
  BY <1>1, <1>2 DEF Convert!WithIconv
<1>8. Goal
  BY <1>1, <1>3, <1>5, <1>6, <1>7, Zenon DEF Convert!Preprocess
<1> QED
  BY <1>8 DEF Convert!Preprocess, Convert!inputs

\* What ogr2ogr does to the file of the CSV, and what the script notes.
LEMMA Ogr2ogrEffect ==
    ASSUME ConvertOK, HoldsInv, NEW f \in File, Convert!Ogr2ogr(f)
    PROVE  /\ cpc = "ogr" /\ cpc' = "next" /\ Convert!IsNext(f) /\ ctodo' = ctodo \ {f}
           /\ UNCHANGED <<folder, csv, crun, cskip, cmade, cverdict>>
           /\ \E d \in Convert!Dataset :
                 /\ cout' = [cout EXCEPT ![f] = d] /\ OneRun(d, f)
                 /\ \/ /\ d.there /\ cfailed' = cfailed /\ chit' = chit \ {f}
                       /\ \A row \in d.rows : row.run = crun /\ row.file = f
                       /\ \/ Lines(d) = Convert!Data(csv[f]) /\ clossy' = clossy \ {f}
                          \/ clossy' = clossy \union {f}
                    \/ cfailed' = TRUE /\ chit' = chit \union {f} /\ clossy' = clossy
<1>1. /\ cpc = "ogr" /\ cpc' = "next" /\ Convert!IsNext(f) /\ ctodo' = ctodo \ {f}
      /\ UNCHANGED <<folder, csv, crun, cskip, cmade, cverdict>>
  BY DEF Convert!Ogr2ogr, Convert!inputs
<1>2. CASE ctmp # Convert!Missing
           /\ \E L \in SUBSET ctmp :
                 /\ cout' = [cout EXCEPT ![f] = Convert!Holding(Convert!Rows(f, L))]
                 /\ clossy' = IF L = Convert!Data(csv[f]) THEN clossy \ {f} ELSE clossy \union {f}
           /\ chit' = chit \ {f} /\ cfailed' = cfailed
  <2>1. PICK L \in SUBSET ctmp :
                 /\ cout' = [cout EXCEPT ![f] = Convert!Holding(Convert!Rows(f, L))]
                 /\ clossy' = IF L = Convert!Data(csv[f]) THEN clossy \ {f} ELSE clossy \union {f}
    BY <1>2, Zenon
  <2>2. L \in SUBSET Convert!Data(csv[f])
    BY <1>1, <1>2 DEF HoldsInv
  <2> DEFINE d == Convert!Holding(Convert!Rows(f, L))
  <2>3. /\ d \in Convert!Dataset /\ d.there /\ Lines(d) = L /\ OneRun(d, f)
        /\ \A row \in d.rows : row.run = crun /\ row.file = f
    BY <1>1, <2>2, HoldingRows
  <2> QED
    BY <1>1, <1>2, <2>1, <2>3
<1>3. CASE /\ \E d \in Convert!OgrFailures(f) : cout' = [cout EXCEPT ![f] = d]
           /\ cfailed' = TRUE /\ chit' = chit \union {f} /\ clossy' = clossy
  BY <1>1, <1>3, OgrFailureLeaves
<1> QED
  BY <1>2, <1>3, Zenon DEF Convert!Ogr2ogr, Convert!FailedIsSet

LEMMA SameCardinality ==
    ASSUME NEW S PROVE Convert!Cardinality(S) = Cardinality(S)
BY DEF Convert!Cardinality, Cardinality

\* The number of rows of a file is the number of its lines ...
LEMMA RowsAreLines ==
    ASSUME NEW d, NEW f \in File, OneRun(d, f)
    PROVE  /\ Lines(d) \subseteq Convert!Data(csv[f])
           /\ IsFiniteSet(Convert!Data(csv[f]))
           /\ Cardinality(Lines(d)) = Cardinality(d.rows)
<1>1. PICK r : \A row \in d.rows : /\ row = [run |-> r, file |-> f, pos |-> row.pos]
                                   /\ row.pos \in Convert!Data(csv[f])
  BY DEF OneRun
<1>2. Lines(d) \subseteq Convert!Data(csv[f])
  BY <1>1 DEF Lines
<1>3. IsFiniteSet(1..LinesPerCsv)
  BY DeliveryAssumption, FS_Interval
<1>4. IsFiniteSet(Convert!Data(csv[f])) /\ IsFiniteSet(Lines(d))
  BY <1>2, <1>3, ConvertSets, FS_Subset
<1> DEFINE row(p) == [run |-> r, file |-> f, pos |-> p]
           b == [p \in Lines(d) |-> row(p)]
<1>5. b \in Bijection(Lines(d), d.rows)
  <2>1. \A p \in Lines(d) : row(p) \in d.rows
    BY <1>1 DEF Lines
  <2>2. \A p, q \in Lines(d) : row(p) = row(q) => p = q
    <3>1. \A p : row(p).pos = p
      OBVIOUS
    <3> QED
      BY <3>1
  <2>3. \A x \in d.rows : \E p \in Lines(d) : row(p) = x
    BY <1>1 DEF Lines
  <2> HIDE DEF row
  <2>4. b \in [Lines(d) -> d.rows] /\ \A p \in Lines(d) : b[p] = row(p)
    BY <2>1
  <2> HIDE DEF b
  <2>5. b \in Injection(Lines(d), d.rows)
    BY <2>2, <2>4 DEF Injection, IsInjective
  <2>6. b \in Surjection(Lines(d), d.rows)
    BY <2>3, <2>4 DEF Surjection
  <2> QED
    BY <2>5, <2>6 DEF Bijection
<1>6. ExistsBijection(Lines(d), d.rows)
  BY <1>5 DEF ExistsBijection
<1> QED
  BY <1>2, <1>4, <1>6, FS_Bijection

\* ... and where it is what count_csv_rows counts, no line is missing.
LEMMA CountsSuffice ==
    ASSUME ConvertOK, HoldsInv, NEW f \in File, Convert!CountsAgree(f)
    PROVE  Convert!Complete(f)
<1> DEFINE D == Convert!Data(csv[f])
           n == csv[f].lines
<1>1. n \in Nat /\ n <= LinesPerCsv /\ LinesPerCsv \in Nat /\ (folder[f] # "tochi" => csv[f].header)
  BY DeliveryAssumption DEF ConvertOK
<1>2. Cardinality(D) <= Convert!CountCsvRows(f) /\ Convert!CountCsvRows(f) \in Nat
  <2>1. CASE csv[f].header /\ n > 0
    <3>1. D = 2..n
      BY <1>1, <2>1 DEF Convert!Data, Convert!Line
    <3>2. Cardinality(2..n) = n - 1
      <4>1. 2 \in Int /\ n \in Int /\ (2 > n => n = 1)
        BY <1>1, <2>1
      <4>2. Cardinality(2..n) = IF 2 > n THEN 0 ELSE n - 2 + 1
        BY <4>1, FS_Interval
      <4> QED
        BY <4>1, <4>2
    <3> QED
      BY <1>1, <2>1, <3>1, <3>2 DEF Convert!CountCsvRows
  <2>2. CASE ~csv[f].header \/ n = 0
    <3>1. D = 1..n
      BY <1>1, <2>2 DEF Convert!Data, Convert!Line
    <3>2. Cardinality(1..n) = n
      BY <1>1, FS_Interval
    <3> QED
      BY <1>1, <2>2, <3>1, <3>2 DEF Convert!CountCsvRows
  <2> QED
    BY <1>1, <2>1, <2>2
<1>3. /\ Lines(cout[f]) \subseteq D /\ IsFiniteSet(D)
      /\ Cardinality(Lines(cout[f])) = Convert!CountCsvRows(f) /\ cout[f].there
  <2>1. OneRun(cout[f], f) /\ cout[f].there /\ Cardinality(cout[f].rows) = Convert!CountCsvRows(f)
    BY SameCardinality DEF HoldsInv, Convert!CountsAgree
  <2> QED
    BY <2>1, RowsAreLines
<1>4. Cardinality(D) \in Nat /\ Cardinality(Lines(cout[f])) <= Cardinality(D)
  BY <1>3, FS_Subset, FS_CardinalityType
<1>5. Cardinality(D) = Cardinality(Lines(cout[f]))
  <2> DEFINE x == Cardinality(D)
             y == Cardinality(Lines(cout[f]))
  <2>1. x \in Nat /\ y <= x /\ x <= Convert!CountCsvRows(f) /\ y = Convert!CountCsvRows(f)
        /\ Convert!CountCsvRows(f) \in Nat
    BY <1>2, <1>3, <1>4
  <2> HIDE DEF x, y
  <2>2. x = y
    BY <2>1
  <2> QED
    BY <2>2 DEF x, y
<1>6. D = Lines(cout[f])
  BY <1>3, <1>5, FS_Subset
<1> QED
  BY <1>3, <1>6 DEF Convert!Complete, Lines

-----------------------------------------------------------------------------
\* The types, and that a run that goes on has a number.
LEMMA ConvertOKStep == ConvertOK /\ HoldsInv /\ [Convert!Next]_cvars => ConvertOK'
<1> SUFFICES ASSUME ConvertOK, HoldsInv, [Convert!Next]_cvars PROVE ConvertOK'
  OBVIOUS
<1> USE ConvertSets, DeliveryAssumption DEF Convert!NotRunning, Convert!inputs
<1>1. ASSUME NEW s \in BOOLEAN, Convert!Start(s) PROVE ConvertOK'
  BY <1>1 DEF ConvertOK, Convert!Start
<1>2. ASSUME NEW f \in File, Convert!EnterFolder(f) PROVE ConvertOK'
  BY <1>2 DEF ConvertOK, Convert!EnterFolder
<1>3. ASSUME NEW f \in File, Convert!SkipExisting(f) PROVE ConvertOK'
  BY <1>3 DEF ConvertOK, Convert!SkipExisting
<1>4. ASSUME NEW f \in File, Convert!Preprocess(f) PROVE ConvertOK'
  BY <1>4, PreprocessEffect DEF ConvertOK
<1>5. ASSUME NEW f \in File, Convert!Ogr2ogr(f) PROVE ConvertOK'
  <2>1. cout' \in [File -> Convert!Dataset]
    BY <1>5, Ogr2ogrEffect DEF ConvertOK
  <2> QED
    BY <1>5, <2>1, Ogr2ogrEffect DEF ConvertOK
<1>6. CASE Convert!Finish
  BY <1>6 DEF ConvertOK, Convert!Finish
<1>7. CASE Convert!Kill
  <2>1. cout' = cout \/ \E f \in File, d \in Convert!Dataset : cout' = [cout EXCEPT ![f] = d]
    BY <1>7, OgrFailureLeaves DEF Convert!Kill
  <2>2. cout' \in [File -> Convert!Dataset]
    BY <2>1 DEF ConvertOK
  <2> QED
    BY <1>7, <2>2 DEF ConvertOK, Convert!Kill
<1>8. CASE Convert!Verify
  BY <1>8 DEF ConvertOK, Convert!Verify
<1>9. CASE UNCHANGED cvars
  BY <1>9 DEF ConvertOK, cvars
<1> QED
  BY <1>1, <1>2, <1>3, <1>4, <1>5, <1>6, <1>7, <1>8, <1>9 DEF Convert!Next

\* A dataset of one run stays one as long as the CSV does.
LEMMA OneRunStays == ASSUME csv' = csv, NEW d, NEW f, OneRun(d, f) PROVE OneRun(d, f)'
BY DEF OneRun, Convert!Data, Convert!Line

\* Where the files and the CSVs stay, and nothing new is handed to ogr2ogr.
LEMMA HoldsStays ==
    ASSUME HoldsInv, UNCHANGED <<csv, cout, clossy, chit>>,
           cpc' = "ogr" => cpc = "ogr" /\ ctmp' = ctmp /\ ctodo' = ctodo
    PROVE  HoldsInv'
BY DEF HoldsInv, OneRun, Lines, Convert!IsNext, Convert!Data, Convert!Line, Convert!Missing

\* What the files hold are lines of their CSVs, after each step.
LEMMA HoldsStep == ConvertOK /\ HoldsInv /\ [Convert!Next]_cvars => HoldsInv'
<1> SUFFICES ASSUME ConvertOK, HoldsInv, [Convert!Next]_cvars PROVE HoldsInv'
  OBVIOUS
<1>1. ASSUME NEW s \in BOOLEAN, Convert!Start(s) PROVE HoldsInv'
  BY <1>1, HoldsStays DEF Convert!Start, Convert!inputs
<1>2. ASSUME NEW f \in File, Convert!EnterFolder(f) PROVE HoldsInv'
  BY <1>2, HoldsStays DEF Convert!EnterFolder, Convert!inputs
<1>3. ASSUME NEW f \in File, Convert!SkipExisting(f) PROVE HoldsInv'
  BY <1>3, HoldsStays DEF Convert!SkipExisting, Convert!inputs
<1>4. ASSUME NEW f \in File, Convert!Preprocess(f) PROVE HoldsInv'
  <2>1. CASE cpc' = "ogr"
    <3>1. /\ UNCHANGED <<csv, cout, clossy, chit, ctodo>> /\ Convert!IsNext(f)
          /\ ctmp' = Convert!Missing \/ ctmp' \subseteq Convert!Data(csv[f])
      BY <1>4, <2>1, PreprocessEffect
    <3>2. \A g \in File : Convert!IsNext(g)' => g = f
      BY <3>1, NextIsOne DEF Convert!IsNext
    <3>3. \/ ctmp' = Convert!Missing
          \/ \A g \in File : Convert!IsNext(g)' => ctmp' \subseteq Convert!Data(csv[g])
      BY <3>1, <3>2
    <3> QED
      BY <3>1, <3>3 DEF HoldsInv, OneRun, Lines, Convert!Data, Convert!Line, Convert!Missing
  <2>2. CASE cpc' # "ogr"
    BY <1>4, <2>2, PreprocessEffect, HoldsStays
  <2> QED
    BY <2>1, <2>2
<1>5. ASSUME NEW f \in File, Convert!Ogr2ogr(f) PROVE HoldsInv'
  <2>1. PICK d \in Convert!Dataset :
           /\ cout' = [cout EXCEPT ![f] = d] /\ OneRun(d, f)
           /\ \/ /\ d.there /\ chit' = chit \ {f}
                 /\ \/ Lines(d) = Convert!Data(csv[f]) /\ clossy' = clossy \ {f}
                    \/ clossy' = clossy \union {f}
              \/ chit' = chit \union {f} /\ clossy' = clossy
    BY <1>5, Ogr2ogrEffect
  <2>2. cpc' = "next" /\ csv' = csv
    BY <1>5, Ogr2ogrEffect
  <2>3. cout'[f] = d /\ \A g \in File : g # f => cout'[g] = cout[g]
    BY <2>1 DEF ConvertOK
  <2>4. \A g \in File : OneRun(cout[g], g)'
    BY <2>1, <2>2, <2>3, OneRunStays DEF HoldsInv
  <2>5. \A g \in File : cout'[g].there => Lines(cout'[g]) = Convert!Data(csv[g]) \/ g \in clossy' \/ g \in chit'
    BY <2>1, <2>3 DEF HoldsInv
  <2> QED
    BY <2>2, <2>4, <2>5 DEF HoldsInv, Lines, Convert!Data, Convert!Line
<1>6. CASE Convert!Finish
  BY <1>6, HoldsStays DEF Convert!Finish, Convert!inputs
<1>7. CASE Convert!Kill
  <2>1. cpc' = "killed" /\ csv' = csv /\ clossy' = clossy
    BY <1>7 DEF Convert!Kill, Convert!inputs
  <2>2. CASE UNCHANGED <<cout, chit>>
    BY <2>1, <2>2, HoldsStays
  <2>3. ASSUME NEW f \in File, cpc = "ogr", Convert!IsNext(f), NEW d \in Convert!OgrFailures(f),
               cout' = [cout EXCEPT ![f] = d], chit' = chit \union {f}
        PROVE  HoldsInv'
    <3>1. cout'[f] = d /\ \A g \in File : g # f => cout'[g] = cout[g]
      BY <2>3 DEF ConvertOK
    <3>2. OneRun(d, f)
      BY <2>3, OgrFailureLeaves
    <3>3. \A g \in File : OneRun(cout[g], g)'
      BY <2>1, <3>1, <3>2, OneRunStays DEF HoldsInv
    <3>4. \A g \in File : cout'[g].there => Lines(cout'[g]) = Convert!Data(csv[g]) \/ g \in clossy' \/ g \in chit'
      BY <2>1, <2>3, <3>1 DEF HoldsInv
    <3> QED
      BY <2>1, <3>3, <3>4 DEF HoldsInv, Lines, Convert!Data, Convert!Line
  <2> QED
    BY <1>7, <2>2, <2>3, ConvertSets DEF Convert!Kill
<1>8. CASE Convert!Verify
  BY <1>8, HoldsStays DEF Convert!Verify, Convert!inputs
<1>9. CASE UNCHANGED cvars
  BY <1>9, HoldsStays DEF cvars
<1> QED
  BY <1>1, <1>2, <1>3, <1>4, <1>5, <1>6, <1>7, <1>8, <1>9, ConvertSets DEF Convert!Next

\* What a step leaves as it was keeps what a file was left with.
LEMMA LeftStays ==
    ASSUME NEW f \in File, LeftBy(f), UNCHANGED <<csv, crun, cskip>>, cout'[f] = cout[f],
           f \in clossy => f \in clossy', f \in chit => f \in chit'
    PROVE  LeftBy(f)'
BY DEF LeftBy, Convert!Complete, Convert!Data, Convert!Line

\* Where only the program counter, the directories made and the verdict change.
LEMMA ProgressStays ==
    ASSUME ProgressInv, UNCHANGED <<folder, csv, crun, cskip, ctodo, cfailed, cout, clossy, chit>>,
           cmade \subseteq cmade',
           cpc' = cpc \/ cpc' \in {"error", "killed"},
           cverdict' # "none" => cpc' \in Convert!NotRunning
    PROVE  ProgressInv'
<1>1. \A f \in File : LeftBy(f) => LeftBy(f)'
  BY LeftStays
<1>2. \A f \in File : Convert!IsNext(f)' => Convert!IsNext(f)
  BY DEF Convert!IsNext
<1> QED
  BY <1>1, <1>2 DEF ProgressInv

\* Each CSV the run has come to is dealt with, after each step.
LEMMA ProgressStep == ConvertOK /\ HoldsInv /\ ProgressInv /\ [Convert!Next]_cvars => ProgressInv'
<1> SUFFICES ASSUME ConvertOK, HoldsInv, ProgressInv, [Convert!Next]_cvars PROVE ProgressInv'
  OBVIOUS
<1> USE DEF Convert!NotRunning
<1>1. ASSUME NEW s \in BOOLEAN, Convert!Start(s) PROVE ProgressInv'
  <2>1. ctodo' = File /\ cverdict' = "none" /\ cpc' \in {"next", "error"}
    BY <1>1, ConvertSets DEF Convert!Start
  <2> QED
    BY <2>1 DEF ProgressInv
<1>2. ASSUME NEW f \in File, Convert!EnterFolder(f) PROVE ProgressInv'
  BY <1>2, ProgressStays DEF Convert!EnterFolder, Convert!inputs, ProgressInv
<1>3. ASSUME NEW f \in File, Convert!SkipExisting(f) PROVE ProgressInv'
  <2>1. /\ cpc = "next" /\ folder[f] \in cmade /\ ctodo' = ctodo \ {f} /\ cskip /\ cout[f].there
        /\ UNCHANGED <<folder, csv, cpc, crun, cskip, cfailed, cmade, cout, clossy, chit, cverdict>>
    BY <1>3, Zenon DEF Convert!SkipExisting, Convert!Skipped, Convert!inputs
  <2>2. \A g \in File : LeftBy(g) => LeftBy(g)'
    BY <2>1, LeftStays
  <2>3. LeftBy(f)
    BY <2>1 DEF LeftBy, HoldsInv, Lines, Convert!Complete
  <2> QED
    BY <2>1, <2>2, <2>3, Zenon DEF ProgressInv
<1>4. ASSUME NEW f \in File, Convert!Preprocess(f) PROVE ProgressInv'
  <2>1. /\ cpc = "next" /\ Convert!IsNext(f) /\ folder[f] \in cmade
        /\ UNCHANGED <<folder, csv, cout, crun, cskip, cmade, clossy, chit, cverdict>>
    BY <1>4, PreprocessEffect
  <2>2. \A g \in File : LeftBy(g) => LeftBy(g)'
    BY <2>1, LeftStays
  <2>3. CASE cpc' = "ogr" /\ ctodo' = ctodo /\ cfailed' = cfailed
    <3>1. \A g \in File : Convert!IsNext(g)' => g = f
      BY <2>1, <2>3, NextIsOne DEF Convert!IsNext
    <3> QED
      BY <2>1, <2>2, <2>3, <3>1 DEF ProgressInv
  <2>4. CASE cpc' = cpc /\ cfailed' = TRUE /\ ctodo' = ctodo \ {f}
    BY <2>1, <2>4 DEF ProgressInv
  <2>5. CASE cpc' = "error"
    BY <2>1, <2>5 DEF ProgressInv
  <2> QED
    BY <1>4, <2>3, <2>4, <2>5, PreprocessEffect
<1>5. ASSUME NEW f \in File, Convert!Ogr2ogr(f) PROVE ProgressInv'
  <2>1. /\ cpc = "ogr" /\ cpc' = "next" /\ Convert!IsNext(f) /\ ctodo' = ctodo \ {f}
        /\ UNCHANGED <<folder, csv, crun, cskip, cmade, cverdict>>
    BY <1>5, Ogr2ogrEffect, Zenon
  <2>2. folder[f] \in cmade
    BY <2>1 DEF ProgressInv
  <2>3. cverdict' = "none"
    BY <2>1 DEF ProgressInv
  <2>4. ASSUME ~cfailed', NEW g \in File \ ctodo' PROVE LeftBy(g)'
    <3>1. PICK d \in Convert!Dataset :
             /\ cout' = [cout EXCEPT ![f] = d]
             /\ d.there /\ cfailed' = cfailed /\ chit' = chit \ {f}
             /\ \A row \in d.rows : row.run = crun /\ row.file = f
             /\ \/ Lines(d) = Convert!Data(csv[f]) /\ clossy' = clossy \ {f}
                \/ clossy' = clossy \union {f}
      BY <1>5, <2>4, Ogr2ogrEffect, Zenon
    <3>2. cout'[f] = d /\ \A h \in File : h # f => cout'[h] = cout[h]
      BY <3>1 DEF ConvertOK
    <3>3. CASE g = f
      <4>1. Convert!Complete(f)' \/ f \in clossy'
        BY <2>1, <3>1, <3>2, Zenon DEF Convert!Complete, Lines, Convert!Data, Convert!Line
      <4> QED
        BY <2>1, <3>1, <3>2, <3>3, <4>1 DEF LeftBy
    <3>4. CASE g # f
      <4>1. LeftBy(g)
        BY <2>1, <2>4, <3>1, <3>4, Zenon DEF ProgressInv
      <4> QED
        BY <2>1, <3>1, <3>2, <3>4, <4>1, LeftStays
    <3> QED
      BY <3>3, <3>4
  <2> QED
    BY <2>1, <2>2, <2>3, <2>4 DEF ProgressInv
<1>6. CASE Convert!Finish
  <2>1. /\ cpc = "next" /\ ctodo = {} /\ cpc' = "ok"
        /\ UNCHANGED <<folder, csv, crun, cskip, ctodo, cfailed, cmade, cout, clossy, chit, cverdict>>
    BY <1>6 DEF Convert!Finish, Convert!inputs
  <2>2. \A g \in File : LeftBy(g) => LeftBy(g)'
    BY <2>1, LeftStays
  <2> QED
    BY <2>1, <2>2 DEF ProgressInv
<1>7. CASE Convert!Kill
  BY <1>7 DEF Convert!Kill, ProgressInv
<1>8. CASE Convert!Verify
  BY <1>8, ProgressStays DEF Convert!Verify, Convert!inputs
<1>9. CASE UNCHANGED cvars
  BY <1>9, ProgressStays DEF cvars, ProgressInv
<1> QED
  BY <1>1, <1>2, <1>3, <1>4, <1>5, <1>6, <1>7, <1>8, <1>9, ConvertSets DEF Convert!Next

\* What the verifier accepts is complete, and stays so until a run begins.
LEMMA VerifiedStep == ConvertInv /\ [Convert!Next]_cvars => VerifiedIsComplete'
<1> SUFFICES ASSUME ConvertInv, [Convert!Next]_cvars PROVE VerifiedIsComplete'
  OBVIOUS
<1> USE DEF ConvertInv, Convert!NotRunning
<1>1. CASE \E s \in BOOLEAN : Convert!Start(s)
  BY <1>1 DEF Convert!Start, VerifiedIsComplete, Convert!VerifiedIsComplete
<1>2. CASE cpc \in {"next", "ogr"} /\ cverdict' = cverdict
  BY <1>2 DEF ProgressInv, VerifiedIsComplete, Convert!VerifiedIsComplete
<1>3. CASE Convert!Verify
  <2> SUFFICES ASSUME cverdict' = "ok", NEW f \in File, cpc' = "ok" \/ folder'[f] \in cmade'
               PROVE  Convert!Complete(f)'
    BY ConvertSets DEF VerifiedIsComplete, Convert!VerifiedIsComplete, Convert!File, File
  <2>1. UNCHANGED <<folder, csv, cpc, cmade, cout>>
    BY <1>3 DEF Convert!Verify, Convert!inputs
  <2>2. folder[f] \in cmade
    BY <2>1 DEF ProgressInv
  <2>3. Convert!CountsAgree(f)
    BY <1>3, <2>2, ConvertSets, Zenon DEF Convert!Verify, Convert!Compared
  <2>4. Convert!Complete(f)
    BY <2>3, CountsSuffice
  <2> QED
    BY <2>1, <2>4 DEF Convert!Complete, Convert!Data, Convert!Line
<1>4. CASE UNCHANGED cvars
  BY <1>4 DEF cvars, VerifiedIsComplete, Convert!VerifiedIsComplete, Convert!File,
              Convert!Complete, Convert!Data, Convert!Line
<1>5. ASSUME NEW f \in File,
             Convert!EnterFolder(f) \/ Convert!SkipExisting(f) \/ Convert!Preprocess(f) \/ Convert!Ogr2ogr(f)
      PROVE  cpc \in {"next", "ogr"} /\ cverdict' = cverdict
  BY <1>5, Zenon DEF Convert!EnterFolder, Convert!SkipExisting, Convert!Preprocess, Convert!Ogr2ogr
<1>6. Convert!Finish \/ Convert!Kill => cpc \in {"next", "ogr"} /\ cverdict' = cverdict
  BY DEF Convert!Finish, Convert!Kill
<1> QED
  BY <1>1, <1>2, <1>3, <1>4, <1>5, <1>6, ConvertSets DEF Convert!Next

LEMMA ConvertInvInit == Convert!Init => ConvertInv
<1> SUFFICES ASSUME Convert!Init PROVE ConvertInv
  OBVIOUS
<1> USE DEF Convert!Init
<1>1. \A f \in File : cout[f] = Convert!Absent
  BY ConvertSets
<1>2. Convert!Absent \in Convert!Dataset /\ ~Convert!Absent.there /\ Convert!Absent.rows = {}
  BY Zenon DEF Convert!Absent, Convert!Dataset
<1>3. ASSUME NEW f \in File
      PROVE  folder[f] \in DOMAIN Shapes /\ csv[f] \in Shapes[folder[f]]
  <2>1. folder \in [File -> DOMAIN Shapes]
    BY DeliveryAssumption, Zenon
  <2>2. csv[f] \in Shapes[folder[f]]
    BY ConvertSets, Zenon DEF Convert!Csvs
  <2> QED
    BY <2>1, <2>2
<1>4. ASSUME NEW f \in File
      PROVE  csv[f].lines \in 0..LinesPerCsv /\ (folder[f] # "tochi" => csv[f].header)
  <2>1. csv[f] \in [lines : 0..LinesPerCsv, header : BOOLEAN, key : BOOLEAN, short : BOOLEAN]
    BY <1>3, DeliveryAssumption
  <2>2. folder[f] # "tochi" => csv[f].header
    BY <1>3, DeliveryAssumption
  <2> QED
    BY <2>1, <2>2
<1>5. ConvertOK
  <2>1. 0 \in 0..MaxConversions
    BY DeliveryAssumption
  <2>2. cout \in [File -> Convert!Dataset]
    BY <1>2, ConvertSets
  <2> QED
    BY <1>4, <2>1, <2>2 DEF ConvertOK, Convert!NotRunning
<1>6. HoldsInv
  BY <1>1, <1>2 DEF HoldsInv, OneRun
<1>7. ProgressInv /\ VerifiedIsComplete
  BY DEF ProgressInv, VerifiedIsComplete, Convert!VerifiedIsComplete
<1> QED
  BY <1>5, <1>6, <1>7 DEF ConvertInv

LEMMA ConvertInvStep == ConvertInv /\ [Convert!Next]_cvars => ConvertInv'
BY ConvertOKStep, HoldsStep, ProgressStep, VerifiedStep DEF ConvertInv

-----------------------------------------------------------------------------
\* The two scripts side by side.  For the conversion, what the merge does is nothing.
LEMMA StepOfConversion == [DNext]_dvars => [Convert!Next]_cvars
BY DEF DNext, dvars, ConvertStep, BeginMerge, MergeFile, EndMerge

\* A step of the conversion after a clean end is a verification or a new run.
LEMMA TakenConvert == ConvertInv /\ TakenInv /\ ConvertStep => TakenInv'
<1> SUFFICES ASSUME ConvertInv, TakenInv, Convert!Next, UNCHANGED <<since, taken, merged>> PROVE TakenInv'
  <2>1. ASSUME NEW f \in File, ChangeFolder(f) PROVE merged' = merged
    BY <2>1 DEF ChangeFolder
  <2> QED
    BY <2>1 DEF ConvertStep, vars
<1>1. crun \in Nat
  BY DeliveryAssumption DEF ConvertInv, ConvertOK
<1>2. CASE \E s \in BOOLEAN : Convert!Start(s)
  <2>1. crun' = crun + 1
    BY <1>2 DEF Convert!Start
  <2> QED
    BY <1>1, <2>1 DEF TakenInv
<1>3. CASE crun' = crun /\ ~(since = crun /\ since # 0)
  BY <1>3 DEF TakenInv
<1>4. CASE Convert!Verify
  <2>1. UNCHANGED <<csv, cpc, crun, cskip, cfailed, clossy>>
    BY <1>4 DEF Convert!Verify, Convert!inputs
  <2> QED
    BY <2>1 DEF TakenInv, CleanlyConverted, Convert!Data, Convert!Line
<1>5. ASSUME NEW f \in File,
             Convert!EnterFolder(f) \/ Convert!SkipExisting(f) \/ Convert!Preprocess(f) \/ Convert!Ogr2ogr(f)
      PROVE  cpc # "ok" /\ crun' = crun
  BY <1>5, Zenon DEF Convert!EnterFolder, Convert!SkipExisting, Convert!Preprocess, Convert!Ogr2ogr
<1>6. Convert!Finish \/ Convert!Kill => cpc # "ok" /\ crun' = crun
  BY DEF Convert!Finish, Convert!Kill
<1>7. since = crun /\ since # 0 => cpc = "ok"
  BY DEF TakenInv, CleanlyConverted
<1> QED
  BY <1>2, <1>3, <1>4, <1>5, <1>6, <1>7, ConvertSets DEF Convert!Next

\* A file that is merged is as the clean conversion left it.
LEMMA TakenMerge ==
    ASSUME DeliveryInv, NEW f \in File, MergeFile(f)
    PROVE  TakenInv' /\ merged' \subseteq File /\ taken' \in [File -> SUBSET Convert!Row]
<1> USE DEF DeliveryInv
<1>1. UNCHANGED <<csv, cpc, crun, cskip, cfailed, clossy, since>>
  BY Zenon DEF MergeFile, cvars
<1>2. merged' \subseteq merged \union {f}
  BY Zenon DEF MergeFile, CreateFirst, AppendNext, MergedAfterFailure
<1>3. \/ f \notin merged' \ merged /\ taken' = taken
      \/ f \in merged' \ merged /\ taken' = [taken EXCEPT ![f] = cout[f].rows]
  BY Zenon DEF MergeFile
<1>4. cout[f].rows \in SUBSET Convert!Row
  BY Zenon DEF ConvertInv, ConvertOK, Convert!Dataset
<1>5. taken' \in [File -> SUBSET Convert!Row] /\ \A g \in File : g # f => taken'[g] = taken[g]
  BY <1>3, <1>4, Zenon
<1>6. since = crun /\ since # 0 => LeftBy(f) /\ ~cskip
  BY DEF TakenInv, CleanlyConverted, ConvertInv, ProgressInv
<1>7. ASSUME since = crun, since # 0, NEW g \in merged'
      PROVE  {row.pos : row \in taken'[g]} = Convert!Data(csv[g]) \/ g \in clossy
  <2>1. CASE g \in merged /\ taken'[g] = taken[g]
    BY <1>7, <2>1, Zenon DEF TakenInv
  <2>2. CASE g = f /\ taken'[f] = cout[f].rows
    BY <1>6, <1>7, <2>2, Zenon DEF LeftBy, Convert!Complete
  <2> QED
    BY <1>2, <1>3, <1>5, <1>7, <2>1, <2>2, Zenon
<1>8. TakenInv'
  BY <1>1, <1>2, <1>7, Zenon DEF TakenInv, CleanlyConverted, Convert!Data, Convert!Line
<1> QED
  BY <1>2, <1>5, <1>8

LEMMA DeliveryInvStep == DeliveryInv /\ [DNext]_dvars => DeliveryInv'
<1> SUFFICES ASSUME DeliveryInv, [DNext]_dvars PROVE DeliveryInv'
  OBVIOUS
<1> USE DEF DeliveryInv
<1>1. ConvertInv'
  BY ConvertInvStep, StepOfConversion
<1>2. CASE ConvertStep
  <2>1. merged' = merged
    BY <1>2 DEF ConvertStep, ChangeFolder, vars
  <2> QED
    BY <1>1, <1>2, <2>1, TakenConvert DEF ConvertStep
<1>3. CASE BeginMerge
  <2>1. /\ UNCHANGED <<csv, cpc, crun, cskip, cfailed, clossy, taken>> /\ merged' = {}
        /\ since' = IF CleanlyConverted THEN crun ELSE 0
    BY <1>3 DEF BeginMerge, StartRun, cvars
  <2>2. crun \in Nat
    BY DeliveryAssumption DEF ConvertInv, ConvertOK
  <2>3. TakenInv'
    <3>1. CASE CleanlyConverted
      <4>1. CleanlyConverted'
        BY <2>1, <3>1 DEF CleanlyConverted
      <4>2. since' = crun /\ crun' = crun /\ merged' = {}
        BY <2>1, <3>1
      <4> QED
        BY <2>2, <4>1, <4>2 DEF TakenInv
    <3>2. CASE ~CleanlyConverted
      <4>1. since' = 0 /\ crun' = crun /\ crun \in Nat
        BY <2>1, <2>2, <3>2
      <4> QED
        BY <2>1, <4>1 DEF TakenInv
    <3> QED
      BY <3>1, <3>2
  <2> QED
    BY <1>1, <2>1, <2>3
<1>4. ASSUME NEW f \in File, MergeFile(f) PROVE DeliveryInv'
  BY <1>1, <1>4, TakenMerge
<1>5. CASE EndMerge \/ UNCHANGED dvars
  <2>1. UNCHANGED <<csv, cpc, crun, cskip, cfailed, clossy, since, taken, merged>>
    BY <1>5 DEF EndMerge, Finish, Kill, dvars, cvars, vars
  <2>2. TakenInv'
    BY <2>1, Zenon DEF TakenInv, CleanlyConverted, Convert!Data, Convert!Line
  <2> QED
    BY <1>1, <2>1, <2>2
<1> QED
  BY <1>2, <1>3, <1>4, <1>5 DEF DNext

\* The invariant of the two scripts, from which the three properties follow.
LEMMA DeliveryInvHolds == DSpec => []DeliveryInv
<1>1. DInit => DeliveryInv
  <2> SUFFICES ASSUME DInit PROVE DeliveryInv
    OBVIOUS
  <2>1. ConvertInv
    BY ConvertInvInit DEF DInit
  <2>2. TakenInv
    <3>1. since = 0 /\ crun = 0
      BY DEF DInit, Convert!Init
    <3> QED
      BY <3>1 DEF TakenInv
  <2>3. merged \subseteq File /\ taken \in [File -> SUBSET Convert!Row]
    BY DEF DInit, Init
  <2> QED
    BY <2>1, <2>2, <2>3 DEF DeliveryInv
<1> QED
  BY <1>1, DeliveryInvStep, PTL DEF DSpec

\* Whatever the two scripts do at the same time: when the last conversion had ended
\* without -s and without FAILED=1 before the merge began, the lines of each CSV are
\* in the merged file, but for those a successful ogr2ogr left out.
THEOREM NothingIsLostOnTheWay == DSpec => []Delivered
<1>1. DeliveryInv => Delivered
  BY DEF DeliveryInv, TakenInv, Delivered
<1> QED
  BY <1>1, DeliveryInvHolds, PTL

\* The row counts verify_csv_geoparquet.py compares are enough: where it exits 0,
\* every CSV of a folder the conversion came to is complete, although a file of the
\* right length could have held other rows.
THEOREM VerifierIsRight == DSpec => []VerifiedIsComplete
<1>1. DeliveryInv => VerifiedIsComplete
  BY DEF DeliveryInv, ConvertInv
<1> QED
  BY <1>1, DeliveryInvHolds, PTL

\* What a conversion that ends without FAILED=1 leaves, after any sequence of runs,
\* failures and kills before it.
THEOREM CleanRunIsComplete == DSpec => []CleanRunLeaves
<1>1. DeliveryInv => CleanRunLeaves
  BY ConvertSets, Zenon DEF DeliveryInv, ConvertInv, ProgressInv, LeftBy, CleanRunLeaves, Convert!CleanRunLeaves
<1> QED
  BY <1>1, DeliveryInvHolds, PTL

\* For the merge, the conversion beside it is one more user of the folder.
THEOREM MergeWithinDelivery == DSpec => Spec
<1>1. DInit => Init
  BY DEF DInit
<1>2. [DNext]_dvars => [Next]_vars
  <2>1. ConvertStep => [Next]_vars
    BY DEF ConvertStep, Next
  <2>2. BeginMerge => Next
    BY DEF BeginMerge, Next
  <2>3. ASSUME NEW f \in File, MergeFile(f) PROVE Next
    BY <2>3 DEF MergeFile, Next
  <2>4. EndMerge => Next
    BY DEF EndMerge, Next
  <2>5. UNCHANGED dvars => UNCHANGED vars
    BY DEF dvars
  <2> QED
    BY <2>1, <2>2, <2>3, <2>4, <2>5 DEF DNext
<1> QED
  BY <1>1, <1>2, PTL DEF DSpec, Spec

\* Whatever the conversion does to the folder meanwhile, merge_toshi_geopackage.sh
\* keeps what it promises on its own: no stale rows, nothing counted that is not
\* there, and the abstract merge.
THEOREM MergeBesideConversion == DSpec => []NoStaleRows /\ []CountedIsComplete /\ ImplementsMerge
  BY MergeWithinDelivery, NoStaleRowsTheorem, CountedIsCompleteTheorem, MergeRefinement, PTL

=============================================================================
