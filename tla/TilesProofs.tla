---------------------------- MODULE TilesProofs ----------------------------
(***************************************************************************)
(* The tile pipelines for any number of layers, rows and runs: what the    *)
(* FlatGeobuf and PMTiles files hold comes from intermediate files that    *)
(* were made without error, and where no PMTiles were there before, "Done" *)
(* speaks of this run's data.                                              *)
(***************************************************************************)
EXTENDS Tiles, TLAPS

FilesOK ==
    /\ script \in {"shp", "pg", "14jyo", "gpkg"}
    /\ name \in [File -> File]
    /\ direct \in BOOLEAN /\ had \in BOOLEAN
    /\ todo \in SUBSET File
    /\ tmp \in Dataset /\ detour \in Dataset
    /\ mid \in [File -> Dataset] /\ fgb \in [File -> Dataset] /\ tiles \in [File -> Dataset]

\* Which commands each script has.
StepsOK ==
    /\ script \in {"shp", "pg"} => pc \in {"source", "fgb", "tiles"} \union NotRunning
    /\ script = "14jyo" => pc \in {"source", "tiles"} \union NotRunning /\ ~direct
    /\ script = "gpkg" => pc \in {"csv", "source", "tiles", "parquet", "again"} \union NotRunning

GoodRow(row) == <<row.run, IF script \in {"shp", "pg"} THEN row.file ELSE 1>> \in good

\* The intermediate file that is about to be read was made without error; the one
\* that shapefiles are appended to began with one that was.
SourceInv ==
    /\ script \in {"shp", "pg"} /\ pc \in {"fgb", "tiles"} =>
          \A f \in File : IsNext(f) => \A row \in mid[name[f]].rows : GoodRow(row)
    /\ script = "14jyo" /\ (pc = "tiles" \/ (pc = "source" /\ 1 \notin todo)) =>
          <<run, 1>> \in good /\ \A row \in mid[1].rows : GoodRow(row)

BrokenInv == FilesOK /\ StepsOK /\ SourceInv /\ NothingFromBroken

OfRun(d) == \A row \in d.rows : row.run = run

\* What this run has made so far.
ThisRun ==
    /\ script = "14jyo" /\ pc = "source" => OfRun(mid[1])
    /\ script = "gpkg" /\ pc = "source" => OfRun(tmp)
    /\ script \in {"14jyo", "gpkg"} /\ pc \in {"tiles", "parquet", "again"} /\ ~direct => OfRun(mid[1])

\* The one PMTiles file is not there until the run that is to make it ends.
NotYet ==
    script \in {"14jyo", "gpkg"} =>
        /\ pc \notin NotRunning /\ ~had => ~tiles[1].there
        /\ pc = "again" => detour.rows \subseteq mid[1].rows
        /\ pc \in {"csv", "source"} => ~direct

FreshInv == FilesOK /\ StepsOK /\ ThisRun /\ NotYet /\ DoneIsFresh

-----------------------------------------------------------------------------
\* There is a first layer.
LEMMA OneIsFile == 1 \in File
  BY OgrAssumption DEF File

\* The rows of a file, as this run reads them.
LEMMA RowsAre ==
    ASSUME NEW f \in File
    PROVE  Rows(f) \subseteq Row /\ \A row \in Rows(f) : row.run = run /\ row.file = f
  BY DEF Rows, Whole, Prefix

\* What a successful ogr2ogr leaves.
LEMMA MadeIs ==
    ASSUME NEW rows \in SUBSET Row, NEW e \in Made(rows)
    PROVE  e \in Dataset /\ e.there /\ e.rows \subseteq rows
<1>1. PICK part \in SUBSET rows : e = Holding(part)
  BY DEF Made
<1>2. part \in SUBSET Row
  OBVIOUS
<1> QED
  BY <1>1, <1>2 DEF Holding, Dataset

\* What any ogr2ogr leaves.
LEMMA BrokenIs ==
    ASSUME NEW rows \in SUBSET Row, NEW d \in Dataset, NEW e \in Broken(rows, d)
    PROVE  e \in Dataset /\ (e = d \/ e.rows \subseteq rows)
<1>1. Absent \in Dataset /\ Absent.rows = {}
  BY DEF Absent, Dataset
<1> QED
  BY <1>1, MadeIs DEF Broken

-----------------------------------------------------------------------------
\* Every file holds rows, whatever ogr2ogr made of it.
LEMMA FilesStep == FilesOK /\ [Next]_vars => FilesOK'
<1> SUFFICES ASSUME FilesOK, [Next]_vars PROVE FilesOK'
  OBVIOUS
<1>0. /\ \A f \in File : mid[f].rows \in SUBSET Row /\ mid[f] \in Dataset /\ name[f] \in File
      /\ \A f \in File : fgb[f] \in Dataset /\ tiles[f] \in Dataset
      /\ tmp.rows \in SUBSET Row /\ detour.rows \in SUBSET Row
      /\ Absent \in Dataset /\ 1 \in File
  BY OneIsFile DEF FilesOK, Dataset, Absent
<1> USE DEF FilesOK
<1>1. CASE Start
  <2>1. todo' \in SUBSET File /\ had' \in BOOLEAN /\ direct' \in BOOLEAN
    BY <1>0, <1>1 DEF Start, Dataset
  <2>2. mid' \in [File -> Dataset]
    BY <1>0, <1>1 DEF Start
  <2> QED
    BY <1>1, <2>1, <2>2 DEF Start
<1>2. CASE PreprocessCsv
  BY <1>0, <1>2, RowsAre, BrokenIs DEF PreprocessCsv, AfterZone
<1>3. CASE MakeGpkg
  <2>1. PICK d \in Made(tmp.rows) \union Broken(tmp.rows, mid[1]) : mid' = [mid EXCEPT ![1] = d]
    BY <1>3 DEF MakeGpkg
  <2>2. d \in Dataset
    BY <1>0, <2>1, MadeIs, BrokenIs
  <2> QED
    BY <1>0, <1>3, <2>1, <2>2 DEF MakeGpkg
<1>4. CASE EndLoop
  BY <1>4 DEF EndLoop, files
<1>5. ASSUME NEW f \in File, MakeParquet(f) PROVE FilesOK'
  BY <1>0, <1>5, RowsAre, MadeIs, BrokenIs DEF MakeParquet, ByCreating, ContinueAfterFailure, After
<1>6. ASSUME NEW f \in File, MakeFgb(f) PROVE FilesOK'
  <2>1. CASE UNCHANGED fgb
    BY <1>6, <2>1 DEF MakeFgb, After
  <2>2. CASE \E d \in Broken(mid[name[f]].rows, fgb[name[f]]) : fgb' = [fgb EXCEPT ![name[f]] = d]
    <3>1. PICK d \in Broken(mid[name[f]].rows, fgb[name[f]]) : fgb' = [fgb EXCEPT ![name[f]] = d]
      BY <2>2
    <3>2. d \in Dataset
      BY <1>0, <3>1, BrokenIs
    <3> QED
      BY <1>0, <1>6, <3>1, <3>2 DEF MakeFgb, After
  <2> QED
    BY <1>6, <2>1, <2>2 DEF MakeFgb
<1>7. ASSUME NEW f \in File, MergeShp(f) PROVE FilesOK'
  <2>1. CASE f = 1
    <3>1. PICK d \in Made(Rows(f)) \union Broken(Rows(f), mid[1]) : mid' = [mid EXCEPT ![1] = d]
      BY <1>7, <2>1 DEF MergeShp
    <3>2. d \in Dataset
      BY <1>0, <3>1, RowsAre, MadeIs, BrokenIs
    <3> QED
      BY <1>7, <2>1, <3>1, <3>2 DEF MergeShp, After
  <2>2. CASE f # 1
    <3>1. PICK d \in Made(Rows(f)) : mid' = [mid EXCEPT ![1] = Holding(mid[1].rows \union d.rows)]
      BY <1>7, <2>2 DEF MergeShp
    <3>2. d.rows \in SUBSET Row
      BY RowsAre, MadeIs
    <3>3. Holding(mid[1].rows \union d.rows) \in Dataset
      BY <1>0, <3>2 DEF Holding, Dataset
    <3> QED
      BY <1>7, <2>2, <3>1, <3>3 DEF MergeShp, After
  <2> QED
    BY <2>1, <2>2
<1>8. ASSUME NEW f \in File, MakeTiles(f) PROVE FilesOK'
  <2>1. PICK d \in Broken(mid[name[f]].rows, tiles[name[f]]) : tiles' = [tiles EXCEPT ![name[f]] = d]
    BY <1>8 DEF MakeTiles
  <2>2. d \in Dataset
    BY <1>0, <2>1, BrokenIs
  <2> QED
    BY <1>0, <1>8, <2>1, <2>2 DEF MakeTiles, After
<1>9. CASE MakeOneTiles
  <2>1. PICK d \in Broken(mid[1].rows, tiles[1]) : tiles' = [tiles EXCEPT ![1] = d]
    BY <1>9 DEF MakeOneTiles
  <2>2. d \in Dataset
    BY <1>0, <2>1, BrokenIs
  <2> QED
    BY <1>0, <1>9, <2>1, <2>2 DEF MakeOneTiles
<1>10. CASE DetourParquet
  BY <1>0, <1>10, MadeIs, BrokenIs DEF DetourParquet
<1>11. CASE DetourTiles
  <2>1. PICK d \in Broken(detour.rows, tiles[1]) : tiles' = [tiles EXCEPT ![1] = d]
    BY <1>11 DEF DetourTiles
  <2>2. d \in Dataset
    BY <1>0, <2>1, BrokenIs
  <2> QED
    BY <1>0, <1>11, <2>1, <2>2 DEF DetourTiles
<1>12. CASE Kill
  BY <1>12 DEF Kill, files
<1>13. CASE UNCHANGED vars
  BY <1>13 DEF vars
<1> QED
  BY <1>1, <1>2, <1>3, <1>4, <1>5, <1>6, <1>7, <1>8, <1>9, <1>10, <1>11, <1>12, <1>13 DEF Next

\* Each script keeps to its own commands.
LEMMA StepsStep == FilesOK /\ StepsOK /\ [Next]_vars => StepsOK'
<1> SUFFICES ASSUME FilesOK, StepsOK, [Next]_vars PROVE StepsOK'
  OBVIOUS
<1> USE DEF StepsOK, NotRunning, Goto
<1>1. CASE Start \/ PreprocessCsv \/ MakeGpkg \/ EndLoop \/ Kill
  BY <1>1 DEF Start, PreprocessCsv, MakeGpkg, EndLoop, Kill, FilesOK
<1>2. CASE MakeOneTiles \/ DetourParquet \/ DetourTiles
  BY <1>2 DEF MakeOneTiles, DetourParquet, ParquetFailed, DetourTiles
<1>3. ASSUME NEW f \in File, MakeParquet(f) \/ MakeFgb(f) \/ MergeShp(f) \/ MakeTiles(f)
      PROVE  StepsOK'
  BY <1>3 DEF MakeParquet, ContinueAfterFailure, MakeFgb, MergeShp, MakeTiles
<1>4. CASE UNCHANGED vars
  BY <1>4 DEF vars
<1> QED
  BY <1>1, <1>2, <1>3, <1>4 DEF Next

\* No action changes the script or takes back a good conversion.
LEMMA GoodStays == [Next]_vars => script' = script /\ name' = name /\ good \subseteq good'
  BY DEF Next, vars, Start, PreprocessCsv, MakeGpkg, EndLoop, MakeParquet, MakeFgb, MergeShp,
         MakeTiles, MakeOneTiles, DetourParquet, DetourTiles, Kill

\* What a script reads is good, and so is what it makes of it.
LEMMA BrokenStep == BrokenInv /\ [Next]_vars => SourceInv' /\ NothingFromBroken'
<1> SUFFICES ASSUME BrokenInv, [Next]_vars PROVE SourceInv' /\ NothingFromBroken'
  OBVIOUS
<1>0. /\ script' = script /\ name' = name
      /\ \A row : GoodRow(row) => GoodRow(row)'
      /\ \A f \in File : mid[f].rows \in SUBSET Row /\ mid[f] \in Dataset /\ name[f] \in File
      /\ \A f \in File : fgb[f] \in Dataset /\ tiles[f] \in Dataset
      /\ 1 \in File
  BY OneIsFile, GoodStays DEF BrokenInv, FilesOK, Dataset, GoodRow
<1>1. CASE script = "gpkg"
  BY <1>0, <1>1 DEF SourceInv, NothingFromBroken
<1> SUFFICES ASSUME script # "gpkg" PROVE SourceInv' /\ NothingFromBroken'
  BY <1>1
<1>2. ASSUME fgb' = fgb, tiles' = tiles PROVE NothingFromBroken'
  BY <1>0, <1>2 DEF BrokenInv, NothingFromBroken, GoodRow
<1>3. CASE Start
  <2>1. fgb' = fgb /\ tiles' = tiles
    BY <1>3 DEF Start
  <2>2. SourceInv'
    BY <1>0, <1>3 DEF Start, SourceInv, Goto
  <2> QED
    BY <1>2, <2>1, <2>2
<1>4. CASE EndLoop
  BY <1>0, <1>2, <1>4 DEF EndLoop, BrokenInv, SourceInv, Goto, files, GoodRow
<1>5. CASE Kill
  BY <1>0, <1>2, <1>5 DEF Kill, SourceInv, Goto, files
<1>6. ASSUME NEW f \in File, MakeParquet(f) PROVE SourceInv' /\ NothingFromBroken'
  <2>1. fgb' = fgb /\ tiles' = tiles
    BY <1>6 DEF MakeParquet
  <2>2. CASE ContinueAfterFailure(f)
    BY <1>0, <1>2, <1>6, <2>1, <2>2 DEF MakeParquet, ContinueAfterFailure, SourceInv, Goto
  <2>3. CASE ~ContinueAfterFailure(f)
    <3>1. PICK d \in Made(Rows(f)) : mid' = [mid EXCEPT ![name[f]] = d]
      BY <1>6, <2>3 DEF MakeParquet, ByCreating
    <3>2. good' = good \union {<<run, f>>} /\ todo' = todo /\ IsNext(f)
      BY <1>6, <2>3 DEF MakeParquet
    <3>3. mid'[name[f]].rows \subseteq Rows(f)
      BY <1>0, <3>1, RowsAre, MadeIs DEF BrokenInv, FilesOK
    <3>4. \A g \in File : IsNext(g)' => g = f
      BY <3>2 DEF IsNext, File
    <3>5. script \in {"shp", "pg"}
      BY <1>6 DEF MakeParquet
    <3> QED
      BY <1>0, <1>2, <2>1, <3>2, <3>3, <3>4, <3>5, RowsAre DEF SourceInv, GoodRow
  <2> QED
    BY <2>2, <2>3
<1>7. ASSUME NEW f \in File, MakeFgb(f) PROVE SourceInv' /\ NothingFromBroken'
  <2>1. tiles' = tiles /\ mid' = mid /\ script \in {"shp", "pg"} /\ IsNext(f)
    BY <1>7 DEF MakeFgb, BrokenInv, FilesOK, StepsOK, NotRunning
  <2>2. CASE UNCHANGED fgb
    BY <1>0, <1>2, <1>7, <2>1, <2>2 DEF MakeFgb, BrokenInv, SourceInv, Goto, IsNext
  <2>3. CASE \E d \in Broken(mid[name[f]].rows, fgb[name[f]]) : fgb' = [fgb EXCEPT ![name[f]] = d]
    <3>1. PICK d \in Broken(mid[name[f]].rows, fgb[name[f]]) : fgb' = [fgb EXCEPT ![name[f]] = d]
      BY <2>3
    <3>2. d = fgb[name[f]] \/ d.rows \subseteq mid[name[f]].rows
      BY <1>0, <3>1, BrokenIs
    <3>3. \A row \in mid[name[f]].rows : GoodRow(row)
      BY <1>7, <2>1 DEF MakeFgb, BrokenInv, SourceInv
    <3>4. \A g \in File : \A row \in fgb'[g].rows : row \in fgb[g].rows \/ GoodRow(row)
      BY <1>0, <3>1, <3>2, <3>3 DEF BrokenInv, FilesOK
    <3>5. NothingFromBroken'
      BY <1>0, <2>1, <3>4 DEF BrokenInv, NothingFromBroken, GoodRow
    <3>6. SourceInv'
      BY <1>0, <1>7, <2>1 DEF MakeFgb, BrokenInv, SourceInv, Goto, IsNext, After
    <3> QED
      BY <3>5, <3>6
  <2> QED
    BY <1>7, <2>2, <2>3 DEF MakeFgb
<1>8. ASSUME NEW f \in File, MergeShp(f) PROVE SourceInv' /\ NothingFromBroken'
  <2>1. /\ fgb' = fgb /\ tiles' = tiles /\ script = "14jyo" /\ run' = run
        /\ pc = "source" /\ pc' \in {"source", "error"} /\ IsNext(f)
    BY <1>8 DEF MergeShp, Goto
  <2>2. CASE pc' = "error"
    BY <1>0, <1>2, <2>1, <2>2 DEF SourceInv
  <2>3. CASE f = 1 /\ pc' = "source"
    <3>1. PICK d \in Made(Rows(1)) : mid' = [mid EXCEPT ![1] = d]
      BY <1>8, <2>3 DEF MergeShp, Goto
    <3>2. \A row \in mid'[1].rows : row.run = run
      BY <1>0, <3>1, RowsAre, MadeIs DEF BrokenInv, FilesOK
    <3>3. <<run, 1>> \in good'
      BY <1>8, <2>3 DEF MergeShp, Goto
    <3> QED
      BY <1>0, <1>2, <2>1, <2>3, <3>2, <3>3 DEF SourceInv, GoodRow
  <2>4. CASE f # 1
    <3>1. PICK d \in Made(Rows(f)) : mid' = [mid EXCEPT ![1] = Holding(mid[1].rows \union d.rows)]
      BY <1>8, <2>4 DEF MergeShp
    <3>2. \A row \in mid'[1].rows : row \in mid[1].rows \/ row.run = run
      BY <1>0, <3>1, RowsAre, MadeIs DEF BrokenInv, FilesOK, Holding
    <3>3. 1 \notin todo /\ good' = good
      BY <1>0, <1>8, <2>1, <2>4 DEF MergeShp, IsNext, File
    <3>4. <<run, 1>> \in good /\ \A row \in mid[1].rows : GoodRow(row)
      BY <2>1, <3>3 DEF BrokenInv, SourceInv
    <3> QED
      BY <1>0, <1>2, <2>1, <3>2, <3>3, <3>4 DEF SourceInv, GoodRow
  <2> QED
    BY <2>1, <2>2, <2>3, <2>4
<1>9. ASSUME NEW n \in File, NEW d \in Broken(mid[n].rows, tiles[n]),
             tiles' = [tiles EXCEPT ![n] = d], fgb' = fgb,
             \A row \in mid[n].rows : GoodRow(row)
      PROVE  NothingFromBroken'
  <2>1. d = tiles[n] \/ d.rows \subseteq mid[n].rows
    BY <1>0, BrokenIs
  <2>2. \A g \in File : \A row \in tiles'[g].rows : row \in tiles[g].rows \/ GoodRow(row)
    BY <1>0, <1>9, <2>1 DEF BrokenInv, FilesOK
  <2> QED
    BY <1>0, <1>9, <2>2 DEF BrokenInv, NothingFromBroken, GoodRow
<1>10. ASSUME NEW f \in File, MakeTiles(f) PROVE SourceInv' /\ NothingFromBroken'
  <2>1. script \in {"shp", "pg"} /\ pc = "tiles" /\ IsNext(f) /\ fgb' = fgb /\ pc' = "source"
    BY <1>10 DEF MakeTiles, Goto
  <2>2. \A row \in mid[name[f]].rows : GoodRow(row)
    BY <2>1 DEF BrokenInv, SourceInv
  <2>3. NothingFromBroken'
    BY <1>0, <1>9, <1>10, <2>1, <2>2 DEF MakeTiles
  <2> QED
    BY <1>0, <2>1, <2>3 DEF SourceInv
<1>11. CASE MakeOneTiles
  <2>1. script = "14jyo" /\ pc = "tiles" /\ fgb' = fgb /\ pc' \in {"ok", "error"}
    BY <1>11 DEF MakeOneTiles, Goto
  <2>2. \A row \in mid[1].rows : GoodRow(row)
    BY <2>1 DEF BrokenInv, SourceInv
  <2>3. NothingFromBroken'
    BY <1>0, <1>9, <1>11, <2>1, <2>2 DEF MakeOneTiles
  <2> QED
    BY <1>0, <2>1, <2>3 DEF SourceInv
<1>12. CASE PreprocessCsv \/ MakeGpkg \/ DetourParquet \/ DetourTiles
  BY <1>12 DEF PreprocessCsv, MakeGpkg, DetourParquet, DetourTiles, BrokenInv, FilesOK, StepsOK, NotRunning
<1>13. CASE UNCHANGED vars
  BY <1>2, <1>13 DEF vars, BrokenInv, SourceInv, IsNext, GoodRow
<1> QED
  BY <1>3, <1>4, <1>5, <1>6, <1>7, <1>8, <1>10, <1>11, <1>12, <1>13 DEF Next

\* A repository without files.
LEMMA TilesInit == Init => BrokenInv /\ FreshInv
<1> SUFFICES ASSUME Init PROVE BrokenInv /\ FreshInv
  OBVIOUS
<1>1. Absent \in Dataset /\ Absent.rows = {}
  BY DEF Absent, Dataset
<1>2. name \in [File -> File]
  BY OneIsFile, TilesAssumption DEF Init
<1>3. FilesOK /\ StepsOK
  BY <1>1, <1>2 DEF Init, FilesOK, StepsOK, NotRunning
<1>4. SourceInv /\ ThisRun /\ NotYet /\ DoneIsFresh
  BY DEF Init, SourceInv, ThisRun, NotYet, NotRunning, DoneIsFresh
<1>5. NothingFromBroken
  BY <1>1 DEF Init, NothingFromBroken
<1> QED
  BY <1>3, <1>4, <1>5 DEF BrokenInv, FreshInv

\* run_pipeline.sh, run_pipeline_pg.sh and run_pipeline_14jyo.sh derive no
\* FlatGeobuf or PMTiles row from an intermediate file that a failing ogr2ogr left,
\* for any number of layers, of rows and of runs, killed or not.
THEOREM NothingFromBrokenTheorem == Spec => []NothingFromBroken
<1>1. BrokenInv /\ [Next]_vars => BrokenInv'
  BY FilesStep, StepsStep, BrokenStep DEF BrokenInv
<1>2. BrokenInv => NothingFromBroken
  BY DEF BrokenInv
<1> QED
  BY TilesInit, <1>1, <1>2, PTL DEF Spec

-----------------------------------------------------------------------------
\* A run of the scripts with one output fills the GeoPackage, then the PMTiles.
LEMMA FreshStep == FreshInv /\ [Next]_vars => ThisRun' /\ NotYet' /\ DoneIsFresh'
<1> SUFFICES ASSUME FreshInv, [Next]_vars PROVE ThisRun' /\ NotYet' /\ DoneIsFresh'
  OBVIOUS
<1>0. /\ script' = script
      /\ mid \in [File -> Dataset] /\ tiles \in [File -> Dataset]
      /\ mid[1].rows \in SUBSET Row /\ mid[1] \in Dataset /\ tiles[1] \in Dataset
      /\ tmp \in Dataset /\ tmp.rows \in SUBSET Row /\ detour.rows \in SUBSET Row
      /\ Absent \in Dataset /\ Absent.rows = {} /\ 1 \in File
  BY OneIsFile, GoodStays DEF FreshInv, FilesOK, Dataset, Absent
<1>1. CASE script \in {"shp", "pg"}
  BY <1>0, <1>1 DEF ThisRun, NotYet, DoneIsFresh
<1> SUFFICES ASSUME script \in {"14jyo", "gpkg"} PROVE ThisRun' /\ NotYet' /\ DoneIsFresh'
  BY <1>1 DEF FreshInv, FilesOK
<1>2. CASE Start
  BY <1>0, <1>2 DEF Start, Goto, FreshInv, StepsOK, ThisRun, NotYet, DoneIsFresh, OfRun, NotRunning
<1>3. CASE PreprocessCsv
  <2>1. pc' = "source" => OfRun(tmp)'
    <3> SUFFICES ASSUME pc' = "source" PROVE OfRun(tmp)'
      OBVIOUS
    <3>1. tmp' \in Broken(Rows(1), Absent) /\ run' = run
      BY <1>3 DEF PreprocessCsv, AfterZone, Goto
    <3>2. tmp'.rows \subseteq Rows(1)
      BY <1>0, <3>1, RowsAre, BrokenIs
    <3> QED
      BY <1>0, <3>1, <3>2, RowsAre DEF OfRun
  <2> QED
    BY <1>0, <1>3, <2>1 DEF PreprocessCsv, Goto, FreshInv, StepsOK, ThisRun, NotYet, DoneIsFresh, NotRunning
<1>4. CASE MakeGpkg
  <2>1. pc' = "tiles" => OfRun(mid[1])'
    <3> SUFFICES ASSUME pc' = "tiles" PROVE OfRun(mid[1])'
      OBVIOUS
    <3>1. PICK d \in Made(tmp.rows) : mid' = [mid EXCEPT ![1] = d]
      BY <1>4 DEF MakeGpkg, Goto
    <3>2. d.rows \subseteq tmp.rows
      BY <1>0, <3>1, MadeIs
    <3>3. OfRun(tmp) /\ run' = run
      BY <1>4 DEF MakeGpkg, FreshInv, ThisRun
    <3> QED
      BY <1>0, <3>1, <3>2, <3>3 DEF OfRun
  <2> QED
    BY <1>0, <1>4, <2>1 DEF MakeGpkg, Goto, FreshInv, StepsOK, ThisRun, NotYet, DoneIsFresh, NotRunning
<1>5. CASE EndLoop
  BY <1>0, <1>5 DEF EndLoop, Goto, files, FreshInv, ThisRun, NotYet, DoneIsFresh, OfRun, NotRunning
<1>6. CASE Kill
  BY <1>0, <1>6 DEF Kill, Goto, files, ThisRun, NotYet, DoneIsFresh, NotRunning
<1>7. ASSUME NEW f \in File, MergeShp(f) PROVE ThisRun' /\ NotYet' /\ DoneIsFresh'
  <2>1. pc' = "source" => OfRun(mid[1])'
    <3> SUFFICES ASSUME pc' = "source" PROVE OfRun(mid[1])'
      OBVIOUS
    <3>1. OfRun(mid[1]) /\ run' = run
      BY <1>7 DEF MergeShp, FreshInv, ThisRun
    <3>2. PICK d \in Made(Rows(f)) :
             mid' = [mid EXCEPT ![1] = IF f = 1 THEN d ELSE Holding(mid[1].rows \union d.rows)]
      BY <1>7 DEF MergeShp, Goto
    <3>3. d.rows \subseteq Rows(f)
      BY <3>2, RowsAre, MadeIs
    <3>4. \A row \in mid'[1].rows : row \in mid[1].rows \union d.rows
      BY <1>0, <3>2 DEF Holding
    <3> QED
      BY <3>1, <3>3, <3>4, RowsAre DEF OfRun
  <2> QED
    BY <1>0, <1>7, <2>1 DEF MergeShp, Goto, FreshInv, ThisRun, NotYet, DoneIsFresh, NotRunning
<1>8. CASE MakeOneTiles
  <2>1. PICK d \in Broken(mid[1].rows, tiles[1]) : tiles' = [tiles EXCEPT ![1] = d]
    BY <1>8 DEF MakeOneTiles
  <2>2. tiles'[1] = d /\ (d = tiles[1] \/ d.rows \subseteq mid[1].rows)
    BY <1>0, <2>1, BrokenIs
  <2>3. ~had /\ tiles'[1].there => tiles'[1].rows \subseteq mid[1].rows
    BY <1>8, <2>2 DEF MakeOneTiles, FreshInv, NotYet, NotRunning
  <2>4. ~direct => OfRun(mid[1])
    BY <1>8 DEF MakeOneTiles, FreshInv, ThisRun
  <2>5. /\ mid' = mid /\ run' = run /\ direct' = direct /\ had' = had /\ detour' = detour
        /\ pc' = IF tiles'[1].there THEN "ok" ELSE IF script = "gpkg" THEN "parquet" ELSE "error"
    BY <1>8 DEF MakeOneTiles, Goto
  <2> QED
    BY <1>0, <2>3, <2>4, <2>5 DEF ThisRun, NotYet, DoneIsFresh, OfRun, NotRunning
<1>9. CASE DetourParquet
  <2>1. pc' = "again" => detour'.rows \subseteq mid[1].rows
    BY <1>0, <1>9, MadeIs DEF DetourParquet, Goto, ParquetFailed
  <2> QED
    BY <1>0, <1>9, <2>1 DEF DetourParquet, Goto, ParquetFailed, FreshInv, StepsOK, ThisRun, NotYet,
                            DoneIsFresh, OfRun, NotRunning
<1>10. CASE DetourTiles
  <2>1. PICK d \in Broken(detour.rows, tiles[1]) : tiles' = [tiles EXCEPT ![1] = d]
    BY <1>10 DEF DetourTiles
  <2>2. tiles'[1] = d /\ (d = tiles[1] \/ d.rows \subseteq detour.rows)
    BY <1>0, <2>1, BrokenIs
  <2>3. ~had /\ tiles'[1].there => tiles'[1].rows \subseteq mid[1].rows
    BY <1>10, <2>2 DEF DetourTiles, FreshInv, NotYet, NotRunning
  <2>4. ~direct => OfRun(mid[1])
    BY <1>10 DEF DetourTiles, FreshInv, ThisRun
  <2>5. /\ mid' = mid /\ run' = run /\ direct' = direct /\ had' = had
        /\ pc' = IF tiles'[1].there THEN "ok" ELSE "error"
    BY <1>10 DEF DetourTiles, Goto
  <2> QED
    BY <1>0, <2>3, <2>4, <2>5 DEF ThisRun, NotYet, DoneIsFresh, OfRun, NotRunning
<1>11. ASSUME NEW f \in File, MakeParquet(f) \/ MakeFgb(f) \/ MakeTiles(f) PROVE FALSE
  BY <1>11 DEF MakeParquet, MakeFgb, MakeTiles, FreshInv, StepsOK, NotRunning
<1>12. CASE UNCHANGED vars
  BY <1>12 DEF vars, FreshInv, ThisRun, NotYet, DoneIsFresh, OfRun
<1> QED
  BY <1>2, <1>3, <1>4, <1>5, <1>6, <1>7, <1>8, <1>9, <1>10, <1>11, <1>12 DEF Next

\* run_pipeline_14jyo.sh, gpkg_to_pmtiles.sh and single_csv_to_pmtiles.sh say "Done"
\* of a file that is there, and of this run's data where none was there before.
THEOREM DoneIsFreshTheorem == Spec => []DoneIsFresh
<1>1. FreshInv /\ [Next]_vars => FreshInv'
  BY FilesStep, StepsStep, FreshStep DEF FreshInv
<1>2. FreshInv => DoneIsFresh
  BY DEF FreshInv
<1> QED
  BY TilesInit, <1>1, <1>2, PTL DEF Spec

=============================================================================
