--------------------------- MODULE ScriptsProofs ---------------------------
(***************************************************************************)
(* Scripts that share nothing while they run, for any number of runs: the  *)
(* merges that choose the CRS file by file, and the build scripts with     *)
(* pg_start.sh.                                                            *)
(***************************************************************************)
EXTENDS MergeZukei, Setup, TLAPS

(***************************************************************************)
(* The merges that choose the CRS file by file: what a run counts is in    *)
(* its output, what it finds is not mixed with it, and it takes its        *)
(* temporary files along.                                                  *)
(***************************************************************************)

Running == {"zukei", "temp", "ogr", "convert", "remove"}

FilesOK ==
    /\ zscript \in {"tochi", "gaiku"}
    /\ zrun \in Nat
    /\ inputs \subseteq File /\ ztodo \subseteq File
    /\ merged \subseteq File /\ lost \subseteq File
    /\ first \in BOOLEAN /\ fresh \in BOOLEAN /\ stuck \in BOOLEAN
    /\ copied \in 0..RowsPerFile
    /\ gpkg.there \in BOOLEAN /\ (~gpkg.there => gpkg.rows = {})
    /\ zpc \in Running \union Ended
    /\ zpc \in {"convert", "remove"} => ToParquet

\* What the running merge has counted, but for what the copies lost.
CountedInv ==
    /\ zpc \in Running => \A f \in merged \ lost : Whole(zrun, f) \subseteq gpkg.rows
    /\ zpc \in Running /\ first => merged = {}
    /\ zpc = "temp" => copied = RowsPerFile
    /\ zpc = "ogr" => \A f \in ztodo : Current(f) => f \in lost \/ copied = RowsPerFile
    /\ zpc = "remove" => parquet.rows = gpkg.rows

CleanInv == zpc \in Running /\ fresh => \A row \in gpkg.rows : row.run = zrun

\* The one temporary copy a run has at a time.
TempsInv ==
    /\ \A t \in temps : t.run \in Nat /\ t.run <= zrun
    /\ zpc \in Running /\ ~stuck =>
          \A t \in temps : t.run = zrun =>
             zpc = "ogr" /\ source = "temp" /\ \E f \in ztodo : Current(f) /\ t = [run |-> zrun, file |-> f]

MergeInv ==
    /\ FilesOK /\ CountedInv /\ CleanInv /\ TempsInv
    /\ CountedIsComplete /\ FreshIsClean /\ TempsRemoved

-----------------------------------------------------------------------------
\* The initial state is one of them.
LEMMA InitMerge == ZInit => MergeInv
<1> SUFFICES ASSUME ZInit PROVE MergeInv
  OBVIOUS
<1>1. FilesOK
  <2>1. gpkg.there = FALSE /\ gpkg.rows = {}
    BY DEF ZInit, Absent
  <2>2. copied \in 0..RowsPerFile /\ zrun \in Nat
    BY OgrAssumption DEF ZInit
  <2> QED
    BY <2>1, <2>2 DEF ZInit, FilesOK, Running, Ended
<1>2. CountedInv /\ CleanInv /\ CountedIsComplete /\ FreshIsClean
  BY DEF ZInit, CountedInv, CleanInv, CountedIsComplete, FreshIsClean, Running
<1>3. TempsInv /\ TempsRemoved
  BY DEF ZInit, TempsInv, TempsRemoved, Running
<1> QED
  BY <1>1, <1>2, <1>3 DEF MergeInv

\* The rows of a file are of the run that wrote them.
LEMMA PrefixRows ==
    ASSUME NEW r, NEW f, NEW k
    PROVE  \A row \in Prefix(r, f, k) : row.run = r
BY DEF Prefix

\* What ogr2ogr leaves when it fails: behind a create nothing is counted yet,
\* an append keeps what is there, and what it adds is this run's.
LEMMA FailureKeeps ==
    ASSUME FilesOK, NEW f, NEW d \in OgrFailures(f)
    PROVE  /\ d.there \in BOOLEAN /\ (~d.there => d.rows = {})
           /\ ~first => gpkg.rows \subseteq d.rows
           /\ \A row \in d.rows : row \in gpkg.rows \/ row.run = zrun
<1>1. CASE d = gpkg
  BY <1>1 DEF FilesOK
<1>2. CASE first /\ d = Absent
  BY <1>2 DEF Absent
<1>3. CASE \E k \in 0..copied - 1 : d = Holding(Kept \union Prefix(zrun, f, k))
  <2>1. PICK k : d = [there |-> TRUE, rows |-> Kept \union Prefix(zrun, f, k)]
    BY <1>3 DEF Holding
  <2>2. d.there = TRUE /\ d.rows = Kept \union Prefix(zrun, f, k)
    BY <2>1
  <2> QED
    BY <2>2, PrefixRows DEF Kept
<1> QED
  BY <1>1, <1>2, <1>3 DEF OgrFailures

\* What it leaves when it succeeds.
LEMMA ResultKeeps ==
    ASSUME NEW f
    PROVE  /\ OgrResult(f).there = TRUE
           /\ OgrResult(f).rows = Kept \union Prefix(zrun, f, copied)
BY DEF OgrResult, Holding

\* The first file of the list is one file.
LEMMA CurrentIsOne ==
    ASSUME FilesOK, NEW f, NEW g, Current(f), Current(g)
    PROVE  f = g
<1>1. f \in Nat /\ g \in Nat
  BY OgrAssumption DEF Current, FilesOK, File
<1> QED
  BY <1>1 DEF Current

\* The types, and which steps each script has.
LEMMA FilesStep == FilesOK /\ [ZNext]_zvars => FilesOK'
<1> SUFFICES ASSUME FilesOK, [ZNext]_zvars PROVE FilesOK'
  OBVIOUS
<1> USE OgrAssumption DEF FilesOK, Running, Ended, ToParquet
<1>1. CASE StartRun
  <2>1. fresh' \in BOOLEAN
    BY <1>1 DEF StartRun
  <2>2. copied' \in 0..RowsPerFile /\ zrun' \in Nat
    BY <1>1 DEF StartRun
  <2> QED
    BY <1>1, <2>1, <2>2 DEF StartRun
<1>2. ASSUME NEW f \in File, GetZukei(f) PROVE FilesOK'
  BY <1>2 DEF GetZukei
<1>3. ASSUME NEW f \in File, MakeTemp(f) PROVE FilesOK'
  <2>1. copied' \in 0..RowsPerFile /\ stuck' \in BOOLEAN /\ lost' \subseteq File
    BY <1>3 DEF MakeTemp, CopiedFeatures
  <2> QED
    BY <1>3, <2>1 DEF MakeTemp
<1>4. ASSUME NEW f \in File, RunOgr(f) PROVE FilesOK'
  <2>1. gpkg'.there \in BOOLEAN /\ (~gpkg'.there => gpkg'.rows = {})
    BY <1>4, FailureKeeps, ResultKeeps DEF RunOgr
  <2>2. fresh' \in BOOLEAN /\ stuck' \in BOOLEAN /\ merged' \subseteq File
    BY <1>4 DEF RunOgr, CountFailed, UnlinkTemp
  <2> QED
    BY <1>4, <2>1, <2>2 DEF RunOgr
<1>5. ASSUME NEW f \in File, ChangeFolder(f) PROVE FilesOK'
  BY <1>5 DEF ChangeFolder
<1>6. CASE EndZukei
  BY <1>6 DEF EndZukei, AfterLoop
<1>7. CASE ConvertParquet
  BY <1>7 DEF ConvertParquet
<1>8. CASE RemoveGpkg
  <2>1. gpkg'.there \in BOOLEAN /\ (~gpkg'.there => gpkg'.rows = {}) /\ stuck' \in BOOLEAN
    <3>1. CASE gpkg' = Absent /\ stuck' = stuck
      BY <3>1 DEF Absent
    <3>2. CASE stuck' = TRUE /\ gpkg' = gpkg
      BY <3>2
    <3> QED
      BY <1>8, <3>1, <3>2 DEF RemoveGpkg
  <2> QED
    BY <1>8, <2>1 DEF RemoveGpkg
<1>9. CASE Crash
  <2>1. gpkg'.there \in BOOLEAN /\ (~gpkg'.there => gpkg'.rows = {})
    BY <1>9, FailureKeeps DEF Crash
  <2> QED
    BY <1>9, <2>1 DEF Crash
<1>10. CASE UNCHANGED zvars
  BY <1>10 DEF zvars
<1> QED
  BY <1>1, <1>2, <1>3, <1>4, <1>5, <1>6, <1>7, <1>8, <1>9, <1>10 DEF ZNext

\* What was counted stays in the GeoPackage until the run ends.
LEMMA CountedStep == FilesOK /\ CountedInv /\ CountedIsComplete /\ [ZNext]_zvars => CountedInv' /\ CountedIsComplete'
<1> SUFFICES ASSUME FilesOK, CountedInv, CountedIsComplete, [ZNext]_zvars PROVE CountedInv' /\ CountedIsComplete'
  OBVIOUS
<1> USE DEF CountedInv, CountedIsComplete, Running, Ended
<1>1. CASE StartRun
  BY <1>1 DEF StartRun
<1>2. ASSUME NEW f \in File, GetZukei(f) PROVE CountedInv' /\ CountedIsComplete'
  BY <1>2 DEF GetZukei, ToParquet
<1>3. ASSUME NEW f \in File, MakeTemp(f) PROVE CountedInv' /\ CountedIsComplete'
  <2>1. /\ zpc = "temp" /\ zpc' = "ogr" /\ Current(f) /\ UNCHANGED <<ztodo, merged, gpkg, zrun, first>>
        /\ lost \subseteq lost' /\ copied \in 0..RowsPerFile
        /\ copied' \in 0..RowsPerFile /\ (copied' < RowsPerFile => f \in lost')
    BY <1>3 DEF MakeTemp, CopiedFeatures, FilesOK
  <2>2. \A g \in ztodo' : Current(g)' => g = f
    BY <2>1, CurrentIsOne DEF Current
  <2> QED
    BY <2>1, <2>2, OgrAssumption
<1>4. ASSUME NEW f \in File, RunOgr(f) PROVE CountedInv' /\ CountedIsComplete'
  <2>1. zpc = "ogr" /\ zpc' = "zukei" /\ first' = FALSE /\ UNCHANGED <<zrun, lost>> /\ Current(f)
    BY <1>4 DEF RunOgr
  <2>2. f \in lost \/ copied = RowsPerFile
    BY <2>1 DEF Current
  <2>3. \A g \in merged' \ lost : Whole(zrun, g) \subseteq gpkg'.rows
    <3>1. CASE gpkg' = OgrResult(f) /\ merged' = merged \union {f}
      BY <2>1, <2>2, <3>1, ResultKeeps DEF Kept, Whole
    <3>2. CASE gpkg' \in OgrFailures(f) /\ merged' = merged
      BY <2>1, <3>2, FailureKeeps DEF FilesOK
    <3> QED
      BY <1>4, <3>1, <3>2 DEF RunOgr, CountFailed
  <2> QED
    BY <2>1, <2>3
<1>5. ASSUME NEW f \in File, ChangeFolder(f) PROVE CountedInv' /\ CountedIsComplete'
  BY <1>5 DEF ChangeFolder, Current, Output, ToParquet
<1>6. CASE EndZukei
  BY <1>6 DEF EndZukei, AfterLoop, Output, ToParquet
<1>7. CASE ConvertParquet
  BY <1>7 DEF ConvertParquet
<1>8. CASE RemoveGpkg
  BY <1>8 DEF RemoveGpkg, Output, FilesOK, ToParquet
<1>9. CASE Crash
  BY <1>9 DEF Crash
<1>10. CASE UNCHANGED zvars
  BY <1>10 DEF zvars, Current, Output, ToParquet
<1> QED
  BY <1>1, <1>2, <1>3, <1>4, <1>5, <1>6, <1>7, <1>8, <1>9, <1>10 DEF ZNext

\* Where nothing was there, or a create has succeeded, all rows are this run's.
LEMMA CleanStep ==
    FilesOK /\ CountedInv /\ CleanInv /\ FreshIsClean /\ [ZNext]_zvars => CleanInv' /\ FreshIsClean'
<1> SUFFICES ASSUME FilesOK, CountedInv, CleanInv, FreshIsClean, [ZNext]_zvars PROVE CleanInv' /\ FreshIsClean'
  OBVIOUS
<1> USE DEF CleanInv, FreshIsClean, Running, Ended
<1>1. CASE StartRun
  BY <1>1 DEF StartRun, FilesOK
<1>2. ASSUME NEW f \in File, GetZukei(f) PROVE CleanInv' /\ FreshIsClean'
  BY <1>2 DEF GetZukei
<1>3. ASSUME NEW f \in File, MakeTemp(f) PROVE CleanInv' /\ FreshIsClean'
  BY <1>3 DEF MakeTemp
<1>4. ASSUME NEW f \in File, RunOgr(f) PROVE CleanInv' /\ FreshIsClean'
  <2>1. zpc = "ogr" /\ zpc' = "zukei" /\ zrun' = zrun
    BY <1>4 DEF RunOgr
  <2>2. CASE gpkg' = OgrResult(f) /\ fresh' = (fresh \/ first)
    <3>1. gpkg'.rows = Kept \union Prefix(zrun, f, copied)
      BY <2>2, ResultKeeps
    <3>2. CASE first
      BY <2>1, <3>1, <3>2, PrefixRows DEF Kept
    <3>3. CASE ~first
      <4>1. Kept = gpkg.rows /\ (fresh' => fresh)
        BY <2>2, <3>3 DEF Kept
      <4>2. \A row \in gpkg'.rows : row \in gpkg.rows \/ row.run = zrun
        BY <3>1, <4>1, PrefixRows
      <4> QED
        BY <2>1, <4>1, <4>2
    <3> QED
      BY <3>2, <3>3
  <2>3. CASE gpkg' \in OgrFailures(f) /\ fresh' = fresh
    BY <2>1, <2>3, FailureKeeps
  <2> QED
    BY <1>4, <2>2, <2>3 DEF RunOgr
<1>5. ASSUME NEW f \in File, ChangeFolder(f) PROVE CleanInv' /\ FreshIsClean'
  BY <1>5 DEF ChangeFolder, Output, ToParquet
<1>6. CASE EndZukei
  BY <1>6 DEF EndZukei, AfterLoop, Output, ToParquet
<1>7. CASE ConvertParquet
  BY <1>7 DEF ConvertParquet
<1>8. CASE RemoveGpkg
  BY <1>8 DEF RemoveGpkg, Output, FilesOK, ToParquet, CountedInv
<1>9. CASE Crash
  BY <1>9 DEF Crash
<1>10. CASE UNCHANGED zvars
  BY <1>10 DEF zvars, Output, ToParquet
<1> QED
  BY <1>1, <1>2, <1>3, <1>4, <1>5, <1>6, <1>7, <1>8, <1>9, <1>10 DEF ZNext

\* A run has one temporary copy at a time, and unlinks it.
LEMMA TempsStep ==
    FilesOK /\ TempsInv /\ TempsRemoved /\ [ZNext]_zvars => TempsInv' /\ TempsRemoved'
<1> SUFFICES ASSUME FilesOK, TempsInv, TempsRemoved, [ZNext]_zvars PROVE TempsInv' /\ TempsRemoved'
  OBVIOUS
<1> USE DEF TempsInv, TempsRemoved, Running, Ended
<1>1. CASE StartRun
  BY <1>1 DEF StartRun, FilesOK
<1>2. ASSUME NEW f \in File, GetZukei(f) PROVE TempsInv' /\ TempsRemoved'
  BY <1>2 DEF GetZukei
<1>3. ASSUME NEW f \in File, MakeTemp(f) PROVE TempsInv' /\ TempsRemoved'
  <2>1. zpc = "temp" /\ zpc' = "ogr" /\ UNCHANGED <<ztodo, zrun>> /\ Current(f) /\ f \in ztodo
    BY <1>3 DEF MakeTemp, Current
  <2>2. Current(f)'
    BY <2>1 DEF Current
  <2>3. \/ source' = "temp" /\ temps' = temps \union {[run |-> zrun, file |-> f]} /\ stuck' = stuck
        \/ temps' = temps /\ stuck' = stuck
        \/ temps' = temps \union {[run |-> zrun, file |-> f]} /\ stuck' = TRUE
    BY <1>3 DEF MakeTemp
  <2> QED
    BY <2>1, <2>2, <2>3 DEF FilesOK
<1>4. ASSUME NEW f \in File, RunOgr(f) PROVE TempsInv' /\ TempsRemoved'
  <2>1. zpc = "ogr" /\ zpc' = "zukei" /\ zrun' = zrun /\ Current(f)
    BY <1>4 DEF RunOgr
  <2>2. \/ temps' = (IF source = "temp" THEN temps \ {[run |-> zrun, file |-> f]} ELSE temps) /\ stuck' = stuck
        \/ stuck' = TRUE /\ temps' = temps
    BY <1>4 DEF RunOgr, UnlinkTemp
  <2>3. ~stuck => \A t \in temps : t.run = zrun => source = "temp" /\ t = [run |-> zrun, file |-> f]
    BY <2>1, CurrentIsOne
  <2> QED
    BY <2>1, <2>2, <2>3
<1>5. ASSUME NEW f \in File, ChangeFolder(f) PROVE TempsInv' /\ TempsRemoved'
  BY <1>5 DEF ChangeFolder, Current
<1>6. CASE EndZukei
  BY <1>6 DEF EndZukei, AfterLoop
<1>7. CASE ConvertParquet
  BY <1>7 DEF ConvertParquet
<1>8. CASE RemoveGpkg
  BY <1>8 DEF RemoveGpkg
<1>9. CASE Crash
  <2>1. zpc' = "crashed" /\ zrun' = zrun
    BY <1>9 DEF Crash
  <2>2. temps' = temps \/ \E f : temps' = temps \union {[run |-> zrun, file |-> f]}
    BY <1>9 DEF Crash
  <2> QED
    BY <2>1, <2>2 DEF FilesOK
<1>10. CASE UNCHANGED zvars
  BY <1>10 DEF zvars, Current
<1> QED
  BY <1>1, <1>2, <1>3, <1>4, <1>5, <1>6, <1>7, <1>8, <1>9, <1>10 DEF ZNext

\* Every step preserves the invariant.
LEMMA MergeStep == MergeInv /\ [ZNext]_zvars => MergeInv'
BY FilesStep, CountedStep, CleanStep, TempsStep DEF MergeInv

\* The count that merge_tochi_geopackage.py and merge_gaiku_geoparquet.py print
\* is true of the file they deliver, whatever ogr2ogr fails at in between, for
\* any number of files and features (but for features that a temporary copy lost).
THEOREM CountIsTrue == ZSpec => []CountedIsComplete
<1>1. MergeInv => CountedIsComplete
  BY DEF MergeInv
<1> QED
  BY <1>1, InitMerge, MergeStep, PTL DEF ZSpec

\* A run that began without a GeoPackage, or whose create command succeeded,
\* delivers no row of an earlier run.
THEOREM FreshOutputIsClean == ZSpec => []FreshIsClean
<1>1. MergeInv => FreshIsClean
  BY DEF MergeInv
<1> QED
  BY <1>1, InitMerge, MergeStep, PTL DEF ZSpec

\* A run that ends by itself and whose unlinks succeed has unlinked every
\* temporary copy it made, also behind a failed ogr2ogr.
THEOREM NoTempIsLeft == ZSpec => []TempsRemoved
<1>1. MergeInv => TempsRemoved
  BY DEF MergeInv
<1> QED
  BY <1>1, InitMerge, MergeStep, PTL DEF ZSpec

-----------------------------------------------------------------------------
(***************************************************************************)
(* From a fresh copy to a database cluster: what the build scripts         *)
(* promise, and that the files pg_start.sh tests for stand for what it     *)
(* needs.                                                                  *)
(***************************************************************************)

svars == <<bvars, dvars>>

Active == {"guard"} \union Db!Working

\* Within build_postgresql.sh, after it has decided to build.
Building == InPgBuild /\ step \in {"fetch", "move", "make", "install"}

\* Files come in the order of the installation; an installation that nobody is
\* working on is complete or was broken off.
InstallInv ==
    /\ "pg_ctl" \in installed => "initdb" \in installed
    /\ "initdb" \in installed => "postgres" \in installed
    /\ "postgres" \in installed /\ ~Building => installed = Everything \/ torn
    /\ product = "postgis" /\ Building => PgFiles \subseteq installed
    /\ InPgBuild /\ step = "ok" => installed = Everything \/ torn

\* What build_gdal_full.sh saw of Arrow is still there while it runs, and the cache
\* is younger than that.
ArrowInv ==
    /\ product = "gdal" /\ saw /\ step \notin Stopped => arrow = ArrowFiles
    /\ product = "gdal" /\ saw /\ step = "install" => cache = "parquet"
    /\ product = "gdal" /\ saw /\ step = "ok" => gdal = "parquet"

BuildInv == BTypeOK /\ InstallInv /\ ArrowInv

\* pg_start.sh and the builds do not overlap.
ToolsInv == Starting => step \in Stopped /\ "pg_ctl" \in installed

\* What the one initdb that may be at work has made of the directory so far.
MadeSoFar(c) ==
    /\ dpc[c] \in {"none", "guard", "check", "mkdir"} => mode[c] = "none"
    /\ dpc[c] = "check" => "PG_VERSION" \notin dir.files
    /\ dpc[c] \in {"mkdir", "subdirs"} => dir.files = {}
    /\ dpc[c] = "version" => dir.files = {"pg_wal"}
    /\ dpc[c] = "bootstrap" => dir.files = {"pg_wal", "PG_VERSION"}
    /\ dpc[c] \in {"subdirs", "version", "bootstrap"} => dir.exists /\ mode[c] # "none"
    /\ dpc[c] = "cleanup" /\ mode[c] = "none" => "PG_VERSION" \notin dir.files

AloneInv == \A c, d \in Db!Script : dpc[c] \in Active /\ dpc[d] \in Active => c = d

ClusterInv ==
    ~killed =>
        /\ \A c \in Db!Script : MadeSoFar(c)
        /\ \A c, d \in Db!Script : dpc[c] = "go" => dpc[d] \notin Db!Working
        /\ \A c \in Db!Script : dpc[c] = "go" => Db!Complete \subseteq dir.files
        /\ "PG_VERSION" \in dir.files =>
              \/ Db!Complete \subseteq dir.files
              \/ \E c \in Db!Script : dpc[c] \in {"bootstrap", "cleanup"} /\ mode[c] # "none"

SetupInv == BuildInv /\ ToolsInv /\ Db!TypeOK /\ AloneInv /\ ClusterInv

-----------------------------------------------------------------------------
\* The files of an installed PostgreSQL that the scripts name.
LEMMA PgFilesAre == PgFiles = {"postgres", "initdb", "pg_ctl"}
  BY DEF PgFiles, InstallOrder

\* What make install may write next.
LEMMA NextFile ==
    ASSUME NEW f \in NextFiles
    PROVE  /\ f \in PgFiles
           /\ f = "initdb" => "postgres" \in installed
           /\ f = "pg_ctl" => "initdb" \in installed
  BY DEF NextFiles, PgFiles, InstallOrder

\* The steps of the build scripts keep their invariant.
LEMMA BuildStep == BuildInv /\ BNext => BuildInv'
<1> SUFFICES ASSUME BuildInv, BNext PROVE BuildInv'
  OBVIOUS
<1> USE DEF BuildInv, BTypeOK, InstallInv, ArrowInv, Building, InPgBuild, Stopped, Product
<1>1. CASE StartBuild
  BY <1>1 DEF StartBuild
<1>2. CASE GuardBuild
  BY <1>2 DEF GuardBuild, HasPostgres
<1>3. CASE Fetch
  BY <1>3 DEF Fetch
<1>4. CASE Move
  BY <1>4 DEF Move
<1>5. CASE Make
  BY <1>5 DEF Make, Configured, CacheToUse, Detected, ArrowFiles
<1>6. CASE InstallPg
  <2>1. CASE \E f \in NextFiles : installed' = installed \union {f} /\ UNCHANGED <<product, step>>
    BY <1>6, <2>1, NextFile DEF InstallPg, Everything
  <2>2. CASE PgFiles \subseteq installed /\ product' = "postgis" /\ step' = "fetch" /\ UNCHANGED installed
    BY <1>6, <2>2 DEF InstallPg
  <2> QED
    BY <1>6, <2>1, <2>2 DEF InstallPg
<1>7. CASE InstallPostgis
  BY <1>7, PgFilesAre DEF InstallPostgis, Everything
<1>8. CASE InstallArrow
  BY <1>8 DEF InstallArrow
<1>9. CASE InstallGdal
  BY <1>9 DEF InstallGdal
<1>10. CASE Break
  BY <1>10 DEF Break, HasPostgres, Configured, CacheToUse, Detected
<1>11. CASE Remove
  <2>1. CASE installed' = {} /\ UNCHANGED arrow
    BY <1>11, <2>1 DEF Remove
  <2>2. CASE arrow' = {} /\ UNCHANGED <<installed, torn>>
    BY <1>11, <2>2 DEF Remove
  <2> QED
    BY <1>11, <2>1, <2>2 DEF Remove
<1> QED
  BY <1>1, <1>2, <1>3, <1>4, <1>5, <1>6, <1>7, <1>8, <1>9, <1>10, <1>11 DEF BNext

-----------------------------------------------------------------------------
\* pg_start.sh begins only behind its test for bin/pg_ctl, and nothing is installed
\* or removed while it runs.
LEMMA ToolsStep == ToolsInv /\ BuildInv /\ Db!TypeOK /\ [SNext]_svars => ToolsInv'
<1> SUFFICES ASSUME ToolsInv, BuildInv, Db!TypeOK, [SNext]_svars PROVE ToolsInv'
  OBVIOUS
<1> USE DEF ToolsInv, Starting, Db!Working
<1>1. CASE Build
  BY <1>1 DEF Build, dvars
<1>2. ASSUME NEW c \in Db!Script, PgStart(c) PROVE ToolsInv'
  <2>1. /\ step' = step /\ installed' = installed /\ step \in Stopped
        /\ dpc[c] = "none" => "pg_ctl" \in installed
    BY <1>2 DEF PgStart, TestPgCtl, bvars
  <2>2. \E where : dpc' = [dpc EXCEPT ![c] = where] /\ (dpc[c] \in Active \/ dpc[c] = "none")
    BY <1>2 DEF PgStart, Db!Step, Db!Start, Db!Guard, Db!CheckDir, Db!MakeDir, Db!MakeSubdirs,
                Db!WriteVersion, Db!Bootstrap, Db!Fail, Db!Cleanup, Db!Kill, Db!Adds, Db!Goto, Active
  <2>3. \A d \in Db!Script : d # c => dpc'[d] = dpc[d]
    BY <2>2 DEF Db!TypeOK
  <2> QED
    BY <2>1, <2>2, <2>3 DEF Active
<1>3. CASE UNCHANGED svars
  BY <1>3 DEF svars, bvars, dvars
<1> QED
  BY <1>1, <1>2, <1>3 DEF SNext

\* What a step of initdb leaves of the data directory.
LEMMA AddsType ==
    ASSUME Db!TypeOK, NEW c \in Db!Script, NEW ok, NEW f \in Db!Files,
           NEW next \in {"version", "bootstrap", "go"},
           Db!Adds(c, ok, f, next), UNCHANGED <<mode, killed>>
    PROVE  Db!TypeOK'
<1> USE DEF Db!TypeOK, Db!Goto, Db!Working, Db!Adds
<1>1. CASE dir' = Db!With(dir.files \union {f}) /\ Db!Goto(c, next)
  <2>1. dir.files \union {f} \in SUBSET Db!Files
    OBVIOUS
  <2>2. dir' \in [exists : BOOLEAN, files : SUBSET Db!Files] /\ dir'.exists
    BY <1>1, <2>1 DEF Db!With
  <2> QED
    BY <1>1, <2>2
<1>2. CASE Db!Goto(c, "cleanup") /\ UNCHANGED dir
  BY <1>2
<1> QED
  BY <1>1, <1>2

\* The steps of pg_start.sh keep the types.
LEMMA TypeStep ==
    ASSUME Db!TypeOK, NEW c \in Db!Script, Db!Step(c) PROVE Db!TypeOK'
<1>1. CASE Db!Start(c)
  BY <1>1 DEF Db!Start, Db!TypeOK, Db!Goto, Db!Working
<1>2. CASE Db!Guard(c)
  BY <1>2 DEF Db!Guard, Db!TypeOK, Db!Goto, Db!Working
<1>3. CASE Db!CheckDir(c)
  BY <1>3 DEF Db!CheckDir, Db!TypeOK, Db!Goto, Db!Working
<1>4. CASE Db!MakeDir(c)
  BY <1>4 DEF Db!MakeDir, Db!With, Db!TypeOK, Db!Goto, Db!Working
<1>5. CASE Db!MakeSubdirs(c)
  BY <1>5, AddsType DEF Db!MakeSubdirs, Db!Files
<1>6. CASE Db!WriteVersion(c)
  BY <1>6, AddsType DEF Db!WriteVersion, Db!Files
<1>7. CASE Db!Bootstrap(c)
  BY <1>7, AddsType DEF Db!Bootstrap, Db!Files
<1>8. CASE Db!Fail(c)
  BY <1>8 DEF Db!Fail, Db!TypeOK, Db!Goto, Db!Working
<1>9. CASE Db!Cleanup(c)
  BY <1>9 DEF Db!Cleanup, Db!Cleaned, Db!Absent, Db!TypeOK, Db!Goto, Db!Working
<1>10. CASE Db!Kill(c)
  BY <1>10 DEF Db!Kill, Db!TypeOK, Db!Goto, Db!Working
<1> QED
  BY <1>1, <1>2, <1>3, <1>4, <1>5, <1>6, <1>7, <1>8, <1>9, <1>10 DEF Db!Step

\* One initdb at a time.
LEMMA AloneStep ==
    ASSUME Db!TypeOK, AloneInv, NEW c \in Db!Script, Db!Step(c) PROVE AloneInv'
<1> USE DEF Db!TypeOK, AloneInv, Active, Db!Goto, Db!Working
<1>1. CASE Db!Start(c)
  BY <1>1 DEF Db!Start
<1>2. CASE ~Db!Start(c)
  <2>1. \E where : dpc' = [dpc EXCEPT ![c] = where] /\ dpc[c] \in Active
    BY <1>2 DEF Db!Step, Db!Guard, Db!CheckDir, Db!MakeDir, Db!MakeSubdirs, Db!WriteVersion,
                Db!Bootstrap, Db!Fail, Db!Cleanup, Db!Kill, Db!Adds
  <2> QED
    BY <2>1
<1> QED
  BY <1>1, <1>2

\* What is in the directory, step by step: PG_VERSION without a complete cluster
\* only while the initdb that wrote it runs.
LEMMA ClusterStep ==
    ASSUME Db!TypeOK, AloneInv, ClusterInv, NEW c \in Db!Script, Db!Step(c) PROVE ClusterInv'
<1> USE DEF ClusterInv, MadeSoFar, Db!Complete, Db!Goto, Db!Working
<1>1. CASE Db!Start(c)
  BY <1>1 DEF Db!Start, Db!TypeOK
<1>2. CASE Db!Guard(c)
  BY <1>2 DEF Db!Guard, Db!TypeOK, AloneInv, Active
<1>3. CASE Db!CheckDir(c)
  BY <1>3 DEF Db!CheckDir, Db!TypeOK, AloneInv, Active
<1>4. CASE Db!MakeDir(c)
  BY <1>4 DEF Db!MakeDir, Db!With, Db!TypeOK, AloneInv, Active
<1>5. CASE Db!MakeSubdirs(c)
  BY <1>5 DEF Db!MakeSubdirs, Db!Adds, Db!With, Db!TypeOK, AloneInv, Active
<1>6. CASE Db!WriteVersion(c)
  BY <1>6 DEF Db!WriteVersion, Db!Adds, Db!With, Db!TypeOK, AloneInv, Active
<1>7. CASE Db!Bootstrap(c)
  BY <1>7 DEF Db!Bootstrap, Db!Adds, Db!With, Db!TypeOK, AloneInv, Active
<1>8. CASE Db!Fail(c)
  BY <1>8 DEF Db!Fail, Db!TypeOK, AloneInv, Active
<1>9. CASE Db!Cleanup(c)
  BY <1>9 DEF Db!Cleanup, Db!Cleaned, Db!Absent, Db!TypeOK, AloneInv, Active
<1>10. CASE Db!Kill(c)
  BY <1>10 DEF Db!Kill
<1> QED
  BY <1>1, <1>2, <1>3, <1>4, <1>5, <1>6, <1>7, <1>8, <1>9, <1>10 DEF Db!Step

-----------------------------------------------------------------------------
\* Nothing is built and there is no data directory.
LEMMA SetupInit == SInit => SetupInv
<1> SUFFICES ASSUME SInit PROVE SetupInv
  OBVIOUS
<1> USE DEF SInit
<1>1. BuildInv
  <2>1. tree \in [Product -> {"none", "whole"}]
    BY DEF BInit
  <2>2. BTypeOK
    BY <2>1 DEF BInit, BTypeOK, Stopped, Product
  <2>3. InstallInv /\ ArrowInv
    BY DEF BInit, InstallInv, ArrowInv, InPgBuild, Building, Stopped
  <2> QED
    BY <2>2, <2>3 DEF BuildInv
<1>2. Db!TypeOK
  <2>1. \A files \in SUBSET Db!Files :
            Db!With(files) \in [exists : BOOLEAN, files : SUBSET Db!Files] /\ Db!With(files).exists
    BY DEF Db!With
  <2>2. Db!Absent \in [exists : BOOLEAN, files : SUBSET Db!Files] /\ Db!Absent.files = {}
    BY DEF Db!Absent
  <2>3. {{}, Db!Complete, {"other"}} \subseteq SUBSET Db!Files
    BY DEF Db!Complete, Db!Files
  <2>4. dir \in [exists : BOOLEAN, files : SUBSET Db!Files] /\ (~dir.exists => dir.files = {})
    BY <2>1, <2>2, <2>3 DEF Db!Init
  <2> QED
    BY <2>4 DEF Db!Init, Db!TypeOK, Db!Working
<1>3. ToolsInv /\ AloneInv
  BY DEF Db!Init, ToolsInv, Starting, AloneInv, Active, Db!Working
<1>4. ClusterInv
  BY DEF Db!Init, ClusterInv, MadeSoFar, Db!Absent, Db!With, Db!Complete, Db!Working
<1> QED
  BY <1>1, <1>2, <1>3, <1>4 DEF SetupInv

\* The parts of the invariant together are inductive.
LEMMA SetupStep == SetupInv /\ [SNext]_svars => SetupInv'
<1> SUFFICES ASSUME SetupInv, [SNext]_svars PROVE SetupInv'
  OBVIOUS
<1>0. ToolsInv'
  BY ToolsStep DEF SetupInv
<1>1. CASE Build
  <2>1. BuildInv'
    BY <1>1, BuildStep DEF Build, SetupInv
  <2>2. Db!TypeOK' /\ AloneInv' /\ ClusterInv'
    BY <1>1 DEF Build, dvars, SetupInv, Db!TypeOK, AloneInv, ClusterInv, MadeSoFar
  <2> QED
    BY <1>0, <2>1, <2>2 DEF SetupInv
<1>2. ASSUME NEW c \in Db!Script, PgStart(c) PROVE SetupInv'
  <2>1. BuildInv'
    BY <1>2 DEF PgStart, bvars, SetupInv, BuildInv, BTypeOK, InstallInv, ArrowInv, InPgBuild, Building
  <2>2. Db!TypeOK' /\ AloneInv' /\ ClusterInv'
    BY <1>2, TypeStep, AloneStep, ClusterStep DEF PgStart, SetupInv
  <2> QED
    BY <1>0, <2>1, <2>2 DEF SetupInv
<1>3. CASE UNCHANGED svars
  <2>1. BuildInv'
    BY <1>3 DEF svars, bvars, SetupInv, BuildInv, BTypeOK, InstallInv, ArrowInv, InPgBuild, Building
  <2>2. Db!TypeOK' /\ AloneInv' /\ ClusterInv'
    BY <1>3 DEF svars, dvars, SetupInv, Db!TypeOK, AloneInv, ClusterInv, MadeSoFar
  <2> QED
    BY <1>0, <2>1, <2>2 DEF SetupInv
<1> QED
  BY <1>1, <1>2, <1>3 DEF SNext

\* The invariant of builds and starts, from which the properties follow.
THEOREM SetupInvariant == SSpec => []SetupInv
  BY SetupInit, SetupStep, PTL DEF SSpec, svars

\* pg_start.sh finds initdb, postgres and pg_ctl installed whenever it is at work,
\* though it tests for pg_ctl only.
THEOREM ToolsTheorem == SSpec => []ToolsAreThere
<1>1. SetupInv => ToolsAreThere
  BY DEF SetupInv, ToolsInv, BuildInv, InstallInv, ToolsAreThere
<1> QED
  BY <1>1, SetupInvariant, PTL

\* A pg_start.sh that goes on to pg_ctl has a complete cluster, however many initdbs
\* failed before, unless one was killed.
THEOREM GuardTheorem == SSpec => []GuardIsEnough
<1>1. SetupInv => GuardIsEnough
  BY DEF SetupInv, ClusterInv, GuardIsEnough, Db!GuardIsEnough
<1> QED
  BY <1>1, SetupInvariant, PTL

\* build_postgresql.sh ends with status 0 only with PostgreSQL and PostGIS installed
\* or after an installation that was broken off.
THEOREM InstalledTheorem == SSpec => []InstalledOrTorn
<1>1. SetupInv => InstalledOrTorn
  BY DEF SetupInv, BuildInv, InstallInv, InstalledOrTorn
<1> QED
  BY <1>1, SetupInvariant, PTL

\* build_gdal_full.sh builds the Parquet driver whenever Arrow was installed before.
THEOREM ParquetTheorem == SSpec => []ParquetWhenArrow
<1>1. SetupInv => ParquetWhenArrow
  BY DEF SetupInv, BuildInv, ArrowInv, ParquetWhenArrow
<1> QED
  BY <1>1, SetupInvariant, PTL
=============================================================================
