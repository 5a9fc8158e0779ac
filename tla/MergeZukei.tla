----------------------------- MODULE MergeZukei -----------------------------
(***************************************************************************)
(* The merges that choose the source CRS file by file:                     *)
(* merge_tochi_geopackage.py and merge_gaiku_geoparquet.py.  Both run the  *)
(* same loop over the sorted input folder, each over a folder of its own.  *)
(* A behaviour is one of the two.  The first one gives ogr2ogr a temporary *)
(* copy of the input with the columns of the original coordinates; the     *)
(* second one merges into a temporary GeoPackage, which it converts to     *)
(* Parquet at the end.                                                     *)
(*                                                                         *)
(* Unlike the shell merges, both clear the flag first when they build the  *)
(* create command, before ogr2ogr runs.  A subprocess.run that exceeds its *)
(* timeout raises TimeoutExpired, which no one catches.                    *)
(***************************************************************************)
EXTENDS OgrFile

VARIABLES zscript, \* which of the two scripts
          zpc,     \* where main() is, or how it ended
          zrun,    \* the current run
          inputs,  \* the files in INPUT_DIR
          ztodo,   \* the rest of the sorted list, with the current file
          first,   \* first, first_append
          source,  \* src_path of the current file: "path" or "temp"
          copied,  \* the features that src_path holds
          merged,  \* the files counted by merged, appended
          gpkg,    \* tochi: OUTPUT_FILE; gaiku: OUTPUT_GPKG
          parquet, \* gaiku: OUTPUT_FILE
          temps,   \* tochi: the temporary files on disk, by run and file
          stuck,   \* history: an unlink or remove of this run failed
          fresh,   \* history: no gpkg when this run began, or its create succeeded
          lost     \* history: the files of this run whose temporary copy lacks features

zvars == <<zscript, zpc, zrun, inputs, ztodo, first, source, copied, merged, gpkg, parquet, temps,
           stuck, fresh, lost>>

ToParquet == zscript = "gaiku"

\* "crashed": an uncaught exception or a kill.
Ended == {"idle", "ok", "error", "crashed"}

Temp == [run : Run, file : File]

\* Each variable keeps its type; in particular add_genxy_to_gpkg never copies more
\* features than the input has.
ZTypeOK ==
    /\ zscript \in {"tochi", "gaiku"}
    /\ zpc \in {"zukei", "temp", "ogr", "convert", "remove"} \union Ended
    /\ zrun \in 0..MaxRuns
    /\ inputs \in SUBSET File
    /\ ztodo \in SUBSET File
    /\ first \in BOOLEAN
    /\ source \in {"path", "temp"}
    /\ copied \in 0..RowsPerFile
    /\ merged \in SUBSET File
    /\ gpkg \in Dataset
    /\ parquet \in Dataset
    /\ temps \in SUBSET Temp
    /\ stuck \in BOOLEAN
    /\ fresh \in BOOLEAN
    /\ lost \in SUBSET File

ZInit ==
    /\ zscript \in {"tochi", "gaiku"}
    /\ zpc = "idle"
    /\ zrun = 0
    /\ inputs \in SUBSET File
    /\ ztodo = {}
    /\ first = TRUE
    /\ source = "path"
    /\ copied = RowsPerFile
    /\ merged = {}
    /\ gpkg = Absent
    /\ parquet = Absent
    /\ temps = {}
    /\ stuck = FALSE
    /\ fresh = TRUE
    /\ lost = {}

-----------------------------------------------------------------------------
\* main() up to its loop.
StartRun ==
    /\ zpc \in Ended
    /\ zrun < MaxRuns
    /\ zrun' = zrun + 1
    /\ zpc' = IF inputs = {} THEN "error" ELSE "zukei"
    /\ ztodo' = inputs
    /\ first' = TRUE
    /\ source' = "path"
    /\ copied' = RowsPerFile
    /\ merged' = {}
    /\ stuck' = FALSE
    /\ fresh' = ~gpkg.there
    /\ lost' = {}
    /\ UNCHANGED <<zscript, inputs, gpkg, parquet, temps>>

Current(f) == f \in ztodo /\ \A g \in ztodo : f <= g

\* get_zukei: None, for a file without a zone in 1..19 or an ogrinfo that
\* fails or takes more than 60 seconds, skips the file.
GetZukei(f) ==
    /\ zpc = "zukei"
    /\ Current(f)
    /\ \/ zpc' = "zukei" /\ ztodo' = ztodo \ {f}
       \/ f \in inputs /\ zpc' = (IF ToParquet THEN "ogr" ELSE "temp") /\ UNCHANGED ztodo
    /\ source' = "path"
    /\ copied' = RowsPerFile
    /\ UNCHANGED <<zscript, zrun, inputs, first, merged, gpkg, parquet, temps, stuck, fresh, lost>>

\* How many features of a file the feature loop of add_genxy_to_gpkg stores.
CopiedFeatures == 0..RowsPerFile

\* The temporary copy, where HAS_OGR.  add_genxy_to_gpkg ignores the result of
\* CreateFeature and returns True, so the copy may lack features.  No copy:
\* without OGR, when mkstemp fails, or when the function returns False; then
\* what it left is unlinked, and the command reads the input itself.
MakeTemp(f) ==
    /\ zpc = "temp"
    /\ Current(f)
    /\ zpc' = "ogr"
    /\ \/ /\ f \in inputs
          /\ source' = "temp"
          /\ copied' \in CopiedFeatures
          /\ temps' = temps \union {[run |-> zrun, file |-> f]}
          /\ UNCHANGED stuck
       \/ UNCHANGED <<source, copied, temps, stuck>>
       \/ /\ temps' = temps \union {[run |-> zrun, file |-> f]}
          /\ stuck' = TRUE
          /\ UNCHANGED <<source, copied>>
    /\ lost' = IF copied' < RowsPerFile THEN lost \union {f} ELSE lost
    /\ UNCHANGED <<zscript, zrun, inputs, ztodo, first, merged, gpkg, parquet, fresh>>

\* ogr2ogr has ended; the temporary copy is unlinked, whatever the status.
UnlinkOnSuccess(f, ok) ==
    IF ok THEN temps' = temps \ {[run |-> zrun, file |-> f]} /\ UNCHANGED stuck
          ELSE UNCHANGED <<temps, stuck>>
UnlinkTemp(f, ok) ==
    \/ temps' = (IF source = "temp" THEN temps \ {[run |-> zrun, file |-> f]} ELSE temps) /\ UNCHANGED stuck
    \/ source = "temp" /\ stuck' = TRUE /\ UNCHANGED temps

\* The rows that are in the output before the command of a file adds its own.
KeepAlways == gpkg.rows
Kept == IF first THEN {} ELSE gpkg.rows

OgrResult(f) == Holding(Kept \union Prefix(zrun, f, copied))

OgrFailures(f) ==
    {gpkg} \union (IF first THEN {Absent} ELSE {})
           \union {Holding(Kept \union Prefix(zrun, f, k)) : k \in 0..copied - 1}

CountBeforeStatus(f) == merged \union {f}
CountFailed(f) == merged

\* From "if first" to the end of the iteration.
RunOgr(f) ==
    /\ zpc = "ogr"
    /\ Current(f)
    /\ zpc' = "zukei"
    /\ ztodo' = ztodo \ {f}
    /\ first' = FALSE
    /\ \/ /\ source = "temp" \/ f \in inputs
          /\ gpkg' = OgrResult(f)
          /\ merged' = merged \union {f}
          /\ fresh' = (fresh \/ first)
          /\ UnlinkTemp(f, TRUE)
       \/ /\ gpkg' \in OgrFailures(f)
          /\ merged' = CountFailed(f)
          /\ UNCHANGED fresh
          /\ UnlinkTemp(f, FALSE)
    /\ UNCHANGED <<zscript, zrun, inputs, source, copied, parquet, lost>>

\* The end of the loop: nothing merged is an error.
AfterLoop ==
    zpc' = IF merged = {} THEN "error" ELSE IF ToParquet THEN "convert" ELSE "ok"

EndZukei ==
    /\ zpc = "zukei"
    /\ ztodo = {}
    /\ AfterLoop
    /\ UNCHANGED <<zscript, zrun, inputs, ztodo, first, source, copied, merged, gpkg, parquet, temps, stuck, fresh, lost>>

\* What a conversion of gpkg to Parquet leaves when it fails.
ConvertFailures ==
    {parquet, Absent} \union {Holding(rows) : rows \in SUBSET gpkg.rows \ {gpkg.rows}}

\* gaiku: the second ogr2ogr.
ConvertParquet ==
    /\ zpc = "convert"
    /\ \/ zpc' = "remove" /\ parquet' = gpkg
       \/ zpc' = "error" /\ parquet' \in ConvertFailures
    /\ UNCHANGED <<zscript, zrun, inputs, ztodo, first, source, copied, merged, gpkg, temps, stuck, fresh, lost>>

\* gaiku: os.remove(OUTPUT_GPKG), then a verification that only warns.
RemoveGpkg ==
    /\ zpc = "remove"
    /\ zpc' = "ok"
    /\ \/ gpkg' = Absent /\ UNCHANGED stuck
       \/ stuck' = TRUE /\ UNCHANGED gpkg
    /\ UNCHANGED <<zscript, zrun, inputs, ztodo, first, source, copied, merged, parquet, temps, fresh, lost>>

\* A kill, a TimeoutExpired of ogr2ogr (which also ends the child) or an
\* exception in add_genxy_to_gpkg: what is on disk stays there.
Crash ==
    /\ zpc \notin Ended
    /\ zpc' = "crashed"
    /\ \/ UNCHANGED <<gpkg, parquet, temps>>
       \/ \E f \in ztodo : /\ zpc = "temp" /\ Current(f)
                          /\ temps' = temps \union {[run |-> zrun, file |-> f]}
                          /\ UNCHANGED <<gpkg, parquet>>
       \/ \E f \in ztodo : /\ zpc = "ogr" /\ Current(f)
                          /\ gpkg' \in OgrFailures(f)
                          /\ UNCHANGED <<parquet, temps>>
       \/ /\ zpc = "convert"
          /\ parquet' \in ConvertFailures
          /\ UNCHANGED <<gpkg, temps>>
    /\ UNCHANGED <<zscript, zrun, inputs, ztodo, first, source, copied, merged, stuck, fresh, lost>>

\* Another script, or the user, changes the input folder.
ChangeFolder(f) ==
    /\ inputs' \in {inputs \union {f}, inputs \ {f}}
    /\ inputs' # inputs
    /\ UNCHANGED <<zscript, zpc, zrun, ztodo, first, source, copied, merged, gpkg, parquet, temps, stuck, fresh, lost>>

ZNext == \/ StartRun
        \/ \E f \in File : GetZukei(f) \/ MakeTemp(f) \/ RunOgr(f) \/ ChangeFolder(f)
        \/ EndZukei
        \/ ConvertParquet
        \/ RemoveGpkg
        \/ Crash

ZSpec == ZInit /\ [][ZNext]_zvars

-----------------------------------------------------------------------------
\* The file a successful run delivers.
Output == IF ToParquet THEN parquet ELSE gpkg

\* Every file counted by "Merged: n" is completely in the output of a run
\* that exits with 0, but for features that its temporary copy lost.
CountedIsComplete ==
    zpc = "ok" => \A f \in merged \ lost : Whole(zrun, f) \subseteq Output.rows

\* A run that finds no GeoPackage at its start, or whose create succeeds,
\* delivers rows of its own only: an append behind a failed create then creates
\* the file anew.
FreshIsClean == zpc = "ok" /\ fresh => \A row \in Output.rows : row.run = zrun

\* A run that ends by itself, and whose unlinks succeed, leaves no temporary
\* GeoPackage behind, also when ogr2ogr failed (merge_tochi_geopackage.py:250-254).
TempsRemoved == zpc \in {"ok", "error"} /\ ~stuck => \A t \in temps : t.run # zrun

=============================================================================
