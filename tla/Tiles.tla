------------------------------- MODULE Tiles -------------------------------
(***************************************************************************)
(* The scripts that end in PMTiles: run_pipeline.sh ("shp"),               *)
(* run_pipeline_pg.sh ("pg"), run_pipeline_14jyo.sh ("14jyo"), and         *)
(* gpkg_to_pmtiles.sh by itself or behind single_csv_to_pmtiles.sh         *)
(* ("gpkg").  Each goes through an intermediate file (a Parquet file per   *)
(* layer, or one GeoPackage) and ignores more or less of the exit statuses *)
(* of ogr2ogr; files of earlier runs stay where they are.                  *)
(***************************************************************************)
EXTENDS OgrFile

CONSTANT Names \* which output name the layers may get: "a.b_c" and "a_b.c" share one

ASSUME TilesAssumption == Names \subseteq [File -> File]

VARIABLES script,  \* which of the scripts
          name,    \* the output name of each layer
          pc,      \* the next command, or how the run ended
          run,     \* the current run
          direct,  \* gpkg_to_pmtiles.sh was called by itself
          todo,    \* layers or shapefiles the run has not come to
          tmp,     \* /tmp/csv_single_BASE.csv
          mid,     \* the intermediate file of each name
          fgb,     \* the FlatGeobuf files
          detour,  \* the Parquet file of gpkg_to_pmtiles.sh
          tiles,   \* the PMTiles files
          had,     \* the PMTiles file was there when the run began
          good     \* runs and layers whose intermediate file was made without error

vars == <<script, name, pc, run, direct, todo, tmp, mid, fgb, detour, tiles, had, good>>

files == <<tmp, mid, fgb, detour, tiles>>

NotRunning == {"idle", "ok", "error", "killed"}

\* Every variable has a value the scripts can give it.
TypeOK ==
    /\ script \in {"shp", "pg", "14jyo", "gpkg"}
    /\ name \in [File -> File]
    /\ pc \in {"csv", "source", "fgb", "tiles", "parquet", "again"} \union NotRunning
    /\ run \in 0..MaxRuns
    /\ direct \in BOOLEAN /\ had \in BOOLEAN
    /\ todo \in SUBSET File
    /\ tmp \in Dataset /\ detour \in Dataset
    /\ {mid, fgb, tiles} \subseteq [File -> Dataset]
    /\ good \subseteq Run \X File

\* Only layers of a database can share a name; 14jyo and gpkg have one output.
Init ==
    /\ script \in {"shp", "pg", "14jyo", "gpkg"}
    /\ name \in CASE script = "shp" -> {[f \in File |-> f]}
                  [] script = "pg" -> Names
                  [] OTHER -> {[f \in File |-> 1]}
    /\ pc = "idle"
    /\ run = 0
    /\ direct = FALSE /\ had = FALSE
    /\ todo = {}
    /\ tmp = Absent /\ detour = Absent
    /\ mid = [f \in File |-> Absent] /\ fgb = mid /\ tiles = mid
    /\ good = {}

-----------------------------------------------------------------------------
Goto(p) == pc' = p

Rows(f) == Whole(run, f)

\* With -skipfailures a successful ogr2ogr may leave out rows.
Made(rows) == {Holding(part) : part \in SUBSET rows}

\* What one leaves that fails or is killed, where its output was d.
Broken(rows, d) == {d, Absent} \union Made(rows)

\* The checks at the top.  gpkg_to_pmtiles.sh wants its GeoPackage;
\* run_pipeline_14jyo.sh removes the one of the last run.
Start ==
    /\ pc \in NotRunning
    /\ run < MaxRuns
    /\ run' = run + 1
    /\ todo' = IF script = "gpkg" THEN {1} ELSE File
    /\ had' = tiles[1].there
    /\ \/ /\ Goto("error")
          /\ UNCHANGED <<direct, mid>>
       \/ /\ script \in {"shp", "pg"} /\ Goto("source")
          /\ UNCHANGED <<direct, mid>>
       \/ /\ script = "14jyo" /\ Goto("source")
          /\ mid' = [mid EXCEPT ![1] = Absent]
          /\ UNCHANGED direct
       \/ /\ script = "gpkg"
          /\ direct' \in BOOLEAN
          /\ direct' => mid[1].there
          /\ Goto(IF direct' THEN "tiles" ELSE "csv")
          /\ UNCHANGED mid
    /\ UNCHANGED <<script, name, tmp, fgb, detour, tiles, good>>

IsNext(f) == f \in todo /\ \A g \in todo : f <= g

After(f) == todo' = todo \ {f}

\* single_csv_to_pmtiles.sh: the zone shows that csv_to_geoparquet_tochi.py has
\* opened the temporary CSV; it may still have failed to write all of it.
ZoneUnchecked(rows) == Broken(rows, tmp)
AfterZone(rows) == Broken(rows, Absent)

PreprocessCsv ==
    /\ pc = "csv"
    /\ \/ tmp' \in AfterZone(Rows(1)) /\ Goto("source")
       \/ tmp' \in Broken(Rows(1), tmp) /\ Goto("error")
    /\ UNCHANGED <<script, name, run, direct, todo, mid, fgb, detour, tiles, had, good>>

-----------------------------------------------------------------------------
\* run_pipeline.sh and run_pipeline_pg.sh: "FAILED=1; continue".
GoOnAfterFailure(f) == Goto("fgb") /\ UNCHANGED todo
ContinueAfterFailure(f) == Goto("source") /\ After(f)

\* Without -append the rows replace what was there.
ByCreating(f, rows) == Made(rows)

MakeParquet(f) ==
    /\ pc = "source" /\ script \in {"shp", "pg"}
    /\ IsNext(f)
    /\ \/ /\ \E d \in ByCreating(f, Rows(f)) : mid' = [mid EXCEPT ![name[f]] = d]
          /\ good' = good \union {<<run, f>>}
          /\ Goto("fgb") /\ UNCHANGED todo
       \/ /\ \E d \in Broken(Rows(f), mid[name[f]]) : mid' = [mid EXCEPT ![name[f]] = d]
          /\ ContinueAfterFailure(f)
          /\ UNCHANGED good
    /\ UNCHANGED <<script, name, run, direct, tmp, fgb, detour, tiles, had>>

\* The exit status does not count.  run_pipeline_pg.sh skips layers without
\* geometry.
MakeFgb(f) ==
    /\ pc = "fgb"
    /\ IsNext(f)
    /\ \/ /\ \E d \in Broken(mid[name[f]].rows, fgb[name[f]]) :
                fgb' = [fgb EXCEPT ![name[f]] = d]
          /\ Goto("tiles") /\ UNCHANGED todo
       \/ /\ script = "pg"
          /\ Goto("source") /\ After(f) /\ UNCHANGED fgb
    /\ UNCHANGED <<script, name, run, direct, tmp, mid, detour, tiles, had, good>>

-----------------------------------------------------------------------------
\* run_pipeline_14jyo.sh: a failure with the first shapefile ends the script,
\* the others are appended whatever happens.
MergeShp(f) ==
    /\ pc = "source" /\ script = "14jyo"
    /\ IsNext(f)
    /\ IF f = 1
       THEN \/ /\ \E d \in Made(Rows(f)) : mid' = [mid EXCEPT ![1] = d]
               /\ good' = good \union {<<run, 1>>}
               /\ Goto("source") /\ After(f)
            \/ /\ \E d \in Broken(Rows(f), mid[1]) : mid' = [mid EXCEPT ![1] = d]
               /\ Goto("error")
               /\ UNCHANGED <<todo, good>>
       ELSE /\ \E d \in Made(Rows(f)) : mid' = [mid EXCEPT ![1] = Holding(@.rows \union d.rows)]
            /\ Goto("source") /\ After(f)
            /\ UNCHANGED good
    /\ UNCHANGED <<script, name, run, direct, tmp, fgb, detour, tiles, had>>

\* single_csv_to_pmtiles.sh: set -e; the temporary CSV is removed on success.
MakeGpkg ==
    /\ pc = "source" /\ script = "gpkg"
    /\ \/ /\ tmp.there
          /\ \E d \in Made(tmp.rows) : mid' = [mid EXCEPT ![1] = d]
          /\ good' = good \union {<<run, 1>>}
          /\ tmp' = Absent
          /\ Goto("tiles")
       \/ /\ \E d \in Broken(tmp.rows, mid[1]) : mid' = [mid EXCEPT ![1] = d]
          /\ Goto("error")
          /\ UNCHANGED <<tmp, good>>
    /\ UNCHANGED <<script, name, run, direct, todo, fgb, detour, tiles, had>>

\* After the loop.
EndLoop ==
    /\ pc = "source"
    /\ todo = {}
    /\ script # "gpkg"
    /\ Goto(IF script = "14jyo" THEN "tiles" ELSE "ok")
    /\ UNCHANGED <<script, name, run, direct, todo, files, had, good>>

-----------------------------------------------------------------------------
\* PMTiles out of the intermediate file; nobody looks at the exit status.
MakeTiles(f) ==
    /\ pc = "tiles" /\ script \in {"shp", "pg"}
    /\ IsNext(f)
    /\ \E d \in Broken(mid[name[f]].rows, tiles[name[f]]) : tiles' = [tiles EXCEPT ![name[f]] = d]
    /\ Goto("source") /\ After(f)
    /\ UNCHANGED <<script, name, run, direct, tmp, mid, fgb, detour, had, good>>

\* run_pipeline_14jyo.sh, and the first attempt of gpkg_to_pmtiles.sh.
MakeOneTiles ==
    /\ pc = "tiles" /\ script \in {"14jyo", "gpkg"}
    /\ \E d \in Broken(mid[1].rows, tiles[1]) : tiles' = [tiles EXCEPT ![1] = d]
    /\ Goto(IF tiles'[1].there THEN "ok" ELSE IF script = "gpkg" THEN "parquet" ELSE "error")
    /\ UNCHANGED <<script, name, run, direct, todo, tmp, mid, fgb, detour, had, good>>

\* The detour of gpkg_to_pmtiles.sh, which tests this exit status ...
ParquetFailed == {"error"}

DetourParquet ==
    /\ pc = "parquet"
    /\ \/ detour' \in Made(mid[1].rows) /\ Goto("again")
       \/ detour' \in Broken(mid[1].rows, detour) /\ \E p \in ParquetFailed : Goto(p)
    /\ UNCHANGED <<script, name, run, direct, todo, tmp, mid, fgb, tiles, had, good>>

\* ... and keeps its Parquet file when there are no PMTiles.
DetourTiles ==
    /\ pc = "again"
    /\ \E d \in Broken(detour.rows, tiles[1]) : tiles' = [tiles EXCEPT ![1] = d]
    /\ IF tiles'[1].there THEN detour' = Absent /\ Goto("ok")
                          ELSE UNCHANGED detour /\ Goto("error")
    /\ UNCHANGED <<script, name, run, direct, todo, tmp, mid, fgb, had, good>>

\* The script is killed between two commands.  (Within one, it leaves what a
\* failing command leaves.)
Kill ==
    /\ pc \notin NotRunning
    /\ Goto("killed")
    /\ UNCHANGED <<script, name, run, direct, todo, files, had, good>>

Next == \/ Start \/ PreprocessCsv \/ MakeGpkg \/ EndLoop
        \/ \E f \in File : MakeParquet(f) \/ MakeFgb(f) \/ MergeShp(f) \/ MakeTiles(f)
        \/ MakeOneTiles \/ DetourParquet \/ DetourTiles
        \/ Kill

Spec == Init /\ [][Next]_vars

-----------------------------------------------------------------------------
\* Except by hand, with gpkg_to_pmtiles.sh, nothing is ever derived from an
\* intermediate file that a failing ogr2ogr left: what the FlatGeobuf and PMTiles
\* files hold was converted by a run whose intermediate file had been made without
\* error, also when two layers share it.
NothingFromBroken ==
    script # "gpkg" => \A f \in File : \A row \in fgb[f].rows \union tiles[f].rows :
        <<row.run, IF script \in {"shp", "pg"} THEN row.file ELSE 1>> \in good

\* run_pipeline_14jyo.sh, gpkg_to_pmtiles.sh and single_csv_to_pmtiles.sh test for
\* the PMTiles file, not for the status of ogr2ogr.  Where no such file was there
\* before, "Done" means that it holds only what the GeoPackage holds now, and that
\* is what this run has put there, unless it was given a GeoPackage.
DoneIsFresh ==
    pc = "ok" /\ script \in {"14jyo", "gpkg"} =>
        /\ tiles[1].there
        /\ ~had => tiles[1].rows \subseteq mid[1].rows
        /\ ~direct => \A row \in mid[1].rows : row.run = run

=============================================================================
