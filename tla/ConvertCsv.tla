----------------------------- MODULE ConvertCsv -----------------------------
(***************************************************************************)
(* csv_to_geopackage.sh and csv_to_geoparquet.sh: every CSV of four        *)
(* folders is turned into one file, if need be through a temporary CSV     *)
(* that iconv, csv_to_geoparquet_tochi.py or csv_to_geoparquet_kozu.py     *)
(* writes.  verify_csv_geoparquet.py counts the rows afterwards, as        *)
(* run_convert_then_verify.sh has it.                                      *)
(*                                                                         *)
(* The CSVs are numbered in the order the script comes to them.  A row is  *)
(* known by its line in the CSV and by the run that converted it.  Output  *)
(* files have distinct names (no SUB_X.csv beside SUB/X.csv).  A run may   *)
(* be killed anywhere; the output files survive.                           *)
(***************************************************************************)
EXTENDS OgrFile, FiniteSets

CONSTANTS Layouts, \* how the CSVs may be spread over the folders
          Shapes   \* what the CSVs of each folder may look like: their lines, whether
                   \* the first one is a header, whether the zone (in the second line)
                   \* or the columns X1..Y4 can be found, whether the last line is short

Line == 1..RowsPerFile

Csvs(layout) ==
    {c \in [File -> UNION {Shapes[d] : d \in DOMAIN Shapes}] : \A f \in File : c[f] \in Shapes[layout[f]]}

VARIABLES format,  \* which of the two scripts
          folder,  \* the folder of each CSV
          csv,     \* the CSVs
          pc,      \* "idle", "next", "ogr", and how the run ended: "ok", "error", "killed"
          run,     \* the current run
          skip,    \* it was called with -s
          todo,    \* CSVs it has not come to
          tmp,     \* the lines of the CSV that ogr2ogr is to read
          failed,  \* FAILED=1
          made,    \* the output directories that exist
          out,     \* the output files
          lossy,   \* output files that a successful ogr2ogr left incomplete
          hit,     \* output files that the last ogr2ogr left when it failed or was killed
          verdict  \* the last answer of verify_csv_geoparquet.py

inputs == <<format, folder, csv>>

vars == <<inputs, pc, run, skip, todo, tmp, failed, made, out, lossy, hit, verdict>>

Missing == {0}  \* no temporary CSV

NotRunning == {"idle", "ok", "error", "killed"}

\* Every variable has a value the scripts can give it.
TypeOK ==
    /\ format \in {"gpkg", "parquet"}
    /\ folder \in Layouts
    /\ csv \in Csvs(folder)
    /\ pc \in {"next", "ogr"} \union NotRunning
    /\ run \in 0..MaxRuns
    /\ skip \in BOOLEAN /\ failed \in BOOLEAN
    /\ todo \in SUBSET File
    /\ tmp = Missing \/ tmp \in SUBSET Line
    /\ made \subseteq {"root"} \union DOMAIN Shapes
    /\ out \in [File -> Dataset]
    /\ lossy \in SUBSET File /\ hit \in SUBSET File
    /\ verdict \in {"none", "ok", "ng"}

Init ==
    /\ format \in {"gpkg", "parquet"}
    /\ folder \in Layouts
    /\ csv \in Csvs(folder)
    /\ pc = "idle"
    /\ run = 0
    /\ skip = FALSE
    /\ todo = {}
    /\ tmp = Missing
    /\ failed = FALSE
    /\ made = {}
    /\ out = [f \in File |-> Absent]
    /\ lossy = {}
    /\ hit = {}
    /\ verdict = "none"

-----------------------------------------------------------------------------
Data(c) == {p \in Line : p <= c.lines /\ (c.header => p > 1)}

\* csv_to_geoparquet_tochi.py: a header is kept (with its labels swapped) or
\* one is put before the lines; the zone is taken from the second line.
TochiReads(c) == c.lines > 0
TochiWrites(c) == Data(c)
TochiPrints(c) == c.lines > 1 /\ c.key

\* csv_to_geoparquet_kozu.py needs the columns X1..Y4 and drops short lines.
KozuReads(c) == c.lines > 0 /\ c.key
KozuWrites(c) == IF c.short THEN Data(c) \ {c.lines} ELSE Data(c)

\* What a write that fails leaves of the temporary CSV.
Torn(lines) == {Missing} \union {{p \in lines : p < k} : k \in Line}

IsNext(f) == f \in todo /\ \A g \in todo : f <= g

\* The checks at the top; then OUTPUT_ROOT and a temporary directory of the run's own.
Start(s) ==
    /\ pc \in NotRunning
    /\ run < MaxRuns
    /\ run' = run + 1
    /\ skip' = s
    /\ failed' = FALSE
    /\ todo' = File
    /\ \/ pc' = "error" /\ UNCHANGED made
       \/ pc' = "next" /\ made' = made \union {"root"}
    /\ verdict' = "none"
    /\ UNCHANGED <<inputs, tmp, out, lossy, hit>>

\* The loop over the CSVs of the next folder is reached.
EnterFolder(f) ==
    /\ pc = "next"
    /\ IsNext(f)
    /\ made' = made \union {folder[f]}
    /\ made' # made
    /\ UNCHANGED <<inputs, pc, run, skip, todo, tmp, failed, out, lossy, hit, verdict>>

Skipped(f) == skip /\ out[f].there

SkipExisting(f) ==
    /\ pc = "next"
    /\ IsNext(f)
    /\ folder[f] \in made
    /\ Skipped(f)
    /\ todo' = todo \ {f}
    /\ UNCHANGED <<inputs, pc, run, skip, tmp, failed, made, out, lossy, hit, verdict>>

ToOgr(lines) == pc' = "ogr" /\ tmp' = lines /\ UNCHANGED <<todo, failed>>

ContinueQuietly(f) == failed
FailedIsSet(f) == TRUE

\* "FAILED=1; continue"
GiveUp(f) ==
    /\ failed' = FailedIsSet(f)
    /\ todo' = todo \ {f}
    /\ UNCHANGED <<pc, tmp>>

\* GeoPackage, gaiku and toshi: the zone is what the pipeline prints last, and
\* the status of python3 is lost.  It prints before it writes.
WithZone(f) ==
    \/ TochiPrints(csv[f]) /\ ToOgr(TochiWrites(csv[f]))
    \/ TochiPrints(csv[f]) /\ \E lines \in Torn(TochiWrites(csv[f])) : ToOgr(lines)
    \/ GiveUp(f)

\* tochi and kozu: the status of python3 is tested.
WithStatus(f, reads, writes) ==
    \/ reads /\ ToOgr(writes)
    \/ GiveUp(f)

\* GeoParquet, toshi: iconv, else cp, whose failure ends the script (set -e).
WithIconv(f) ==
    \/ ToOgr(Data(csv[f]))
    \/ pc' = "error" /\ UNCHANGED <<todo, tmp, failed>>

Preprocess(f) ==
    /\ pc = "next"
    /\ IsNext(f)
    /\ folder[f] \in made
    /\ ~Skipped(f)
    /\ \/ folder[f] \in {"gaiku", "toshi"} /\ format = "gpkg" /\ WithZone(f)
       \/ folder[f] = "gaiku" /\ format = "parquet" /\ ToOgr(Data(csv[f]))
       \/ folder[f] = "toshi" /\ format = "parquet" /\ WithIconv(f)
       \/ folder[f] = "tochi" /\ WithStatus(f, TochiReads(csv[f]), TochiWrites(csv[f]))
       \/ folder[f] = "kozu" /\ WithStatus(f, KozuReads(csv[f]), KozuWrites(csv[f]))
    /\ UNCHANGED <<inputs, run, skip, made, out, lossy, hit, verdict>>

Rows(f, lines) == {[run |-> run, file |-> f, pos |-> p] : p \in lines}

\* What ogr2ogr leaves when it fails or is killed.
OgrFailures(f) ==
    {out[f]} \union
    IF tmp = Missing THEN {}
    ELSE {Absent} \union {Holding(Rows(f, {p \in tmp : p < k})) : k \in Line}

\* With -skipfailures ogr2ogr leaves out features and still succeeds.
Ogr2ogr(f) ==
    /\ pc = "ogr"
    /\ IsNext(f)
    /\ \/ /\ tmp # Missing
          /\ \E lines \in SUBSET tmp :
                /\ out' = [out EXCEPT ![f] = Holding(Rows(f, lines))]
                /\ lossy' = IF lines = Data(csv[f]) THEN lossy \ {f}
                                                   ELSE lossy \union {f}
          /\ hit' = hit \ {f}
          /\ UNCHANGED failed
       \/ /\ \E d \in OgrFailures(f) : out' = [out EXCEPT ![f] = d]
          /\ failed' = FailedIsSet(f)
          /\ hit' = hit \union {f}
          /\ UNCHANGED lossy
    /\ pc' = "next"
    /\ todo' = todo \ {f}
    /\ tmp' = Missing
    /\ UNCHANGED <<inputs, run, skip, made, verdict>>

\* FAILED is only logged: the exit status is 0.
Finish ==
    /\ pc = "next"
    /\ todo = {}
    /\ pc' = "ok"
    /\ UNCHANGED <<inputs, run, skip, todo, tmp, failed, made, out, lossy, hit, verdict>>

\* The script and what it runs are killed; the trap does not run.
Kill ==
    /\ pc \in {"next", "ogr"}
    /\ pc' = "killed"
    /\ \/ UNCHANGED <<out, hit>>
       \/ \E f \in File :
             /\ pc = "ogr"
             /\ IsNext(f)
             /\ \E d \in OgrFailures(f) : out' = [out EXCEPT ![f] = d]
             /\ hit' = hit \union {f}
    /\ tmp' = Missing
    /\ UNCHANGED <<inputs, run, skip, todo, failed, made, lossy, verdict>>

-----------------------------------------------------------------------------
\* count_csv_rows of verify_csv_geoparquet.py; the folder decides on a header.
CountCsvRows(f) ==
    IF folder[f] = "tochi" \/ csv[f].lines = 0 THEN csv[f].lines ELSE csv[f].lines - 1

\* A missing file is passed over.
PassMissing(f) == out[f].there => Cardinality(out[f].rows) = CountCsvRows(f)
CountsAgree(f) ==
    out[f].there /\ Cardinality(out[f].rows) = CountCsvRows(f)

\* A folder without output directory is passed over.
Compared(f) == folder[f] \in made

\* Exit status 1 when some count differs, or something could not be read.
Verify ==
    /\ pc \in NotRunning \ {"idle"}
    /\ format = "parquet"
    /\ verdict = "none"
    /\ \/ /\ "root" \in made
          /\ \A f \in File : Compared(f) => CountsAgree(f)
          /\ verdict' = "ok"
       \/ verdict' = "ng"
    /\ UNCHANGED <<inputs, pc, run, skip, todo, tmp, failed, made, out, lossy, hit>>

Next == \/ \E s \in BOOLEAN : Start(s)
        \/ \E f \in File : EnterFolder(f) \/ SkipExisting(f) \/ Preprocess(f) \/ Ogr2ogr(f)
        \/ Finish
        \/ Kill
        \/ Verify

Spec == Init /\ [][Next]_vars

-----------------------------------------------------------------------------
Complete(f) == out[f].there /\ {row.pos : row \in out[f].rows} = Data(csv[f])

\* Where verify_csv_geoparquet.py is content, every CSV of a folder that the
\* conversion has come to (all of them, when it ended with status 0) is completely
\* converted, whatever failed, was killed, skipped with -s or left out by
\* -skipfailures in the runs before.
VerifiedIsComplete ==
    verdict = "ok" => \A f \in File : pc = "ok" \/ folder[f] \in made => Complete(f)

\* What a run that ends without FAILED=1 leaves.  Only what a successful ogr2ogr left
\* out is missing, and with -s what a failure or a kill in an earlier run had left
\* out; without -s there is no row of an earlier run.
CleanRunLeaves ==
    pc = "ok" /\ ~failed =>
        \A f \in File :
            /\ Complete(f) \/ f \in lossy \/ (skip /\ f \in hit)
            /\ out[f].there
            /\ ~skip => \A row \in out[f].rows : row.run = run /\ row.file = f

=============================================================================
