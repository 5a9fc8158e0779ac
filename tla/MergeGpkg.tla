----------------------------- MODULE MergeGpkg -----------------------------
(***************************************************************************)
(* merge_toshi_geopackage.sh, merge_gaiku_geopackage.sh and                *)
(* merge_tochi_geopackage.sh: all .gpkg files of one folder are merged     *)
(* into OUTPUT_FILE.  The three scripts have the same control; they differ *)
(* in paths, layer name and the SRS options.                               *)
(*                                                                         *)
(* The script may be killed at any point (an interrupted terminal, a full  *)
(* disk, a reboot) and is run again by hand; OUTPUT_FILE survives.  Other  *)
(* scripts may add or remove .gpkg files of the folder at any time.        *)
(***************************************************************************)
EXTENDS OgrFile

VARIABLES pc,      \* "idle", "loop", and how the run ended: "ok", "error", "killed"
          run,     \* the current run
          inputs,  \* the .gpkg files in INPUT_DIR
          todo,    \* the rest of the array gpkgs
          first,   \* the flag first of the script
          merged,  \* the files counted by the variable merged
          out      \* OUTPUT_FILE

vars == <<pc, run, inputs, todo, first, merged, out>>

NotRunning == {"idle", "ok", "error", "killed"}

TypeOK ==
    /\ pc \in {"loop"} \union NotRunning
    /\ run \in 0..MaxRuns
    /\ pc # "idle" => run \in Run
    /\ inputs \in SUBSET File
    /\ todo \in SUBSET File
    /\ first \in BOOLEAN
    /\ merged \in SUBSET File
    /\ out \in Dataset

Init ==
    /\ pc = "idle"
    /\ run = 0
    /\ inputs \in SUBSET File
    /\ todo = {}
    /\ first = TRUE
    /\ merged = {}
    /\ out = Absent

-----------------------------------------------------------------------------
\* From the start of the script to the head of its loop: the folder is
\* listed once; no .gpkg in it, or no usable env.sh, is an error.
StartRun ==
    /\ pc \in NotRunning
    /\ run < MaxRuns
    /\ run' = run + 1
    /\ \/ pc' = "error"
       \/ inputs # {} /\ pc' = "loop"
    /\ todo' = inputs
    /\ first' = TRUE
    /\ merged' = {}
    /\ UNCHANGED <<inputs, out>>

IsNext(f) == f \in todo /\ \A g \in todo : f <= g

\* first is cleared only behind a successful create: after a failure the next
\* file is again written with -f GPKG.
FirstClearedEarly == FALSE
FirstAfterFailure == first

CountedAnyway(f) == merged \union {f}
MergedAfterFailure(f) == merged

\* An iteration with first=true.
CreateFirst(f) ==
    /\ pc = "loop"
    /\ first
    /\ IsNext(f)
    /\ todo' = todo \ {f}
    /\ \/ /\ f \in inputs
          /\ out' = Created(run, f)
          /\ first' = FALSE
          /\ merged' = merged \union {f}
       \/ /\ out' \in CreateFailures(run, f, out)
          /\ first' = FirstAfterFailure
          /\ merged' = MergedAfterFailure(f)
    /\ UNCHANGED <<pc, run, inputs>>

\* -append without -update replaces the file.
AppendByCreate(f) == Created(run, f)
AppendResult(f) == Appended(run, f, out)

\* An iteration with first=false.
AppendNext(f) ==
    /\ pc = "loop"
    /\ ~first
    /\ IsNext(f)
    /\ todo' = todo \ {f}
    /\ \/ /\ f \in inputs
          /\ out' = AppendResult(f)
          /\ merged' = merged \union {f}
       \/ /\ out' \in AppendFailures(run, f, out)
          /\ merged' = MergedAfterFailure(f)
    /\ UNCHANGED <<pc, run, inputs, first>>

\* After the loop.
Finish ==
    /\ pc = "loop"
    /\ todo = {}
    /\ pc' = IF merged = {} THEN "error" ELSE "ok"
    /\ UNCHANGED <<run, inputs, todo, first, merged, out>>

\* The script and the ogr2ogr it runs are killed.
Kill ==
    /\ pc = "loop"
    /\ pc' = "killed"
    /\ \/ UNCHANGED out
       \/ \E f \in todo :
             /\ IsNext(f)
             /\ out' \in IF first THEN CreateFailures(run, f, out)
                                  ELSE AppendFailures(run, f, out)
    /\ UNCHANGED <<run, inputs, todo, first, merged>>

\* csv_to_geopackage.sh, or the user, changes the folder.
ChangeFolder(f) ==
    /\ inputs' \in {inputs \union {f}, inputs \ {f}}
    /\ inputs' # inputs
    /\ UNCHANGED <<pc, run, todo, first, merged, out>>

Next == \/ StartRun
        \/ \E f \in File : CreateFirst(f) \/ AppendNext(f) \/ ChangeFolder(f)
        \/ Finish
        \/ Kill

Spec == Init /\ [][Next]_vars

-----------------------------------------------------------------------------
\* A run that ends with status 0 leaves no row of an earlier run in
\* OUTPUT_FILE, however the earlier run ended and whichever of this run's
\* create commands failed (merge_toshi_geopackage.sh:41-46).
NoStaleRows == pc = "ok" => \A row \in out.rows : row.run = run

\* Every file that the final "Merged: n files" counts is completely in
\* OUTPUT_FILE, also when files between them failed half-way.
CountedIsComplete == pc = "ok" => \A f \in merged : Whole(run, f) \subseteq out.rows

\* Once a file is in, no later step of the run takes a row out of OUTPUT_FILE.
NeverLosesRows ==
    [][pc = "loop" /\ merged # {} => out.rows \subseteq out'.rows]_vars

\* The inductive invariant behind them: first is true exactly as long as
\* nothing is merged; until then no file of this run is completely in
\* OUTPUT_FILE, and from then on it holds rows of this run only, every counted
\* file completely, and nothing of the files still to come.
MergeInv ==
    /\ TypeOK
    /\ \A row \in out.rows : row.run <= run
    /\ pc = "ok" => merged # {}
    /\ pc \in {"loop", "ok"} =>
          /\ first <=> merged = {}
          /\ first => \A f \in File : ~(Whole(run, f) \subseteq out.rows)
          /\ ~first => /\ out.there
                       /\ \A row \in out.rows : row.run = run /\ row.file \notin todo
                       /\ \A f \in merged : Whole(run, f) \subseteq out.rows /\ f \notin todo

-----------------------------------------------------------------------------
\* The abstract view of a state, read off OUTPUT_FILE itself and not off the
\* script's counters.
Got == {f \in File : run \in Run /\ Whole(run, f) \subseteq out.rows}

Dirty == \E row \in out.rows : row.run # run

Abs == INSTANCE MergeAbs
       WITH status <- IF pc = "loop" THEN "running" ELSE pc, got <- Got, dirty <- Dirty

\* The scripts implement the abstract merge: what OUTPUT_FILE holds changes
\* only by whole files of this run, and the exit status says whether any is in.
ImplementsMerge == Abs!Spec

=============================================================================
