------------------------------ MODULE Delivery ------------------------------
(***************************************************************************)
(* csv_to_geopackage.sh fills a folder of .gpkg files, and a shell merge   *)
(* lists the folder and merges them: the two scripts side by side, as a    *)
(* user runs them, one after the other or, by mistake, at the same time.   *)
(* The variables of MergeGpkg are the merge's; those of the conversion     *)
(* have a prefix c.                                                        *)
(***************************************************************************)
EXTENDS MergeGpkg

CONSTANTS LinesPerCsv, MaxConversions, Layouts, Shapes

ASSUME DeliveryAssumption ==
    /\ LinesPerCsv \in Nat /\ MaxConversions \in Nat
    /\ Layouts \subseteq [File -> {"gaiku", "toshi", "tochi", "kozu"}]
    /\ DOMAIN Shapes = {"gaiku", "toshi", "tochi", "kozu"}
    /\ \A d \in DOMAIN Shapes : Shapes[d] \subseteq
          [lines : 0..LinesPerCsv, header : BOOLEAN, key : BOOLEAN, short : BOOLEAN]
    /\ \A d \in DOMAIN Shapes : d # "tochi" => \A c \in Shapes[d] : c.header

VARIABLES cformat, folder, csv, cpc, crun, cskip, ctodo, ctmp, cfailed, cmade, cout,
          clossy, chit, cverdict,
          since, \* the conversion that had ended cleanly when the merge began, or 0
          taken  \* the rows each .gpkg held when the merge read it

cvars == <<cformat, folder, csv, cpc, crun, cskip, ctodo, ctmp, cfailed, cmade, cout,
           clossy, chit, cverdict>>

Convert == INSTANCE ConvertCsv
    WITH RowsPerFile <- LinesPerCsv, MaxRuns <- MaxConversions,
         format <- cformat, pc <- cpc, run <- crun, skip <- cskip, todo <- ctodo, tmp <- ctmp,
         failed <- cfailed, made <- cmade, out <- cout, lossy <- clossy, hit <- chit,
         verdict <- cverdict

\* What merge_toshi_geopackage.sh finds in its folder.
Listed(converted) == {f \in File : cformat = "gpkg" /\ folder[f] = "toshi" /\ converted[f].there}

DInit ==
    /\ Init
    /\ inputs = {}
    /\ Convert!Init
    /\ since = 0
    /\ taken = [f \in File |-> {}]

CleanlyConverted == cpc = "ok" /\ ~cfailed /\ ~cskip

\* For the merge, a step of the conversion is a change of the folder or nothing.
ConvertStep ==
    /\ Convert!Next
    /\ inputs' = Listed(cout')
    /\ \/ inputs' = inputs /\ UNCHANGED vars
       \/ \E f \in File : ChangeFolder(f)
    /\ UNCHANGED <<since, taken>>

BeginMerge ==
    /\ StartRun
    /\ since' = IF CleanlyConverted THEN crun ELSE 0
    /\ UNCHANGED <<cvars, taken>>

\* ogr2ogr reads the .gpkg of f as it is at this moment.
MergeFile(f) ==
    /\ CreateFirst(f) \/ AppendNext(f)
    /\ taken' = IF f \in merged' \ merged THEN [taken EXCEPT ![f] = cout[f].rows] ELSE taken
    /\ UNCHANGED <<cvars, since>>

EndMerge == (Finish \/ Kill) /\ UNCHANGED <<cvars, since, taken>>

DNext == \/ ConvertStep
         \/ BeginMerge
         \/ \E f \in File : MergeFile(f)
         \/ EndMerge

dvars == <<vars, cvars, since, taken>>

DSpec == DInit /\ [][DNext]_dvars

-----------------------------------------------------------------------------
\* When the last conversion ran without -s and without FAILED=1, and the merge
\* began after it, then each file the merge counts has all its CSV lines in
\* the merged file, but for what a successful ogr2ogr left out of the .gpkg.
Delivered ==
    pc = "ok" /\ since = crun /\ since # 0 =>
        \A f \in merged :
            \/ {row.pos : row \in taken[f]} = Convert!Data(csv[f])
            \/ f \in clossy

\* Where verify_csv_geoparquet.py is content, every CSV of a folder that the
\* conversion has come to is completely converted, whatever failed, was killed,
\* skipped with -s or left out by -skipfailures before.
VerifiedIsComplete == Convert!VerifiedIsComplete

\* What a run of csv_to_geopackage.sh or csv_to_geoparquet.sh that ends without
\* FAILED=1 leaves: complete files but for what a successful ogr2ogr left out, and
\* with -s what a failure or a kill in an earlier run had; without -s, no old rows.
CleanRunLeaves == Convert!CleanRunLeaves

=============================================================================
