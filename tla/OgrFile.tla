------------------------------ MODULE OgrFile ------------------------------
(***************************************************************************)
(* The datasets that ogr2ogr writes, as the scripts of this repository see *)
(* them.  GDAL itself is not part of the repository: ogr2ogr is modelled   *)
(* from its command lines and from how the scripts treat its exit status.  *)
(*                                                                         *)
(* A row carries the run of the script that wrote it, the input file it    *)
(* came from and its position in that file.  One run appends an input at   *)
(* most once, so a set of rows is exact: a row that occurs twice in a      *)
(* dataset occurs with two different runs.                                 *)
(***************************************************************************)
EXTENDS Naturals

CONSTANTS NumFiles,    \* input files, numbered in the order the scripts list them
          RowsPerFile, \* rows of each input file
          MaxRuns      \* bound: runs of the script

ASSUME OgrAssumption == /\ NumFiles \in Nat \ {0}
                        /\ RowsPerFile \in Nat \ {0}
                        /\ MaxRuns \in Nat \ {0}

File == 1..NumFiles

Run == 1..MaxRuns

Row == [run : Run, file : File, pos : 1..RowsPerFile]

\* The first k rows of file f, as written by run r.
Prefix(r, f, k) == {row \in Row : row.run = r /\ row.file = f /\ row.pos <= k}

Whole(r, f) == Prefix(r, f, RowsPerFile)

Dataset == [there : BOOLEAN, rows : SUBSET Row]

Absent == [there |-> FALSE, rows |-> {}]

Holding(rows) == [there |-> TRUE, rows |-> rows]

\* What "ogr2ogr -f FORMAT out f" leaves when it succeeds: the rows of f
\* instead of the old ones.
Created(r, f) == Holding(Whole(r, f))

\* What it can leave when it fails or is killed, where out held d before: d,
\* when f could not be opened; nothing, when d was already deleted; or a first
\* part of f.
CreateFailures(r, f, d) ==
    {d, Absent} \union {Holding(Prefix(r, f, k)) : k \in 0..RowsPerFile - 1}

\* The same for "ogr2ogr -update -append out f", which adds the rows of f and
\* creates an out that does not exist.
Appended(r, f, d) == Holding(d.rows \union Whole(r, f))

AppendFailures(r, f, d) ==
    {d} \union {Holding(d.rows \union Prefix(r, f, k)) : k \in 0..RowsPerFile - 1}

=============================================================================
