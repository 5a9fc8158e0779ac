------------------------------- MODULE Builds -------------------------------
(***************************************************************************)
(* build_postgresql.sh, build_arrow.sh and build_gdal_full.sh: sources are *)
(* fetched unless they are there, configured, built and installed below    *)
(* the project.  One script runs at a time; it may fail (set -e) or be     *)
(* killed at any command, and the next run finds what is on disk.  The     *)
(* user may remove an installation, as the scripts advise.                 *)
(*                                                                         *)
(* curl, tar, make and cmake are external: they do their work in several   *)
(* steps or stop half-way.                                                 *)
(***************************************************************************)
EXTENDS Naturals, Sequences

VARIABLES product,   \* what the script works on, or worked on last
          step,      \* its next command, or how it ended
          tree,      \* the source directory of each product
          installed, \* what is in pg-install
          arrow,     \* what is in arrow-install
          cache,     \* gdal-build: the drivers CMake has settled on
          gdal,      \* local: the drivers of the installed GDAL
          torn,      \* an installation of PostgreSQL and PostGIS was broken off
          saw        \* Arrow and Parquet were installed when this run began

bvars == <<product, step, tree, installed, arrow, cache, gdal, torn, saw>>

Product == {"postgresql", "postgis", "arrow", "gdal"}

\* make install goes through the directories in the order of src/Makefile and
\* src/bin/Makefile.
InstallOrder == <<"postgres", "initdb", "pg_ctl">>
PgFiles == {InstallOrder[i] : i \in 1..Len(InstallOrder)}
Everything == PgFiles \union {"postgis"}

ArrowFiles == {"Arrow", "Parquet"}

Stopped == {"idle", "ok", "error"}

BTypeOK ==
    /\ product \in Product
    /\ step \in Stopped \union {"guard", "fetch", "move", "make", "install"}
    /\ tree \in [Product -> {"none", "whole"}]
    /\ installed \subseteq Everything
    /\ arrow \subseteq ArrowFiles
    /\ {cache, gdal} \subseteq {"none", "plain", "parquet"}
    /\ torn \in BOOLEAN /\ saw \in BOOLEAN

\* A fresh copy of the repository, with pg-src and postgis-src or without.
BInit ==
    /\ product = "gdal" /\ step = "idle"
    /\ \E t \in {"none", "whole"} :
          tree = [p \in Product |-> IF p \in {"postgresql", "postgis"} THEN t ELSE "none"]
    /\ installed = {} /\ arrow = {}
    /\ cache = "none" /\ gdal = "none"
    /\ torn = FALSE /\ saw = FALSE

-----------------------------------------------------------------------------
InPgBuild == product \in {"postgresql", "postgis"}

StartBuild ==
    /\ step \in Stopped
    /\ product' \in {"postgresql", "arrow", "gdal"}
    /\ step' = "guard"
    /\ saw' = (arrow = ArrowFiles)
    /\ UNCHANGED <<tree, installed, arrow, cache, gdal, torn>>

\* "Already there, skipping" or, for GDAL, no GEOS.
HasPostgres == "postgres" \in installed

GuardBuild ==
    /\ step = "guard"
    /\ \/ product = "postgresql" /\ step' = IF HasPostgres THEN "ok" ELSE "fetch"
       \/ product = "arrow" /\ step' = IF arrow = ArrowFiles THEN "ok" ELSE "fetch"
       \/ product = "gdal" /\ step' \in {"fetch", "error"}
    /\ UNCHANGED <<product, tree, installed, arrow, cache, gdal, torn, saw>>

\* curl and tar, into another directory, unless the source directory has the file
\* the script looks for.
Fetch ==
    /\ step = "fetch"
    /\ step' = IF tree[product] = "none" THEN "move" ELSE "make"
    /\ UNCHANGED <<product, tree, installed, arrow, cache, gdal, torn, saw>>

\* rm -rf of what there is and mv of the new directory.
Move ==
    /\ step = "move"
    /\ step' = "make"
    /\ tree' = [tree EXCEPT ![product] = "whole"]
    /\ UNCHANGED <<product, installed, arrow, cache, gdal, torn, saw>>

\* configure and make.  build_gdal_full.sh removes gdal-build when arrow-install is
\* there; CMake keeps what an earlier configure has found.
OldCache == cache
CacheToUse == IF arrow # {} THEN "none" ELSE cache

Detected == IF arrow = ArrowFiles THEN "parquet" ELSE "plain"

Configured ==
    IF product # "gdal" THEN cache ELSE IF CacheToUse = "none" THEN Detected ELSE CacheToUse

Make ==
    /\ step = "make"
    /\ step' = "install"
    /\ cache' = Configured
    /\ UNCHANGED <<product, tree, installed, arrow, gdal, torn, saw>>

-----------------------------------------------------------------------------
AnyOrder == PgFiles \ installed
NextFiles == {InstallOrder[i] : i \in {n \in 1..Len(InstallOrder) :
                 InstallOrder[n] \notin installed /\ \A j \in 1..n - 1 : InstallOrder[j] \in installed}}

\* One file more; after make install, PostGIS is fetched and built.
ForgetPostgis ==
    /\ step = "install" /\ product = "postgresql"
    /\ \/ \E f \in NextFiles : installed' = installed \union {f} /\ UNCHANGED <<product, step>>
       \/ PgFiles \subseteq installed /\ step' = "ok" /\ UNCHANGED <<product, installed>>
    /\ UNCHANGED <<tree, arrow, cache, gdal, torn, saw>>

InstallPg ==
    /\ step = "install" /\ product = "postgresql"
    /\ \/ \E f \in NextFiles : installed' = installed \union {f} /\ UNCHANGED <<product, step>>
       \/ PgFiles \subseteq installed /\ product' = "postgis" /\ step' = "fetch" /\ UNCHANGED installed
    /\ UNCHANGED <<tree, arrow, cache, gdal, torn, saw>>

InstallPostgis ==
    /\ step = "install" /\ product = "postgis"
    /\ installed' = installed \union {"postgis"}
    /\ step' = "ok"
    /\ UNCHANGED <<product, tree, arrow, cache, gdal, torn, saw>>

InstallArrow ==
    /\ step = "install" /\ product = "arrow"
    /\ \/ \E f \in ArrowFiles \ arrow : arrow' = arrow \union {f} /\ UNCHANGED step
       \/ arrow = ArrowFiles /\ step' = "ok" /\ UNCHANGED arrow
    /\ UNCHANGED <<product, tree, installed, cache, gdal, torn, saw>>

InstallGdal ==
    /\ step = "install" /\ product = "gdal"
    /\ gdal' = cache
    /\ step' = "ok"
    /\ UNCHANGED <<product, tree, installed, arrow, cache, torn, saw>>

\* A command fails or the script is killed.
Break ==
    /\ step \notin Stopped
    /\ step' = "error"
    /\ torn' = (torn \/ (InPgBuild /\ HasPostgres /\ step # "guard"))
    /\ \/ UNCHANGED cache
       \/ step = "make" /\ product = "gdal" /\ cache' \in {CacheToUse, Configured}
    /\ UNCHANGED <<product, tree, installed, arrow, gdal, saw>>

\* rm -rf pg-src pg-build pg-install, or arrow-src arrow-build arrow-install.
Remove ==
    /\ step \in Stopped
    /\ \/ /\ tree' = [tree EXCEPT !["postgresql"] = "none"]
          /\ installed' = {}
          /\ torn' = FALSE
          /\ UNCHANGED arrow
       \/ /\ tree' = [tree EXCEPT !["arrow"] = "none"]
          /\ arrow' = {}
          /\ UNCHANGED <<installed, torn>>
    /\ step' = "idle"
    /\ UNCHANGED <<product, cache, gdal, saw>>

BNext == \/ StartBuild \/ GuardBuild \/ Fetch \/ Move \/ Make
         \/ InstallPg \/ InstallPostgis \/ InstallArrow \/ InstallGdal
         \/ Break \/ Remove

BSpec == BInit /\ [][BNext]_bvars

-----------------------------------------------------------------------------
\* build_postgresql.sh ends with status 0 only when PostgreSQL and PostGIS are both
\* installed, or an installation was broken off since pg-install was last removed:
\* bin/postgres, which it looks for, is the first file of the installation.
InstalledOrTorn == step = "ok" /\ InPgBuild => installed = Everything \/ torn

\* build_gdal_full.sh builds the Parquet driver whenever build_arrow.sh had ended
\* before, whatever an earlier run had cached.
ParquetWhenArrow == step = "ok" /\ product = "gdal" /\ saw => gdal = "parquet"

=============================================================================
