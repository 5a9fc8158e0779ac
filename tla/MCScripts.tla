----------------------------- MODULE MCScripts -----------------------------
(***************************************************************************)
(* The scripts of Tiles, of MergeZukei and of Setup on small instances.    *)
(* They share no file, so a behaviour is that of one of the three.         *)
(***************************************************************************)
EXTENDS Tiles, MergeZukei, Setup

svars == <<bvars, dvars>>

MCNames == {<<1, 2>>, <<1, 1>>}

\* A behaviour of one kind is followed in one state of the others.
NoTiles == script = "shp" /\ run = 0
NoMerge == zscript = "tochi" /\ inputs = {} /\ zrun = 0
NoSetup == /\ product = "gdal" /\ step = "idle" /\ \A p \in DOMAIN tree : tree[p] = "none"
           /\ installed = {} /\ arrow = {} /\ cache = "none" /\ gdal = "none" /\ ~torn /\ ~saw
           /\ ~dir.exists /\ dpc = <<"none", "none">>

MCInit ==
    /\ Init /\ ZInit /\ SInit
    /\ \/ NoMerge /\ NoSetup
       \/ NoTiles /\ NoSetup
       \/ NoTiles /\ NoMerge

MCNext ==
    \/ NoMerge /\ NoSetup /\ Next /\ UNCHANGED <<zvars, svars>>
    \/ NoTiles /\ NoSetup /\ ZNext /\ UNCHANGED <<vars, svars>>
    \/ NoTiles /\ NoMerge /\ SNext /\ UNCHANGED <<vars, zvars>>

MCSpec == MCInit /\ [][MCNext]_<<vars, zvars, svars>>

=============================================================================
