----------------------------- MODULE MCDelivery -----------------------------
(* Two CSVs: of the folder that is merged, or of two others. *)
EXTENDS Delivery

MCLayouts == {<<"toshi", "toshi">>, <<"gaiku", "tochi">>, <<"tochi", "kozu">>}

Plain(n) == [lines |-> n, header |-> TRUE, key |-> TRUE, short |-> FALSE]

MCShapes == [gaiku |-> {Plain(2)}, toshi |-> {Plain(2)},
             tochi |-> {Plain(2), [Plain(2) EXCEPT !.header = FALSE]},
             kozu |-> {[Plain(3) EXCEPT !.short = TRUE], [Plain(2) EXCEPT !.key = FALSE]}]
=============================================================================
