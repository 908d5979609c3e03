----------------------------- MODULE MCDiscData -----------------------------
(* Two images: in g1 split files end where blocks do and a sector is left   *)
(* out; in g2 blocks lie across the borders and a file is replaced.         *)
EXTENDS DiscData, TLC
CONSTANTS g1, g2

MCGames    == {g1, g2}
MCOffsets  == g1 :> <<5, 9>> @@ g2 :> <<4, 8, 11>>
MCUnused   == g1 :> {2} @@ g2 :> {}
MCReplaced == g1 :> NoFile @@ g2 :> [block |-> 2, at |-> 7, size |-> 2]
=============================================================================
