----------------------------- MODULE MCGameMenu -----------------------------
(* Three games, two of them with the same first letter, and a medium from   *)
(* which one may be taken.                                                  *)
EXTENDS GameMenu

MCGames   == 1 .. 3
MCInitial == <<1, 1, 2>>
MCMedia   == {{1, 2, 3}, {1, 3}, {}}

(* What nobody looks at any more: the cursor of a menu that is hidden or    *)
(* shows settings, the game requested when no timer runs, the one chosen    *)
(* when something came between, the setting of no disc.                     *)
MCView ==
  <<IF menu.show /\ menu.type \in Lists THEN menu ELSE IF menu.show THEN At(menu.type) ELSE Closed,
    reinsert, call, cfg, file, di, IF armed = 0 THEN 0 ELSE requested, armed, disc,
    IF disc = None THEN 0 ELSE applied, medium, drive, cvr,
    IF excused THEN None ELSE chosen, excused>>
=============================================================================
