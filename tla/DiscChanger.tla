----------------------------- MODULE DiscChanger ----------------------------
(***************************************************************************)
(* What the disc emulation promises of changing games: the game asked for  *)
(* last is put into the drive, and the console takes notice of it.  Only a *)
(* game whose image is lost can put an end to that.                        *)
(***************************************************************************)
CONSTANTS
  Games,    \* the games that can be put into the drive
  Lost,     \* those of them whose image cannot be read
  NoGame    \* none of them

VARIABLES
  wanted,   \* the game asked for last
  drive,    \* the game in the drive
  noticed,  \* the game the console believes is in the drive
  dead      \* the drive answers no more

vars == <<wanted, drive, noticed, dead>>

Init ==
  /\ drive \in Games /\ wanted = drive
  /\ noticed = NoGame /\ dead = FALSE

Ask(g) == ~dead /\ wanted' = g /\ UNCHANGED <<drive, noticed, dead>>

Load ==
  /\ ~dead /\ drive # wanted /\ drive' = wanted
  /\ UNCHANGED <<wanted, noticed, dead>>

Notice ==
  /\ ~dead /\ noticed # drive /\ noticed' = drive
  /\ UNCHANGED <<wanted, drive, dead>>

Die ==
  /\ drive \in Lost /\ dead' = TRUE
  /\ UNCHANGED <<wanted, drive, noticed>>

Next == (\E g \in Games : Ask(g)) \/ Load \/ Notice \/ Die

Spec == Init /\ [][Next]_vars /\ WF_vars(Load) /\ WF_vars(Notice)
=============================================================================
