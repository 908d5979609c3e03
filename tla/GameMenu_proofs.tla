--------------------------- MODULE GameMenu_proofs --------------------------
(***************************************************************************)
(* For any games, media, channels and length of a page, whenever the power *)
(* fails and whatever is pressed: the list of games is whole, the cursor   *)
(* is on it, settings end up in file and game, and the game chosen last    *)
(* ends up in the drive.                                                   *)
(***************************************************************************)
EXTENDS GameMenu, FiniteSetTheorems, WellFoundedInduction, TLAPS

Configs == [state : {"whole", "absent", "empty"}, count : Nat, games : SUBSET Games,
            sorted : BOOLEAN, slot : Nat, set : {0, 1}, mount : BOOLEAN]
Calls   == [kind : {"none", "write", "select", "launch"}, slot : Int \cup {Real},
            next : {"none", "select", "launch"}]
Types   == {"games", "channels", "settings", "hacks", "dml"}
Menus   == [show : BOOLEAN, type : Types, pos : Int, scroll : Int, astray : BOOLEAN]

TypeOK ==
  /\ menu \in Menus /\ reinsert \in BOOLEAN /\ call \in Calls
  /\ cfg \in Configs /\ file \in Configs /\ cfg.state = "whole"
  /\ di \in {"look", "scan", "sort", "start", "up", "asking"}
  /\ requested \in Int \cup {Real} /\ armed \in 0 .. MaxArmed
  /\ applied \in {0, 1} /\ medium \in SUBSET Games
  /\ drive \in BOOLEAN /\ cvr \in BOOLEAN /\ excused \in BOOLEAN
  /\ disc \in Games \cup {Real, None} /\ chosen \in Games \cup {Real, None}

Running   == di \in {"up", "asking"}
Selecting == "select" \in {call.kind, call.next}
Leaving   == "launch" \in {call.kind, call.next}

(* Only a write is followed by something; before DI runs nothing is asked. *)
CallInv ==
  /\ call.next # "none" => call.kind = "write"
  /\ ~Running => call = NoCall /\ menu = Closed /\ ~reinsert /\ armed = 0 /\ disc = None /\ ~cvr

(* The list, in the file and in memory.  A file that counts games has all  *)
(* of them; in memory the count is cleared only for a restart.             *)
Whole(c) == c.count = Cardinality(c.games) /\ c.sorted
ListInv ==
  /\ file.state = "whole" => file.count = 0 \/ Whole(file)
  /\ di \in {"scan", "sort", "start"} => cfg = file
  /\ di = "start" => Whole(cfg)
  /\ Running => /\ file.state = "whole" /\ file.games = cfg.games /\ cfg.sorted /\ file.sorted
                /\ cfg.count = Cardinality(cfg.games) \/ (cfg.count = 0 /\ Leaving)
                /\ file.count = cfg.count \/ Leaving

(* The cursor; a menu that shows a list was not opened over another one.   *)
CursorInv ==
  menu.show /\ menu.type \in Lists =>
    /\ menu.pos \in 0 .. EntryCount - 1
    /\ menu.astray => menu.scroll < 0
    /\ ~menu.astray => menu.scroll >= 0 /\ (Count > 0 => Cursor < Count)

(* A setting that game or file do not have yet is on its way.              *)
SettingInv ==
  Running =>
    /\ file.slot = cfg.slot
    /\ disc # None => \/ applied = cfg.set /\ file.set = cfg.set
                      \/ reinsert \/ Selecting \/ Leaving \/ armed > 0

(* The game a slot stands for, whatever the count says; what a file makes  *)
(* DI put into the drive when it starts.                                   *)
Place(c, s)  == IF s \in 0 .. Cardinality(c.games) - 1 THEN s ELSE 0
Target(c, s) == IF s = Real THEN Real ELSE Nth(c.games, Place(c, s))
Says(c)      == IF chosen = Real THEN c.mount ELSE ~c.mount /\ Target(c, c.slot) = chosen

Arrived == /\ disc = chosen /\ Says(cfg) /\ Says(file)
ChoiceInv ==
  ~excused =>
    /\ chosen = Real => drive
    /\ Running => /\ Selecting => Target(cfg, call.slot) = chosen
                  /\ ~Selecting /\ armed > 0 => Target(cfg, requested) = chosen /\ (drive => cvr)
                  /\ ~Selecting /\ armed = 0 => IF drive /\ ~cvr THEN chosen = Real ELSE Arrived
    /\ ~Running /\ file.state = "whole" => Says(file)

IInv == TypeOK /\ CallInv /\ ListInv /\ CursorInv /\ SettingInv /\ ChoiceInv

-----------------------------------------------------------------------------
(* A set of numbers that is not empty has a least one; a greatest one if   *)
(* it is bounded.                                                          *)
LEMMA MinIsLeast ==
  ASSUME NEW S \in SUBSET Nat, S # {}
  PROVE  Min(S) \in S /\ \A k \in S : Min(S) <= k
<1>1. PICK h \in S : \A k \in S : ~(<<k, h>> \in OpToRel(<, Nat))
  BY WFMin, NatLessThanWellFounded
<1>2. ASSUME NEW k \in S  PROVE  h <= k
  <2>1. k \in Nat /\ h \in Nat
    OBVIOUS
  <2>2. k < h => <<k, h>> \in OpToRel(<, Nat)
    BY <2>1 DEF OpToRel
  <2>3. ~(k < h)
    BY <1>1, <2>2
  <2> QED  BY <2>1, <2>3
<1> QED  BY <1>2 DEF Min

LEMMA MaxIsGreatest ==
  ASSUME NEW n \in Nat, NEW S \in SUBSET (0 .. n), S # {}
  PROVE  Max(S) \in S
<1> DEFINE T == {n - k : k \in S}
<1>1. T \subseteq Nat /\ T # {}
  <2>1. ASSUME NEW k \in S  PROVE  n - k \in Nat
    <3>1. k \in 0 .. n
      OBVIOUS
    <3> QED  BY <3>1
  <2> QED  BY <2>1
<1>2. Min(T) \in T /\ \A j \in T : Min(T) <= j
  BY <1>1, MinIsLeast
<1>3. PICK m \in S : Min(T) = n - m
  BY <1>2
<1>4. ASSUME NEW k \in S  PROVE  m >= k
  <2>1. n - k \in T
    OBVIOUS
  <2>2. n - m <= n - k
    BY <1>2, <1>3, <2>1
  <2> QED  BY <2>2
<1> QED  BY <1>4 DEF Max

(* The list has a game in each of its places: the first has none before    *)
(* it, and the one that follows a game has one more before it.             *)
LEMMA EveryPlaceIsTaken ==
  ASSUME NEW S \in SUBSET Nat, IsFiniteSet(S), NEW k \in 0 .. Cardinality(S) - 1
  PROVE  \E g \in S : Cardinality({h \in S : h < g}) = k
<1> DEFINE Below(g) == {h \in S : h < g}
           Free == {i \in 0 .. Cardinality(S) - 1 : ~ \E g \in S : Cardinality(Below(g)) = i}
<1>1. Cardinality(S) \in Nat
  BY FS_CardinalityType
<1>2. SUFFICES ASSUME Free # {}  PROVE FALSE
  OBVIOUS
<1>3. Free \in SUBSET Nat
  BY <1>1
<1>4. PICK m \in Free : \A i \in Free : m <= i
  BY <1>2, <1>3, MinIsLeast
<1>5. m \in 0 .. Cardinality(S) - 1 /\ \A g \in S : Cardinality(Below(g)) # m
  BY <1>4
<1>6. \A g \in S : IsFiniteSet(Below(g)) /\ IsFiniteSet(Below(g) \cup {g})
  BY FS_Subset, FS_AddElement
<1>7. CASE m = 0
  <2>1. S # {}
    BY <1>5, <1>1, FS_EmptySet
  <2>2. Min(S) \in S /\ \A h \in S : Min(S) <= h
    BY <2>1, MinIsLeast
  <2>3. Below(Min(S)) = {}
    <3>1. ASSUME NEW h \in S  PROVE ~(h < Min(S))
      <4>1. h \in Nat /\ Min(S) \in Nat /\ Min(S) <= h
        BY <2>2
      <4> QED  BY <4>1
    <3> QED  BY <3>1
  <2> QED  BY <1>5, <1>7, <2>2, <2>3, FS_EmptySet
<1>8. CASE m # 0
  <2>1. m - 1 \in 0 .. Cardinality(S) - 1 /\ m - 1 \notin Free
    <3>1. m \in Nat /\ m - 1 \in 0 .. Cardinality(S) - 1
      BY <1>1, <1>5, <1>8
    <3>2. m - 1 \in Free => m <= m - 1
      BY <1>4
    <3> QED  BY <3>1, <3>2
  <2>2. PICK g \in S : Cardinality(Below(g)) = m - 1
    BY <2>1
  <2>3. Cardinality(Below(g) \cup {g}) = m
    <3>1. g \notin Below(g)
      OBVIOUS
    <3>2. Cardinality(Below(g) \cup {g}) = Cardinality(Below(g)) + 1
      BY <1>6, <3>1, FS_AddElement
    <3> QED  BY <1>5, <2>2, <3>2
  <2> DEFINE Above == S \ (Below(g) \cup {g})
  <2>4. Above # {}
    <3>1. SUFFICES ASSUME Above = {}  PROVE FALSE
      OBVIOUS
    <3>2. S = Below(g) \cup {g}
      BY <3>1
    <3>3. Cardinality(S) = m
      BY <2>3, <3>2, Zenon
    <3> QED  BY <1>1, <1>5, <3>3
  <2>5. Min(Above) \in Above /\ \A h \in Above : Min(Above) <= h
    BY <2>4, MinIsLeast
  <2>6. Below(Min(Above)) = Below(g) \cup {g}
    <3>1. ASSUME NEW h \in S  PROVE h < Min(Above) <=> h \in Below(g) \cup {g}
      <4>1. Min(Above) \in S /\ ~(Min(Above) < g) /\ Min(Above) # g
        BY <2>5
      <4>2. h \notin Below(g) \cup {g} => Min(Above) <= h
        BY <2>5
      <4>3. Min(Above) \in Nat /\ h \in Nat /\ g \in Nat
        BY <4>1
      <4>4. h \in Below(g) \cup {g} <=> h <= g
        BY <4>3
      <4> HIDE DEF Above
      <4> QED  BY <4>1, <4>2, <4>3, <4>4
    <3>2. Below(g) \cup {g} \subseteq S
      OBVIOUS
    <3> QED  BY <3>1, <3>2
  <2> QED  BY <1>5, <2>3, <2>5, <2>6
<1> QED  BY <1>7, <1>8

LEMMA NthIsThere ==
  ASSUME NEW S \in SUBSET Games, NEW k \in 0 .. Cardinality(S) - 1
  PROVE  Nth(S, k) \in S
<1>1. S \in SUBSET Nat /\ IsFiniteSet(S)
  BY GameMenuAssumption, FS_Subset
<1>2. \E g \in S : Cardinality({h \in S : h < g}) = k
  BY <1>1, EveryPlaceIsTaken
<1> QED  BY <1>2 DEF Nth

LEMMA CountIsNat ==
  ASSUME NEW S \in SUBSET Games
  PROVE  Cardinality(S) \in Nat
  BY GameMenuAssumption, FS_Subset, FS_CardinalityType

-----------------------------------------------------------------------------
LEMMA ClosedOK == Closed \in Menus
<1>1. 0 \in Int /\ "games" \in Types /\ FALSE \in BOOLEAN
  BY DEF Types
<1> QED  BY <1>1 DEF Closed, Menus

(* A cursor that is moved: into the list, away from it, by a line.         *)
LEMMA MovedIn ==
  ASSUME menu \in Menus, NEW pos \in Int, NEW scroll \in Int,
         menu' = [menu EXCEPT !.pos = pos, !.scroll = scroll, !.astray = FALSE]
  PROVE  /\ menu' \in Menus /\ menu'.show = menu.show /\ menu'.type = menu.type
         /\ menu'.pos = pos /\ menu'.scroll = scroll /\ ~menu'.astray
<1>1. FALSE \in BOOLEAN
  OBVIOUS
<1> QED  BY <1>1 DEF Menus

LEMMA MovedOut ==
  ASSUME menu \in Menus, NEW pos \in Int, NEW scroll \in Int,
         menu' = [menu EXCEPT !.pos = pos, !.scroll = scroll, !.astray = TRUE]
  PROVE  /\ menu' \in Menus /\ menu'.show = menu.show /\ menu'.type = menu.type
         /\ menu'.pos = pos /\ menu'.scroll = scroll /\ menu'.astray
<1>1. TRUE \in BOOLEAN
  OBVIOUS
<1> QED  BY <1>1 DEF Menus

LEMMA Scrolled ==
  ASSUME menu \in Menus, NEW scroll \in Int,
         menu' = [menu EXCEPT !.scroll = scroll, !.astray = menu.scroll < -1]
  PROVE  /\ menu' \in Menus /\ menu'.show = menu.show /\ menu'.type = menu.type
         /\ menu'.pos = menu.pos /\ menu'.scroll = scroll /\ (menu'.astray <=> menu.scroll < -1)
<1>1. (menu.scroll < -1) \in BOOLEAN
  OBVIOUS
<1> QED  BY <1>1 DEF Menus

LEMMA InitIInv == Init => IInv
<1> SUFFICES ASSUME Init  PROVE IInv
  OBVIOUS
<1> USE DEF Init, Default, Absent, Closed, NoCall
<1>1. TypeOK
  <2>1. menu \in Menus
    BY ClosedOK
  <2>4. call \in Calls
    BY DEF Calls
  <2>2. cfg \in Configs /\ file \in Configs /\ cfg.state = "whole"
    BY DEF Configs
  <2>3. requested \in Int \cup {Real} /\ armed \in 0 .. MaxArmed /\ medium \in SUBSET Games
    BY GameMenuAssumption DEF MaxArmed
  <2> QED  BY <2>1, <2>2, <2>3, <2>4 DEF TypeOK
<1>2. CallInv /\ ListInv /\ CursorInv /\ SettingInv /\ ChoiceInv
  BY DEF CallInv, ListInv, CursorInv, SettingInv, ChoiceInv, Running
<1> QED  BY <1>1, <1>2 DEF IInv

(* What a selection does.                                                  *)
Selected(s) ==
  /\ Opens(s) /\ applied' = cfg.set
  /\ cfg' \in Configs /\ file' \in Configs
  /\ cfg'.state = cfg.state /\ cfg'.count = cfg.count /\ cfg'.games = cfg.games
  /\ cfg'.sorted = cfg.sorted /\ cfg'.set = cfg.set
  /\ file'.state = file.state /\ file'.games = file.games /\ file'.sorted = file.sorted
  /\ file'.count = cfg'.count /\ file'.slot = cfg'.slot /\ file'.set = cfg'.set /\ file'.mount = cfg'.mount
  /\ IF s = Real THEN disc' = Real /\ cfg'.mount /\ cfg'.slot = cfg.slot
                 ELSE disc' = Nth(cfg.games, Slot(s)) /\ ~cfg'.mount /\ cfg'.slot = Slot(s)
  /\ disc' \in Games \cup {Real}

LEMMA SelectShape ==
  ASSUME TypeOK, NEW s \in Int \cup {Real}, DVDSelectGame(s)
  PROVE  Selected(s) \/ (~Opens(s) /\ disc' = None /\ UNCHANGED <<applied, cfg, file>>)
<1>1. cfg \in Configs /\ file \in Configs /\ medium \in SUBSET Games /\ cfg.count \in Nat
  BY DEF TypeOK, Configs
<1>2. Slot(s) \in Nat
  BY <1>1 DEF Slot
<1>3. CASE Opens(s)
  <2>1. cfg' = Noted(s) /\ file' = Written(cfg') /\ applied' = cfg.set
    BY <1>3 DEF DVDSelectGame
  <2>2. /\ cfg' \in Configs
        /\ cfg'.state = cfg.state /\ cfg'.count = cfg.count /\ cfg'.games = cfg.games
        /\ cfg'.sorted = cfg.sorted /\ cfg'.set = cfg.set
        /\ IF s = Real THEN cfg'.mount /\ cfg'.slot = cfg.slot ELSE ~cfg'.mount /\ cfg'.slot = Slot(s)
    BY <1>1, <1>2, <2>1 DEF Noted, Configs
  <2>3. /\ file' \in Configs
        /\ file'.state = file.state /\ file'.games = file.games /\ file'.sorted = file.sorted
        /\ file'.count = cfg'.count /\ file'.slot = cfg'.slot /\ file'.set = cfg'.set /\ file'.mount = cfg'.mount
    BY <1>1, <2>1, <2>2 DEF Written, Configs
  <2>4. /\ disc' = IF s = Real THEN Real ELSE Nth(cfg.games, Slot(s))
        /\ disc' \in Games \cup {Real}
    BY <1>1, <1>3 DEF DVDSelectGame, Opens
  <2> QED  BY <1>3, <2>1, <2>2, <2>3, <2>4 DEF Selected
<1>4. CASE ~Opens(s)
  BY <1>4 DEF DVDSelectGame
<1> QED  BY <1>3, <1>4

-----------------------------------------------------------------------------
(* The cursor.                                                             *)
LEMMA PageOfSpec ==
  ASSUME NEW s \in Int
  PROVE  PageOf(s) \in Nat /\ (s < 0 => PageOf(s) = 0) /\ (s >= 0 => PageOf(s) <= s)
<1>1. EntryCount \in Nat /\ EntryCount > 0
  BY GameMenuAssumption
<1>2. CASE s < 0
  BY <1>2 DEF PageOf
<1>3. CASE s >= 0
  <2> DEFINE q == s \div EntryCount
  <2>1. q \in Nat /\ q * EntryCount <= s
    BY <1>1, <1>3
  <2>2. q * EntryCount \in Nat
    BY <1>1, <2>1
  <2> QED  BY <1>3, <2>1, <2>2 DEF PageOf
<1> QED  BY <1>2, <1>3

(* A jump lands in the list, or before its first line.                     *)
Lands == \/ \E i \in Nat : To(0, i) /\ (Count > 0 => i < Count)
         \/ Astray

LEMMA JumpLands ==
  ASSUME TypeOK, Jump
  PROVE  Lands \/ UNCHANGED menu \/ (Count = 0 /\ EntryCount > 1 /\ To(1, 0))
<1>1. cfg.count \in Nat /\ menu.pos \in Int /\ menu.scroll \in Int
  BY DEF TypeOK, Configs, Menus
<1>2. Count = cfg.count
  BY DEF Jump, Count
<1>3. ASSUME NEW S \in SUBSET Places, S # {}
      PROVE  Min(S) \in Nat /\ Min(S) < cfg.count
  <2>1. S \in SUBSET Nat
    BY <1>1 DEF Places
  <2>2. Min(S) \in Places
    BY <2>1, <1>3, MinIsLeast
  <2> QED  BY <1>1, <2>2 DEF Places
<1>4. ASSUME NEW letter, NEW j \in Places, Letter(j) = letter
      PROVE  LET m == Min({i \in Places : Letter(i) = letter}) IN m \in Nat /\ m < cfg.count
  BY <1>3, <1>4
<1>5. cfg.count > 0 => cfg.count - 1 \in Places
  BY <1>1 DEF Places
<1>6. CASE cfg.count > 0 /\ NextLetter
  <2> DEFINE after == {i \in Places : Letter(i) > Letter(Cursor)}
             to == IF after = {} THEN 0 ELSE Min(after)
  <2>1. to \in Nat /\ to < cfg.count
    BY <1>1, <1>3, <1>6
  <2>2. To(0, to)
    BY <1>6 DEF NextLetter
  <2> QED  BY <1>2, <2>1, <2>2 DEF Lands
<1>7. CASE cfg.count > 0 /\ PreviousLetter
  <2> DEFINE before == {i \in Places : Letter(i) < Letter(Cursor)}
             last   == IF before = {} THEN cfg.count - 1 ELSE Max(before)
             to     == Min({i \in Places : Letter(i) = Letter(last)})
  <2>1. last \in Places
    <3>1. before # {} => Max(before) \in before
      <4>1. cfg.count - 1 \in Nat /\ before \in SUBSET (0 .. cfg.count - 1)
        BY <1>1, <1>7 DEF Places
      <4> QED  BY <4>1, MaxIsGreatest
    <3> QED  BY <1>5, <1>7, <3>1
  <2>2. to \in Nat /\ to < cfg.count
    BY <1>4, <2>1
  <2>3. To(0, to) \/ Astray
    BY <1>7 DEF PreviousLetter
  <2> QED  BY <1>2, <2>2, <2>3 DEF Lands
<1>8. CASE Astray \/ UNCHANGED menu
  BY <1>8 DEF Lands
<1>9. CASE To(0, 0)
  BY <1>1, <1>2, <1>9 DEF Lands
<1>10. CASE cfg.count = 0 /\ EntryCount > 1 /\ To(1, 0)
  BY <1>2, <1>10
<1>11. CASE cfg.count > 0 /\ To(0, Min({i \in Places : Letter(i) = Letter(cfg.count - 1)}))
  BY <1>2, <1>4, <1>5, <1>11 DEF Lands
<1> QED  BY <1>6, <1>7, <1>8, <1>9, <1>10, <1>11 DEF Jump

LEMMA CursorMoves ==
  ASSUME TypeOK, CursorInv, Move \/ Jump
  PROVE  menu' \in Menus /\ CursorInv'
<1>1. /\ menu \in Menus /\ menu.pos \in Int /\ menu.scroll \in Int /\ menu.astray \in BOOLEAN
      /\ cfg.count \in Nat /\ Channels \in Nat /\ EntryCount \in Nat /\ EntryCount > 0
  BY GameMenuAssumption DEF TypeOK, Configs, Menus
<1>2. menu.show /\ menu.type \in Lists /\ UNCHANGED cfg
  BY DEF Move, Jump, Lists
<1>3. Count \in Nat
  BY <1>1 DEF Count
<1>4. /\ menu.pos \in 0 .. EntryCount - 1
      /\ menu.astray => menu.scroll < 0
      /\ ~menu.astray => menu.scroll >= 0 /\ (Count > 0 => menu.pos + menu.scroll < Count)
  BY <1>2 DEF CursorInv, Cursor
<1>5. ASSUME menu' \in Menus, menu'.show = menu.show, menu'.type = menu.type,
             menu'.pos \in 0 .. EntryCount - 1,
             menu'.astray => menu'.scroll < 0,
             ~menu'.astray => menu'.scroll >= 0 /\ (Count > 0 => menu'.pos + menu'.scroll < Count)
      PROVE  CursorInv'
  <2>1. Count' = Count
    BY <1>2, <1>5 DEF Count
  <2> QED  BY <1>5, <2>1 DEF CursorInv, Cursor
<1>6. ASSUME NEW pos \in 0 .. EntryCount - 1, NEW scroll \in Nat, To(pos, scroll),
             Count > 0 => pos + scroll < Count
      PROVE  menu' \in Menus /\ CursorInv'
  <2>1. /\ menu' \in Menus /\ menu'.show = menu.show /\ menu'.type = menu.type
        /\ menu'.pos = pos /\ menu'.scroll = scroll /\ ~menu'.astray
    <3>1. pos \in Int /\ scroll \in Int
      BY <1>1
    <3> QED  BY <1>1, <1>6, <3>1, MovedIn, Zenon DEF To
  <2> QED  BY <1>5, <1>6, <2>1
<1>7. CASE Up
  BY <1>1, <1>4, <1>5, <1>7, <1>3 DEF Up, Menus, Lowest
<1>8. CASE Down
  <2>1. CASE UNCHANGED menu
    BY <1>1, <1>4, <1>5, <2>1
  <2>2. CASE /\ More(Cursor + 1) /\ menu.pos < EntryCount - 1
             /\ menu' = [menu EXCEPT !.pos = @ + 1]
    BY <1>1, <1>3, <1>4, <1>5, <2>2 DEF Menus, More, Cursor
  <2>3. CASE /\ More(Cursor + 1) /\ ~(menu.pos < EntryCount - 1)
             /\ menu' = [menu EXCEPT !.scroll = @ + 1, !.astray = menu.scroll < -1]
    <3>1. /\ menu' \in Menus /\ menu'.show = menu.show /\ menu'.type = menu.type
          /\ menu'.pos = menu.pos /\ menu'.scroll = menu.scroll + 1
          /\ menu'.astray <=> menu.scroll < -1
      <4>1. menu.scroll + 1 \in Int
        BY <1>1
      <4> QED  BY <1>1, <2>3, <4>1, Scrolled, Zenon
    <3>2. 0 <= menu.pos + menu.scroll + 1 /\ menu.pos + menu.scroll + 1 < Count
      BY <1>1, <1>3, <2>3 DEF More, Cursor
    <3> QED  BY <1>1, <1>3, <1>4, <1>5, <3>1, <3>2
  <2> QED  BY <1>8, <2>1, <2>2, <2>3 DEF Down
<1>9. CASE PageDown
  BY <1>1, <1>3, <1>6, <1>9, PageOfSpec DEF PageDown
<1>10. CASE PageUp
  <2>1. PageOf(menu.scroll) > EntryCount =>
          /\ menu.scroll - EntryCount \in Nat
          /\ Count > 0 => menu.scroll - EntryCount < Count
    BY <1>1, <1>3, <1>4, PageOfSpec
  <2> QED  BY <1>1, <1>3, <1>6, <1>10, <2>1 DEF PageUp
<1>11. CASE Jump
  <2>1. CASE Astray
    <3>1. PICK s \in Lowest .. -1 : menu' = [menu EXCEPT !.pos = 0, !.scroll = s, !.astray = TRUE]
      BY <2>1 DEF Astray
    <3>2. s \in Int /\ s < 0 /\ 0 \in Int
      BY <3>1 DEF Lowest
    <3>3. /\ menu' \in Menus /\ menu'.show = menu.show /\ menu'.type = menu.type
          /\ menu'.pos = 0 /\ menu'.scroll = s /\ menu'.astray
      BY <1>1, <3>1, <3>2, MovedOut, Zenon
    <3> QED  BY <1>1, <1>5, <3>2, <3>3
  <2>2. CASE UNCHANGED menu
    BY <1>1, <1>4, <1>5, <2>2
  <2>3. CASE Count = 0 /\ EntryCount > 1 /\ To(1, 0)
    BY <1>1, <1>6, <2>3
  <2>4. CASE \E i \in Nat : To(0, i) /\ (Count > 0 => i < Count)
    BY <1>1, <1>6, <2>4
  <2> QED  BY <1>11, <2>1, <2>2, <2>3, <2>4, JumpLands DEF Lands
<1> QED  BY <1>7, <1>8, <1>9, <1>10, <1>11 DEF Move

-----------------------------------------------------------------------------
(* What a button does to the menu: it hides it, opens it at the top of a   *)
(* page, or turns to the settings from a menu that shows none.             *)
LEMMA AtOK ==
  ASSUME NEW type \in Types
  PROVE  /\ At(type) \in Menus /\ At(type).show /\ At(type).type = type
         /\ At(type).pos = 0 /\ At(type).scroll = 0 /\ ~At(type).astray
<1>1. TRUE \in BOOLEAN /\ FALSE \in BOOLEAN /\ 0 \in Int
  OBVIOUS
<1> QED  BY <1>1 DEF At, Closed, Menus

Opened == \E type \in Types : menu' = At(type)
Hidden == menu' \in Menus /\ (~menu'.show \/ menu'.type \notin Lists)

LEMMA HideOK ==
  ASSUME menu \in Menus, menu' = [menu EXCEPT !.show = FALSE]
  PROVE  Hidden
<1>1. FALSE \in BOOLEAN
  OBVIOUS
<1> QED  BY <1>1 DEF Menus, Hidden

LEMMA TurnOK ==
  ASSUME menu \in Menus, menu' = [menu EXCEPT !.show = ~@, !.type = "settings"]
  PROVE  Hidden
<1>1. (~menu.show) \in BOOLEAN /\ "settings" \in Types /\ "settings" \notin Lists
  BY DEF Types, Lists
<1> QED  BY <1>1 DEF Menus, Hidden

LEMMA ShutOK ==
  ASSUME NEW type \in Types, menu' = [At(type) EXCEPT !.show = FALSE]
  PROVE  Hidden
<1>1. FALSE \in BOOLEAN
  OBVIOUS
<1> QED  BY <1>1, AtOK DEF Menus, Hidden

LEMMA PressMenu ==
  ASSUME TypeOK, Press
  PROVE  Opened \/ Hidden \/ UNCHANGED menu \/ Move \/ Jump
<1>1. menu \in Menus /\ menu.type \in Types
  BY DEF TypeOK, Menus
<1> USE DEF Opened
<1>2. CASE PressStart
  BY <1>1, <1>2, HideOK DEF PressStart, Types
<1>3. CASE PressZ
  BY <1>1, <1>3, TurnOK DEF PressZ, Types
<1>4. CASE PressB
  <2>1. CASE menu.type \in {"games", "settings"}
    BY <1>1, <1>4, <2>1, ShutOK DEF PressB
  <2>2. CASE menu.type = "channels"
    BY <1>4, <2>2 DEF PressB, Types
  <2>3. CASE menu.type \notin {"games", "settings", "channels"}
    BY <1>4, <2>3 DEF PressB, Types
  <2> QED  BY <2>1, <2>2, <2>3
<1>5. CASE PressXY
  <2>1. Pages[menu.type] \in Types /\ Pages[Pages[menu.type]] \in Types
    BY <1>1, <1>5 DEF PressXY, Pages, Types, Lists
  <2> QED  BY <1>5, <2>1 DEF PressXY
<1>6. CASE Choose \/ LaunchChannel \/ MountRow
  BY <1>1, <1>6, HideOK DEF Choose, LaunchChannel, MountRow, Hide
<1>7. CASE PressOther \/ SettingsRow \/ RestartRow \/ DmlRow \/ HacksRow
  BY <1>7 DEF PressOther, SettingsRow, RestartRow, DmlRow, HacksRow
<1> QED  BY <1>2, <1>3, <1>4, <1>5, <1>6, <1>7 DEF Press

(* What a button asks for, and what it changes.  The disc is put in again  *)
(* by the slot noted down, which is excused when it overtakes something.   *)
Stays   == call' = call /\ (reinsert => reinsert')
Writes  == call'.kind = "write" /\ call'.next = "none" /\ (reinsert => reinsert')
Repeats == /\ call'.slot = cfg.slot /\ (Overtakes => excused')
           /\ \/ call'.kind = "select" /\ call'.next = "none"
              \/ call'.kind = "write" /\ call'.next = "select"
Restarts == /\ call'.kind = "launch" /\ call'.next = "none" /\ cfg' = cfg
            \/ /\ call'.kind = "write" /\ call'.next = "launch"
               /\ cfg' = Emptied \/ (cfg' = Restored /\ (chosen = Real => excused'))
Flipped  == [cfg EXCEPT !.set = 1 - @]

Works == \/ (cfg' = cfg \/ (cfg' = Flipped /\ reinsert')) /\ (Stays \/ Writes \/ Repeats)
         \/ Restarts
PressKind ==
  /\ call' \in Calls /\ cfg' \in Configs /\ cfg'.state = cfg.state
  /\ reinsert' \in BOOLEAN /\ excused' \in BOOLEAN
  /\ \/ Choose \/ MountRow
     \/ UNCHANGED chosen /\ (excused => excused') /\ Works

LEMMA AskOK ==
  ASSUME NEW kind \in {"none", "write", "select", "launch"}, NEW slot \in Int \cup {Real},
         NEW next \in {"none", "select", "launch"},
         Ask(kind, slot, next)
  PROVE  call' \in Calls /\ call'.kind = kind /\ call'.slot = slot /\ call'.next = next
  BY DEF Ask, Calls

LEMMA ConfigsOK ==
  ASSUME cfg \in Configs
  PROVE  /\ Flipped \in Configs /\ Flipped.state = cfg.state
         /\ Emptied \in Configs /\ Emptied.state = cfg.state
         /\ Restored \in Configs /\ Restored.state = cfg.state
<1>1. /\ FALSE \in BOOLEAN /\ Default.set = 0 /\ 0 \in {0, 1} /\ 0 \in Nat
      /\ 1 - cfg.set \in {0, 1}
  BY DEF Default, Configs
<1>2. Flipped \in Configs /\ Flipped.state = cfg.state
  BY <1>1 DEF Configs, Flipped
<1>3. Emptied \in Configs /\ Emptied.state = cfg.state
  BY <1>1 DEF Configs, Emptied
<1>4. Restored \in Configs /\ Restored.state = cfg.state
  BY <1>1 DEF Configs, Restored
<1> QED  BY <1>2, <1>3, <1>4

LEMMA PressShape ==
  ASSUME TypeOK, Press
  PROVE  PressKind
<1>1. /\ cfg \in Configs /\ call \in Calls /\ reinsert \in BOOLEAN /\ excused \in BOOLEAN
      /\ cfg.slot \in Int /\ 0 \in Int /\ cfg.state = "whole"
  BY DEF TypeOK, Configs
<1> USE DEF PressKind
<1>2. ASSUME Ask("select", cfg.slot, "none"), excused' = (excused \/ Overtakes),
             reinsert' \in BOOLEAN, UNCHANGED <<cfg, chosen>>
      PROVE  PressKind
  BY <1>1, <1>2, AskOK DEF Works, Repeats
<1>3. ASSUME UNCHANGED <<call, reinsert, excused, cfg, chosen>>  PROVE PressKind
  BY <1>1, <1>3 DEF Works, Stays
<1>4. ASSUME Again, UNCHANGED <<cfg, chosen>>  PROVE PressKind
  BY <1>2, <1>3, <1>4 DEF Again
<1>5. CASE PressStart \/ PressZ \/ PressOther
  BY <1>4, <1>5 DEF PressStart, PressZ, PressOther
<1>6. CASE PressB \/ PressXY \/ Move \/ Jump
  BY <1>3, <1>6 DEF PressB, PressXY, Move, Jump
<1>7. CASE LaunchChannel \/ HacksRow
  <2>1. Ask("launch", 0, "none") /\ UNCHANGED <<reinsert, cfg, chosen, excused>>
    BY <1>7 DEF LaunchChannel, HacksRow
  <2>2. call' \in Calls /\ call'.kind = "launch" /\ call'.next = "none"
    BY <1>1, <2>1, AskOK
  <2> QED  BY <1>1, <2>1, <2>2 DEF Works, Restarts
<1>8. CASE SettingsRow
  <2>1. PICK b \in Buttons : DiscRow(b) \/ HookRow(b) \/ PlainRow(b) \/ EmptyRow(b)
    BY <1>8 DEF SettingsRow
  <2>2. UNCHANGED chosen
    BY <1>8 DEF SettingsRow
  <2>3. CASE DiscRow(b)
    <3>1. /\ cfg' = Flipped /\ reinsert' = TRUE /\ excused' \in BOOLEAN /\ (excused => excused')
          /\ b = "Left" => (Overtakes => excused')
      BY <2>3 DEF DiscRow, Change, Flipped, Overtaken
    <3>2. CASE b = "Left"
      <4>1. Ask("write", cfg.slot, "select")
        BY <2>3, <3>2 DEF DiscRow, After
      <4> QED  BY <1>1, <2>2, <3>1, <3>2, <4>1, AskOK, ConfigsOK DEF Works, Repeats
    <3>3. CASE b # "Left"
      <4>1. Ask("write", cfg.slot, "none")
        BY <2>3, <3>3 DEF DiscRow, After
      <4> QED  BY <1>1, <2>2, <3>1, <4>1, AskOK, ConfigsOK DEF Works, Writes
    <3> QED  BY <3>2, <3>3
  <2>4. CASE HookRow(b)
    <3>1. /\ cfg' = Flipped /\ reinsert' = TRUE /\ excused' \in BOOLEAN /\ (excused => excused')
          /\ b = "Left" => (Overtakes => excused')
      BY <2>4 DEF HookRow, Change, Flipped, Overtaken
    <3>2. CASE b = "Left"
      BY <1>1, <2>2, <2>4, <3>1, <3>2, AskOK, ConfigsOK DEF HookRow, Works, Repeats
    <3>3. CASE b # "Left"
      BY <1>1, <2>2, <2>4, <3>1, <3>3, ConfigsOK DEF HookRow, Works, Stays
    <3> QED  BY <3>2, <3>3
  <2>5. CASE PlainRow(b)
    <3>1. /\ UNCHANGED <<cfg, reinsert>> /\ excused' \in BOOLEAN /\ (excused => excused')
          /\ b = "Left" /\ reinsert => (Overtakes => excused')
      BY <2>5 DEF PlainRow, Overtaken
    <3>2. CASE b = "Left" /\ reinsert
      <4>1. Ask("write", cfg.slot, "select")
        BY <2>5, <3>2 DEF PlainRow, After
      <4> QED  BY <1>1, <2>2, <3>1, <3>2, <4>1, AskOK DEF Works, Repeats
    <3>3. CASE ~(b = "Left" /\ reinsert)
      <4>1. Ask("write", cfg.slot, "none")
        BY <2>5, <3>3 DEF PlainRow, After
      <4> QED  BY <1>1, <2>2, <3>1, <4>1, AskOK DEF Works, Writes
    <3> QED  BY <3>2, <3>3
  <2>6. CASE EmptyRow(b)
    <3>1. /\ UNCHANGED <<cfg, reinsert>> /\ excused' \in BOOLEAN /\ (excused => excused')
          /\ b = "Left" /\ reinsert => (Overtakes => excused')
      BY <2>6 DEF EmptyRow, Overtaken
    <3>2. CASE b = "Left" /\ reinsert
      BY <1>1, <2>2, <2>6, <3>1, <3>2, AskOK DEF EmptyRow, Works, Repeats
    <3>3. CASE ~(b = "Left" /\ reinsert)
      BY <1>1, <2>2, <2>6, <3>1, <3>3 DEF EmptyRow, Works, Stays
    <3> QED  BY <3>2, <3>3
  <2> QED  BY <2>1, <2>3, <2>4, <2>5, <2>6
<1>9. CASE RestartRow
  <2>1. UNCHANGED <<reinsert, chosen>>
    BY <1>9 DEF RestartRow
  <2>2. CASE cfg' = Emptied /\ Ask("write", 0, "launch") /\ UNCHANGED excused
    <3>1. call' \in Calls /\ call'.kind = "write" /\ call'.next = "launch"
      BY <1>1, <2>2, AskOK
    <3>2. cfg' \in Configs /\ cfg'.state = cfg.state
      BY <1>1, <2>2, ConfigsOK
    <3> QED  BY <1>1, <2>1, <2>2, <3>1, <3>2 DEF Works, Restarts
  <2>3. CASE cfg' = Restored /\ Ask("write", 0, "launch") /\ excused' = (excused \/ chosen = Real)
    <3>1. call' \in Calls /\ call'.kind = "write" /\ call'.next = "launch"
      BY <1>1, <2>3, AskOK
    <3>2. cfg' \in Configs /\ cfg'.state = cfg.state
      BY <1>1, <2>3, ConfigsOK
    <3>3. excused' \in BOOLEAN /\ (excused => excused') /\ (chosen = Real => excused')
      BY <1>1, <2>3
    <3> QED  BY <2>1, <1>1, <2>3, <3>1, <3>2, <3>3 DEF Works, Restarts
  <2>4. CASE UNCHANGED <<cfg, excused>> /\ Ask("launch", 0, "none")
    <3>1. call' \in Calls /\ call'.kind = "launch" /\ call'.next = "none"
      BY <1>1, <2>4, AskOK
    <3> QED  BY <1>1, <2>1, <2>4, <3>1 DEF Works, Restarts
  <2> QED  BY <1>9, <2>2, <2>3, <2>4 DEF RestartRow
<1>10. CASE DmlRow
  <2>1. CASE Change /\ UNCHANGED call
    BY <1>1, <1>10, <2>1, ConfigsOK DEF DmlRow, Change, Flipped, Works, Stays
  <2>2. CASE Ask("write", 0, "none") /\ UNCHANGED <<cfg, reinsert>>
    BY <1>1, <1>10, <2>2, AskOK DEF DmlRow, Works, Writes
  <2> QED  BY <1>10, <2>1, <2>2 DEF DmlRow
<1>11. CASE Choose
  <2>1. Cursor \in Int
    BY DEF TypeOK, Menus, Cursor
  <2>2. Ask("select", Cursor, "none") /\ UNCHANGED <<reinsert, cfg>> /\ excused' = (cfg.count = 0)
    BY <1>11 DEF Choose, Entry
  <2>3. call' \in Calls
    BY <2>1, <2>2, AskOK
  <2> QED  BY <1>1, <1>11, <2>2, <2>3
<1>12. CASE MountRow
  BY <1>1, <1>12, AskOK DEF MountRow
<1> QED
  BY <1>5, <1>6, <1>7, <1>8, <1>9, <1>10, <1>11, <1>12 DEF Press

-----------------------------------------------------------------------------
(* What a slot stands for depends on the list alone, and noting down what  *)
(* it stands for changes nothing.                                          *)
LEMMA SameTarget ==
  ASSUME NEW c, NEW d, c.games = d.games, NEW s
  PROVE  Target(c, s) = Target(d, s)
  BY DEF Target, Place

LEMMA SameSays ==
  ASSUME NEW c, NEW d, c.games = d.games, c.slot = d.slot, c.mount = d.mount
  PROVE  Says(c) <=> Says(d)
  BY SameTarget DEF Says

(* A game that was selected is what its slot stood for, and is noted down. *)
LEMMA SelectedIsTarget ==
  ASSUME TypeOK, NEW s \in Int \cup {Real}, Selected(s),
         cfg.count = Cardinality(cfg.games) \/ cfg.count = 0, file.games = cfg.games
  PROVE  disc' = Target(cfg, s) /\ (chosen = disc' /\ chosen' = chosen => Arrived')
<1>1. cfg \in Configs /\ cfg.count \in Nat /\ cfg.games \in SUBSET Games /\ Real \notin Int /\ Games \subseteq Nat
  BY GameMenuAssumption DEF TypeOK, Configs
<1>2. CASE s = Real
  BY <1>2 DEF Selected, Target, Arrived, Says
<1>3. CASE s # Real
  <2>1. cfg.count > 0 /\ cfg.count = Cardinality(cfg.games) /\ s \in Int
    BY <1>1, <1>3 DEF Selected, Opens
  <2>2. Slot(s) = Place(cfg, s) /\ Slot(s) \in Nat /\ Place(cfg, Slot(s)) = Slot(s)
    BY <1>1, <2>1 DEF Slot, Place
  <2>3. disc' = Target(cfg, s) /\ disc' = Target(cfg, Slot(s)) /\ Slot(s) # Real
    BY <1>1, <1>3, <2>2 DEF Selected, Target
  <2>4. /\ ~cfg'.mount /\ ~file'.mount /\ cfg'.slot = Slot(s) /\ file'.slot = Slot(s)
        /\ cfg'.games = cfg.games /\ file'.games = cfg.games /\ disc' # Real
    BY <1>1, <1>3 DEF Selected, Opens, TypeOK
  <2>5. Target(cfg', Slot(s)) = disc' /\ Target(file', Slot(s)) = disc'
    BY <2>3, <2>4, SameTarget
  <2> QED  BY <2>3, <2>4, <2>5 DEF Arrived, Says
<1> QED  BY <1>2, <1>3

-----------------------------------------------------------------------------
(* DI builds the list.                                                     *)
LEMMA LookInv ==
  ASSUME IInv, Look
  PROVE  IInv'
<1> USE DEF IInv
<1>1. /\ di = "look" /\ di' \in {"scan", "start"} /\ ~Running /\ ~Running'
      /\ cfg' = file' /\ cfg' \in {file, Default} /\ (di' = "scan" <=> cfg'.count = 0)
      /\ file.state # "whole" => excused'
      /\ file.state = "whole" => cfg' = file
      /\ file.state # "whole" => cfg' = Default
      /\ excused' = (excused \/ file.state # "whole")
      /\ UNCHANGED <<es, requested, armed, disc, applied, cvr, medium, drive, chosen>>
  BY DEF Look, Running
<1>2. Default \in Configs /\ Default.state = "whole" /\ Default.count = 0
  BY DEF Default, Configs
<1>3. TypeOK'
  <2>1. cfg' \in Configs /\ file' \in Configs /\ cfg'.state = "whole" /\ excused' \in BOOLEAN
    BY <1>1, <1>2 DEF TypeOK
  <2> QED  BY <1>1, <2>1 DEF TypeOK, es
<1>4. CallInv'
  BY <1>1 DEF CallInv, es
<1>5. ListInv'
  BY <1>1, <1>2 DEF ListInv, Whole
<1>6. CursorInv' /\ SettingInv'
  BY <1>1 DEF CursorInv, SettingInv, CallInv, es, Closed
<1>7. ChoiceInv'
  <2>1. ~excused' => ~excused /\ file' = file /\ file.state = "whole"
    BY <1>1
  <2>2. file' = file => (Says(file)' <=> Says(file))
    BY <1>1 DEF Says, Target, Place
  <2> QED  BY <1>1, <2>1, <2>2 DEF ChoiceInv
<1> QED  BY <1>3, <1>4, <1>5, <1>6, <1>7

LEMMA ScanInv ==
  ASSUME IInv, Scan
  PROVE  IInv'
<1> USE DEF IInv
<1>1. /\ di = "scan" /\ di' = "sort" /\ ~Running /\ ~Running' /\ cfg = file /\ cfg' = file'
      /\ excused' = (excused \/ cfg.games # medium)
      /\ UNCHANGED <<es, requested, armed, disc, applied, cvr, medium, drive, chosen>>
  BY DEF Scan, Running, ListInv
<1>2. /\ cfg' \in Configs /\ cfg'.state = "whole" /\ cfg'.count = 0 /\ cfg'.games = medium
      /\ cfg'.slot = cfg.slot /\ cfg'.mount = cfg.mount
  <2>1. cfg \in Configs /\ cfg.state = "whole" /\ medium \in SUBSET Games /\ 0 \in Nat /\ FALSE \in BOOLEAN
    BY DEF TypeOK
  <2>2. cfg' = [cfg EXCEPT !.games = medium, !.count = 0, !.sorted = FALSE]
    BY DEF Scan, CountSoFar
  <2> QED  BY <2>1, <2>2 DEF Configs
<1>3. TypeOK'
  <2>1. cfg' \in Configs /\ file' \in Configs /\ cfg'.state = "whole" /\ excused' \in BOOLEAN
    BY <1>1, <1>2 DEF TypeOK
  <2> QED  BY <1>1, <2>1 DEF TypeOK, es
<1>4. CallInv'
  BY <1>1 DEF CallInv, es
<1>5. ListInv'
  BY <1>1, <1>2 DEF ListInv
<1>6. CursorInv' /\ SettingInv'
  BY <1>1 DEF CursorInv, SettingInv, CallInv, es, Closed
<1>7. ChoiceInv'
  <2>1. ~excused' => ~excused /\ cfg'.games = cfg.games
    BY <1>1, <1>2
  <2>2. cfg'.games = cfg.games => (Says(file)' <=> Says(file))
    BY <1>1, <1>2 DEF Says, Target, Place
  <2> QED  BY <1>1, <1>2, <2>1, <2>2 DEF ChoiceInv, TypeOK
<1> QED  BY <1>3, <1>4, <1>5, <1>6, <1>7

LEMMA SortInv ==
  ASSUME IInv, Sort
  PROVE  IInv'
<1> USE DEF IInv
<1>1. /\ di = "sort" /\ di' = "start" /\ ~Running /\ ~Running' /\ cfg = file /\ cfg' = file'
      /\ UNCHANGED <<es, requested, armed, disc, applied, cvr, medium, drive, chosen, excused>>
  BY DEF Sort, Running, ListInv
<1>2. /\ cfg' \in Configs /\ cfg'.state = "whole" /\ Whole(cfg')
      /\ cfg'.games = cfg.games /\ cfg'.slot = cfg.slot /\ cfg'.mount = cfg.mount
  <2>1. cfg \in Configs /\ cfg.state = "whole" /\ Cardinality(cfg.games) \in Nat /\ TRUE \in BOOLEAN
    BY CountIsNat DEF TypeOK, Configs
  <2>2. cfg' = [cfg EXCEPT !.count = Cardinality(cfg.games), !.sorted = TRUE]
    BY DEF Sort
  <2> QED  BY <2>1, <2>2 DEF Configs, Whole
<1>3. TypeOK'
  BY <1>1, <1>2 DEF TypeOK, es
<1>4. CallInv'
  BY <1>1 DEF CallInv, es
<1>5. ListInv'
  BY <1>1, <1>2 DEF ListInv, Whole
<1>6. CursorInv' /\ SettingInv'
  BY <1>1 DEF CursorInv, SettingInv, CallInv, es, Closed
<1>7. ChoiceInv'
  <2>1. Says(file)' <=> Says(file)
    BY <1>1, <1>2 DEF Says, Target, Place
  <2> QED  BY <1>1, <2>1 DEF ChoiceInv, TypeOK
<1> QED  BY <1>3, <1>4, <1>5, <1>6, <1>7

(* A selection leaves the types as they are, and the list.                 *)
Kept(s) ==
  /\ cfg' \in Configs /\ file' \in Configs /\ cfg'.state = "whole" /\ applied' \in {0, 1}
  /\ disc' \in Games \cup {Real, None}
  /\ cfg'.games = cfg.games /\ cfg'.count = cfg.count /\ cfg'.sorted = cfg.sorted
  /\ file'.state = file.state /\ file'.games = file.games /\ file'.sorted = file.sorted
  /\ file'.count = file.count \/ file'.count = cfg.count
  /\ file.slot = cfg.slot => file'.slot = cfg'.slot
  /\ disc' # None => applied' = cfg'.set /\ file'.set = cfg'.set
  /\ Opens(s) => Selected(s)

LEMMA SelectKeeps ==
  ASSUME IInv, NEW s \in Int \cup {Real}, DVDSelectGame(s)
  PROVE  Kept(s)
<1> USE DEF Kept
<1>1. TypeOK /\ cfg.set \in {0, 1}
  BY DEF IInv, TypeOK, Configs
<1>2. CASE Selected(s)
  BY <1>1, <1>2 DEF Selected, TypeOK
<1>3. CASE ~Opens(s) /\ disc' = None /\ UNCHANGED <<applied, cfg, file>>
  BY <1>1, <1>3 DEF TypeOK
<1> QED  BY <1>1, <1>2, <1>3, SelectShape

LEMMA StartInv ==
  ASSUME IInv, Start
  PROVE  IInv'
<1> USE DEF IInv, Kept
<1>1. /\ di = "start" /\ di' = "up" /\ ~Running /\ Running' /\ cfg = file /\ Whole(cfg)
      /\ DVDSelectGame(AtStart) /\ cvr' = drive /\ excused' = (excused \/ ~Opens(AtStart))
      /\ UNCHANGED <<es, requested, armed, medium, drive, chosen>>
      /\ call = NoCall /\ armed = 0 /\ menu = Closed
  BY DEF Start, Running, ListInv, CallInv
<1>2. AtStart \in Int \cup {Real}
  BY DEF AtStart, TypeOK, Configs
<1>3. Kept(AtStart)
  BY <1>1, <1>2, SelectKeeps
<1>4. TypeOK'
  <2>1. excused' \in BOOLEAN
    BY <1>1 DEF TypeOK
  <2> QED  BY <1>1, <1>3, <2>1 DEF TypeOK, es
<1>5. CallInv' /\ CursorInv'
  BY <1>1 DEF CallInv, CursorInv, es, NoCall, Closed
<1>6. ListInv'
  BY <1>1, <1>3 DEF ListInv, Whole, TypeOK
<1>7. SettingInv'
  BY <1>1, <1>3 DEF SettingInv
<1>8. ChoiceInv'
  <2>1. SUFFICES ASSUME ~excused'  PROVE ChoiceInv'
    BY DEF ChoiceInv
  <2>2. ~excused /\ Opens(AtStart) /\ Selected(AtStart)
    BY <1>1, <1>3, <2>1
  <2>3. Says(cfg) /\ (chosen = Real => drive)
    BY <1>1, <2>2 DEF ChoiceInv, TypeOK
  <2>4. Target(cfg, AtStart) = chosen
    <3>1. CASE chosen = Real
      BY <2>3, <3>1 DEF Says, AtStart, Target
    <3>2. CASE chosen # Real
      BY <2>3, <3>2 DEF Says, AtStart
    <3> QED  BY <3>1, <3>2
  <2>5. Arrived'
    BY <1>1, <1>2, <2>2, <2>4, SelectedIsTarget DEF Whole
  <2> QED  BY <1>1, <2>3, <2>5 DEF ChoiceInv, Selecting, NoCall, es
<1> QED  BY <1>4, <1>5, <1>6, <1>7, <1>8

-----------------------------------------------------------------------------
(* DI takes a call.                                                        *)
LEMMA WriteInv ==
  ASSUME IInv, Serve, WriteConfig
  PROVE  IInv'
<1> USE DEF IInv
<1>1. /\ di = "up" /\ Running /\ Running' /\ call.kind = "write" /\ file' = Written(cfg)
      /\ UNCHANGED <<menu, reinsert, di, cfg, disc, applied, cvr, medium, drive, chosen, excused>>
      /\ UNCHANGED <<requested, armed>> /\ cvr = drive
  BY DEF Serve, WriteConfig, Running
<1>2. /\ call' \in Calls /\ (call.next # "none" => call'.slot = call.slot)
      /\ call'.next = "none" /\ (Selecting' <=> Selecting) /\ (Leaving' <=> Leaving)
      /\ call'.kind = call.next
  <2>1. call \in Calls
    BY DEF TypeOK
  <2>2. CASE call.next = "none"
    BY <1>1, <2>1, <2>2 DEF Serve, Answered, NoCall, Calls, Selecting, Leaving
  <2>3. CASE call.next # "none"
    BY <1>1, <2>1, <2>3 DEF Serve, Answered, Calls, Selecting, Leaving
  <2> QED  BY <2>2, <2>3
<1>3. /\ file' \in Configs /\ file'.state = file.state /\ file'.games = file.games /\ file'.sorted = file.sorted
      /\ file'.count = cfg.count /\ file'.slot = cfg.slot /\ file'.set = cfg.set /\ file'.mount = cfg.mount
  BY <1>1 DEF Written, TypeOK, Configs
<1>4. TypeOK'
  BY <1>1, <1>2, <1>3 DEF TypeOK
<1>5. CallInv'
  BY <1>1, <1>2 DEF CallInv
<1>6. ListInv'
  BY <1>1, <1>2, <1>3 DEF ListInv, Whole
<1>7. CursorInv'
  BY <1>1 DEF CursorInv, Count, Cursor
<1>8. SettingInv'
  BY <1>1, <1>2, <1>3 DEF SettingInv
<1>9. ChoiceInv'
  <2>1. file.games = cfg.games
    BY <1>1 DEF ListInv
  <2>2. Says(cfg)' <=> Says(cfg)
    BY <1>1 DEF Says, Target, Place
  <2>3. Says(file)' <=> Says(cfg)
    BY <1>1, <1>3, <2>1 DEF Says, Target, Place
  <2>4. Selecting => call'.slot = call.slot
    BY <1>1, <1>2 DEF Selecting
  <2>5. (Arrived => Arrived') /\ (Selecting => Target(cfg, call.slot)' = Target(cfg, call.slot))
        /\ Target(cfg, requested)' = Target(cfg, requested)
    BY <1>1, <2>2, <2>3, <2>4 DEF Arrived, Target, Place
  <2> QED  BY <1>1, <1>2, <2>5 DEF ChoiceInv
<1> QED  BY <1>4, <1>5, <1>6, <1>7, <1>8, <1>9

LEMMA SelectInv ==
  ASSUME IInv, Serve, SelectGame
  PROVE  IInv'
<1> USE DEF IInv
<1>1. /\ di = "up" /\ Running /\ Running' /\ call.kind = "select" /\ call.next = "none"
      /\ requested' = call.slot /\ armed < MaxArmed /\ armed' = armed + 1 /\ cvr = drive
      /\ UNCHANGED <<menu, reinsert, di, cfg, file, disc, applied, cvr, medium, drive, chosen, excused>>
      /\ call' = NoCall
  BY DEF Serve, SelectGame, Running, CallInv, Answered
<1>2. armed' \in 0 .. MaxArmed /\ armed' > 0 /\ call' \in Calls /\ requested' \in Int \cup {Real}
  BY <1>1 DEF TypeOK, Calls, NoCall, MaxArmed
<1>3. TypeOK'
  BY <1>1, <1>2 DEF TypeOK
<1>4. CallInv' /\ ~Selecting' /\ ~Leaving' /\ Selecting /\ ~Leaving
  BY <1>1 DEF CallInv, NoCall, Selecting, Leaving
<1>5. ListInv'
  BY <1>1, <1>4 DEF ListInv, Whole
<1>6. CursorInv'
  BY <1>1 DEF CursorInv, Count, Cursor
<1>7. SettingInv'
  BY <1>1, <1>2 DEF SettingInv
<1>8. ChoiceInv'
  <2>1. Target(cfg, requested)' = Target(cfg, call.slot)
    BY <1>1 DEF Target, Place
  <2> QED  BY <1>1, <1>2, <1>4, <2>1 DEF ChoiceInv, TypeOK
<1> QED  BY <1>3, <1>4, <1>5, <1>6, <1>7, <1>8

(* A timer runs out.                                                       *)
LEMMA ExpireInv ==
  ASSUME IInv, Expire
  PROVE  IInv'
<1> USE DEF IInv, Kept
<1>1. /\ di = "up" /\ Running /\ Running' /\ armed > 0 /\ armed' \in {0} \cup {armed - 1}
      /\ DVDSelectGame(requested) /\ excused' = (excused \/ ~Opens(requested))
      /\ UNCHANGED <<es, di, requested, cvr, medium, drive, chosen>>
      /\ requested \in Int \cup {Real}
  BY DEF Expire, Running, TypeOK
<1>2. Kept(requested)
  BY <1>1, SelectKeeps
<1>3. TypeOK'
  <2>1. excused' \in BOOLEAN /\ armed' \in 0 .. MaxArmed
    BY <1>1 DEF TypeOK, MaxArmed
  <2> QED  BY <1>1, <1>2, <2>1 DEF TypeOK, es
<1>4. CallInv' /\ (Selecting' <=> Selecting) /\ (Leaving' <=> Leaving)
  BY <1>1 DEF CallInv, Selecting, Leaving, es
<1>5. ListInv'
  BY <1>1, <1>2, <1>4 DEF ListInv, Whole
<1>6. CursorInv'
  BY <1>1, <1>2 DEF CursorInv, Count, Cursor, es
<1>7. SettingInv'
  BY <1>1, <1>2 DEF SettingInv
<1>8. ChoiceInv'
  <2>1. SUFFICES ASSUME ~excused'  PROVE ChoiceInv'
    BY DEF ChoiceInv
  <2>2. ~excused /\ Selected(requested)
    BY <1>1, <1>2, <2>1
  <2>3. /\ chosen = Real => drive
        /\ Selecting => Target(cfg, call.slot) = chosen
        /\ ~Selecting => Target(cfg, requested) = chosen /\ (drive => cvr)
    BY <1>1, <2>2 DEF ChoiceInv
  <2>4. Target(cfg, call.slot)' = Target(cfg, call.slot) /\ Target(cfg, requested)' = Target(cfg, requested)
    BY <1>1, <1>2 DEF Target, Place, es
  <2>5. ~Selecting => Arrived'
    BY <1>1, <2>2, <2>3, SelectedIsTarget DEF ListInv
  <2> QED  BY <1>1, <1>4, <2>3, <2>4, <2>5 DEF ChoiceInv
<1> QED  BY <1>3, <1>4, <1>5, <1>6, <1>7, <1>8

(* DI notices the real drive.                                              *)
LEMMA NoticeInv ==
  ASSUME IInv, Notice
  PROVE  IInv'
<1> USE DEF IInv, Kept
<1>1. /\ di = "up" /\ Running /\ Running' /\ cvr # drive /\ cvr' = drive
      /\ UNCHANGED <<es, di, requested, armed, medium, drive, chosen, excused>>
  BY DEF Notice, Running
<1>2. (Selecting' <=> Selecting) /\ (Leaving' <=> Leaving) /\ CallInv'
  BY <1>1 DEF CallInv, Selecting, Leaving, es
<1>3. CASE drive
  <2>1. DVDSelectGame(Real)
    BY <1>3 DEF Notice
  <2>2. Kept(Real)
    BY <2>1, SelectKeeps
  <2>3. TypeOK'
    BY <1>1, <2>2 DEF TypeOK, es
  <2>4. ListInv'
    BY <1>1, <1>2, <2>2 DEF ListInv, Whole
  <2>5. CursorInv'
    BY <1>1, <2>2 DEF CursorInv, Count, Cursor, es
  <2>6. SettingInv'
    BY <1>1, <2>2 DEF SettingInv
  <2>7. ChoiceInv'
    <3>1. Target(cfg, call.slot)' = Target(cfg, call.slot) /\ Target(cfg, requested)' = Target(cfg, requested)
      BY <1>1, <2>2 DEF Target, Place, es
    <3>2. chosen = Real => Arrived'
      BY <1>1, <2>2 DEF Selected, Opens, Arrived, Says
    <3>3. drive /\ ~cvr
      BY <1>1, <1>3 DEF TypeOK
    <3> QED  BY <1>1, <1>2, <3>1, <3>2, <3>3 DEF ChoiceInv
  <2> QED  BY <1>2, <2>3, <2>4, <2>5, <2>6, <2>7
<1>4. CASE ~drive
  <2>1. UNCHANGED <<disc, applied, cfg, file>>
    BY <1>4 DEF Notice
  <2>2. TypeOK' /\ ListInv' /\ CursorInv' /\ SettingInv'
    BY <1>1, <1>2, <2>1 DEF TypeOK, ListInv, Whole, CursorInv, Count, Cursor, SettingInv, es
  <2>3. ChoiceInv'
    <3>1. /\ Target(cfg, call.slot)' = Target(cfg, call.slot) /\ Target(cfg, requested)' = Target(cfg, requested)
          /\ Arrived' <=> Arrived
      BY <1>1, <2>1 DEF Arrived, Says, Target, Place, es
    <3> QED  BY <1>1, <1>2, <1>4, <3>1 DEF ChoiceInv
  <2> QED  BY <1>2, <2>2, <2>3
<1> QED  BY <1>3, <1>4

(* ES answers for the key, or is waiting for DI.                           *)
LEMMA PartitionInv ==
  ASSUME IInv, OpenPartition \/ Answer
  PROVE  IInv'
<1> USE DEF IInv
<1>1. /\ di' \in {"up", "asking"} /\ Running /\ Running'
      /\ UNCHANGED <<es, requested, armed, disc, applied, cvr, cfg, file, medium, drive, chosen, excused>>
  BY DEF OpenPartition, Answer, Running
<1>2. TypeOK' /\ CallInv'
  BY <1>1 DEF TypeOK, CallInv, es
<1>3. (Selecting' <=> Selecting) /\ (Leaving' <=> Leaving)
  BY <1>1 DEF Selecting, Leaving, es
<1>4. ListInv' /\ CursorInv' /\ SettingInv'
  BY <1>1, <1>3 DEF ListInv, Whole, CursorInv, Count, Cursor, SettingInv, es, Running
<1>5. ChoiceInv'
  <2>1. /\ Target(cfg, call.slot)' = Target(cfg, call.slot) /\ Target(cfg, requested)' = Target(cfg, requested)
        /\ Arrived' <=> Arrived
    BY <1>1 DEF Arrived, Says, Target, Place, es
  <2> QED  BY <1>1, <1>3, <2>1 DEF ChoiceInv
<1> QED  BY <1>2, <1>4, <1>5

-----------------------------------------------------------------------------
(* A press.  ES waits for nothing, so that what it asks for is all there   *)
(* is.                                                                     *)
LEMMA PressInv ==
  ASSUME IInv, Press
  PROVE  IInv'
<1> USE DEF IInv
<1>1. /\ Running /\ Running' /\ call.kind = "none" /\ call.next = "none" /\ ~Selecting /\ ~Leaving
      /\ UNCHANGED <<di, requested, armed, disc, applied, cvr, file, medium, drive>>
      /\ cfg.count = Cardinality(cfg.games) /\ file.games = cfg.games /\ file.slot = cfg.slot
  BY DEF Press, Idle, Waiting, Running, CallInv, Selecting, Leaving, ListInv, SettingInv, dip
<1>2. PressKind
  BY PressShape
<1>3. cfg \in Configs /\ cfg.count \in Nat /\ cfg.games \in SUBSET Games
  BY DEF TypeOK, Configs
<1>4. ASSUME Choose \/ MountRow
      PROVE  /\ cfg' = cfg /\ reinsert' = reinsert
             /\ call'.kind = "select" /\ call'.next = "none"
             /\ chosen' \in Games \cup {Real, None}
             /\ ~excused' => Target(cfg, call'.slot) = chosen' /\ (chosen' = Real => drive)
  <2>1. CASE Choose
    <3>1. /\ cfg' = cfg /\ reinsert' = reinsert /\ Ask("select", Cursor, "none")
          /\ chosen' = IF cfg.count = 0 THEN None ELSE Nth(cfg.games, Slot(Cursor))
          /\ excused' = (cfg.count = 0)
      BY <2>1 DEF Choose, Entry
    <3>2. call'.kind = "select" /\ call'.next = "none" /\ call'.slot = Cursor
      BY <3>1 DEF Ask
    <3>3. Cursor \in Int /\ Cursor # Real
      BY GameMenuAssumption DEF TypeOK, Menus, Cursor
    <3>4. cfg.count # 0 =>
            /\ Slot(Cursor) = Place(cfg, Cursor) /\ Slot(Cursor) \in 0 .. Cardinality(cfg.games) - 1
      BY <1>1, <1>3, <3>3 DEF Slot, Place
    <3>5. cfg.count # 0 => Nth(cfg.games, Slot(Cursor)) \in Games
      BY <1>3, <3>4, NthIsThere
    <3>6. \A g \in Games : g # Real
      BY GameMenuAssumption
    <3> QED  BY <3>1, <3>2, <3>3, <3>4, <3>5, <3>6 DEF Target
  <2>2. CASE MountRow
    <3>1. /\ cfg' = cfg /\ reinsert' = reinsert /\ Ask("select", Real, "none")
          /\ chosen' = Real /\ excused' = ~drive
      BY <2>2 DEF MountRow
    <3> QED  BY <3>1 DEF Ask, Target
  <2> QED  BY <1>4, <2>1, <2>2
<1>5. ASSUME UNCHANGED chosen, Works
      PROVE  /\ cfg'.games = cfg.games /\ cfg'.slot = cfg.slot /\ cfg'.sorted = cfg.sorted
             /\ \/ cfg' = cfg \/ cfg' = Flipped
                \/ Leaving' /\ cfg' = Emptied
                \/ Leaving' /\ cfg' = Restored /\ (chosen = Real => excused')
             /\ cfg'.count = cfg.count \/ (cfg'.count = 0 /\ Leaving')
             /\ cfg'.mount = cfg.mount \/ (~cfg'.mount /\ (chosen = Real => excused'))
             /\ cfg'.set = cfg.set \/ reinsert' \/ Leaving'
             /\ reinsert => reinsert' \/ Selecting' \/ Leaving'
             /\ call'.next # "none" => call'.kind = "write"
             /\ Selecting' => call'.slot = cfg.slot /\ (Overtakes => excused')
             /\ chosen' \in Games \cup {Real, None}
  <2>1. /\ Flipped.games = cfg.games /\ Flipped.slot = cfg.slot /\ Flipped.sorted = cfg.sorted
        /\ Flipped.count = cfg.count /\ Flipped.mount = cfg.mount
    BY <1>3 DEF Flipped, Configs
  <2>2. /\ Emptied.games = cfg.games /\ Emptied.slot = cfg.slot /\ Emptied.sorted = cfg.sorted
        /\ Emptied.count = 0 /\ Emptied.mount = cfg.mount
    BY <1>3 DEF Emptied, Configs
  <2>3. /\ Restored.games = cfg.games /\ Restored.slot = cfg.slot /\ Restored.sorted = cfg.sorted
        /\ Restored.count = cfg.count /\ ~Restored.mount
    <3>1. FALSE \in BOOLEAN
      OBVIOUS
    <3> QED  BY <1>3, <3>1 DEF Restored, Configs
  <2>4. chosen' \in Games \cup {Real, None}
    BY <1>5 DEF TypeOK
  <2>5. CASE (cfg' = cfg \/ (cfg' = Flipped /\ reinsert')) /\ (Stays \/ Writes \/ Repeats)
    <3>1. /\ call'.next # "none" => call'.kind = "write"
          /\ reinsert => reinsert' \/ Selecting'
          /\ Selecting' => call'.slot = cfg.slot /\ (Overtakes => excused')
      BY <1>1, <2>5 DEF Stays, Writes, Repeats, Selecting
    <3> QED  BY <2>1, <2>4, <2>5, <3>1
  <2>6. CASE Restarts
    <3>1. Leaving' /\ ~Selecting' /\ (call'.next # "none" => call'.kind = "write")
      BY <2>6 DEF Restarts, Leaving, Selecting
    <3> QED  BY <2>2, <2>3, <2>4, <2>6, <3>1 DEF Restarts
  <2> QED  BY <1>5, <2>5, <2>6 DEF Works
<1>6. \/ Choose \/ MountRow
      \/ UNCHANGED chosen /\ (excused => excused') /\ Works
  BY <1>2 DEF PressKind
<1>7. TypeOK'
  <2>1. menu' \in Menus
    <3>1. CASE Opened
      BY <3>1, AtOK DEF Opened
    <3>2. CASE Hidden
      BY <3>2 DEF Hidden
    <3>3. CASE UNCHANGED menu
      BY <3>3 DEF TypeOK
    <3>4. CASE Move \/ Jump
      BY <3>4, CursorMoves
    <3> QED  BY <3>1, <3>2, <3>3, <3>4, PressMenu
  <2>2. chosen' \in Games \cup {Real, None}
    BY <1>4, <1>5, <1>6
  <2> QED  BY <1>1, <1>2, <2>1, <2>2 DEF PressKind, TypeOK
<1>8. CallInv'
  BY <1>1, <1>4, <1>5, <1>6 DEF CallInv
<1>9. ListInv'
  <2>1. /\ cfg'.games = cfg.games /\ cfg'.sorted = cfg.sorted
        /\ cfg'.count = cfg.count \/ (cfg'.count = 0 /\ Leaving')
    BY <1>4, <1>5, <1>6
  <2> QED  BY <1>1, <2>1 DEF ListInv, Whole, Running
<1>10. CursorInv'
  <2>1. cfg'.count \in {cfg.count, 0}
    BY <1>4, <1>5, <1>6
  <2>2. CASE Opened
    <3>1. menu'.pos = 0 /\ menu'.scroll = 0 /\ ~menu'.astray
      BY <2>2, AtOK DEF Opened
    <3>2. EntryCount \in Nat /\ EntryCount > 0
      BY GameMenuAssumption
    <3> QED  BY <3>1, <3>2 DEF CursorInv, Cursor
  <2>3. CASE Hidden
    BY <2>3 DEF Hidden, CursorInv
  <2>4. CASE UNCHANGED menu
    <3>1. Count' = Count \/ Count' = 0
      BY <2>1, <2>4 DEF Count
    <3>2. Cursor' = Cursor
      BY <2>4 DEF Cursor
    <3> QED  BY <2>4, <3>1, <3>2 DEF CursorInv
  <2>5. CASE Move \/ Jump
    BY <2>5, CursorMoves
  <2> QED  BY <2>2, <2>3, <2>4, <2>5, PressMenu
<1>11. SettingInv'
  <2>1. CASE Choose \/ MountRow
    BY <1>1, <1>4, <2>1 DEF SettingInv, Selecting
  <2>2. CASE UNCHANGED chosen /\ Works
    BY <1>1, <1>5, <2>2 DEF SettingInv
  <2> QED  BY <1>6, <2>1, <2>2
<1>12. ChoiceInv'
  <2>1. SUFFICES ASSUME ~excused'  PROVE ChoiceInv'
    BY DEF ChoiceInv
  <2>2. CASE Choose \/ MountRow
    <3>1. Target(cfg, call.slot)' = Target(cfg, call'.slot)
      BY <1>4, <2>2 DEF Target, Place
    <3> QED  BY <1>1, <1>4, <2>1, <2>2, <3>1 DEF ChoiceInv, Selecting
  <2>3. CASE UNCHANGED chosen /\ (excused => excused') /\ Works
    <3>1. /\ ~excused /\ (chosen = Real => drive)
          /\ armed > 0 => Target(cfg, requested) = chosen /\ (drive => cvr)
          /\ armed = 0 => IF drive /\ ~cvr THEN chosen = Real ELSE Arrived
      BY <1>1, <2>1, <2>3 DEF ChoiceInv
    <3>2. cfg'.games = cfg.games /\ cfg'.slot = cfg.slot
      BY <1>5, <2>3
    <3>3. cfg'.mount = cfg.mount \/ (~cfg'.mount /\ chosen # Real)
      BY <1>5, <2>1, <2>3
    <3>4. Target(cfg, cfg.slot)' = Target(cfg, cfg.slot) /\ Target(cfg, requested)' = Target(cfg, requested)
      BY <1>1, <3>2 DEF Target, Place
    <3>5. Arrived => Arrived'
      <4>1. Says(cfg) => Says(cfg)'
        BY <2>3, <3>3, <3>4 DEF Says
      <4>2. Says(file) <=> Says(file)'
        BY <1>1, <2>3 DEF Says, Target, Place
      <4> QED  BY <1>1, <2>3, <4>1, <4>2 DEF Arrived
    <3>6. CASE Selecting'
      <4>1. call'.slot = cfg.slot /\ armed = 0 /\ chosen # Real
        BY <1>5, <2>1, <2>3, <3>6 DEF Overtakes, TypeOK
      <4>2. Target(cfg, cfg.slot) = chosen
        BY <3>1, <4>1 DEF Arrived, Says
      <4>3. Target(cfg, call.slot)' = chosen
        BY <3>4, <4>1, <4>2, <3>2 DEF Target, Place
      <4> QED  BY <1>1, <2>3, <3>1, <3>6, <4>3 DEF ChoiceInv
    <3>7. CASE ~Selecting'
      BY <1>1, <2>3, <3>1, <3>4, <3>5, <3>7 DEF ChoiceInv
    <3> QED  BY <3>6, <3>7
  <2> QED  BY <1>6, <2>2, <2>3
<1> QED  BY <1>7, <1>8, <1>9, <1>10, <1>11, <1>12

-----------------------------------------------------------------------------
(* IOS restarts: all that is left is the file.                             *)
LEMMA AnewInv ==
  ASSUME IInv, Anew, file' \in Configs, file' = file \/ file'.state # "whole",
         medium' \in SUBSET Games, drive' \in BOOLEAN, chosen' = chosen, excused' \in BOOLEAN,
         ~excused' => ~excused /\ ~Underway /\ drive' = drive
  PROVE  IInv'
<1> USE DEF IInv
<1>1. /\ menu' = Closed /\ reinsert' = FALSE /\ call' = NoCall
      /\ cfg' = Default /\ di' = "look" /\ requested' = 0 /\ armed' = 0
      /\ disc' = None /\ applied' = 0 /\ cvr' = FALSE
  BY DEF Anew
<1>2. ~Running' /\ di' \notin {"scan", "sort", "start"}
  BY <1>1 DEF Running
<1>3. TypeOK'
  <2>1. menu' \in Menus /\ call' \in Calls
    BY <1>1, ClosedOK DEF NoCall, Calls
  <2>2. FALSE \in BOOLEAN
    OBVIOUS
  <2>3. cfg' \in Configs /\ cfg'.state = "whole"
    BY <1>1, <2>2 DEF Default, Configs
  <2>4. reinsert' \in BOOLEAN /\ cvr' \in BOOLEAN
    BY <1>1, <2>2
  <2>5. requested' \in Int \cup {Real} /\ armed' \in 0 .. MaxArmed
    BY <1>1 DEF MaxArmed
  <2> QED  BY <1>1, <2>1, <2>3, <2>4, <2>5 DEF TypeOK
<1>4. CallInv' /\ CursorInv' /\ SettingInv'
  BY <1>1, <1>2 DEF CallInv, CursorInv, SettingInv, Closed, NoCall
<1>5. ListInv'
  <2>1. file'.state = "whole" => file' = file
    OBVIOUS
  <2> QED  BY <1>2, <2>1 DEF ListInv, Whole, Running
<1>6. ChoiceInv'
  <2>1. SUFFICES ASSUME ~excused'  PROVE ChoiceInv'
    BY DEF ChoiceInv
  <2>2. ~excused /\ ~(armed > 0) /\ ~Selecting /\ cvr = drive /\ drive' = drive
    BY <2>1 DEF Underway, Selecting
  <2>3. armed = 0
    BY <2>2 DEF TypeOK, MaxArmed
  <2>4. (chosen = Real => drive) /\ (file.state = "whole" => Says(file))
    BY <2>2, <2>3 DEF ChoiceInv, Arrived
  <2>5. file' = file => (Says(file)' <=> Says(file))
    BY DEF Says, Target, Place
  <2> QED  BY <1>2, <2>2, <2>4, <2>5 DEF ChoiceInv
<1> QED  BY <1>3, <1>4, <1>5, <1>6

LEMMA LaunchTitleInv ==
  ASSUME IInv, LaunchTitle
  PROVE  IInv'
<1>1. /\ Anew /\ file' = file /\ file \in Configs /\ medium' \in SUBSET Games /\ drive' \in BOOLEAN
      /\ chosen' = chosen /\ drive' = drive /\ excused' = (excused \/ Underway)
  BY DEF LaunchTitle, IInv, TypeOK
<1>2. excused' \in BOOLEAN /\ (~excused' => ~excused /\ ~Underway)
  BY <1>1
<1> QED  BY <1>1, <1>2, AnewInv

LEMMA PowerOffInv ==
  ASSUME IInv, PowerOff
  PROVE  IInv'
<1>1. /\ Anew /\ chosen' = chosen /\ medium' \in SUBSET Games /\ drive' \in BOOLEAN
      /\ excused' = (excused \/ Underway \/ drive' # drive)
  BY GameMenuAssumption DEF PowerOff
<1>2. Absent \in Configs /\ Empty \in Configs /\ Absent.state = "absent" /\ Empty.state = "empty"
  <2>1. FALSE \in BOOLEAN
    OBVIOUS
  <2> QED  BY <2>1 DEF Absent, Empty, Default, Configs
<1>3. file' \in Configs /\ (file' = file \/ file'.state # "whole")
  BY <1>2 DEF PowerOff, Left, IInv, TypeOK
<1>4. excused' \in BOOLEAN /\ (~excused' => ~excused /\ ~Underway /\ drive' = drive)
  BY <1>1
<1> QED  BY <1>1, <1>3, <1>4, AnewInv

(* A disc is put into the drive, or taken out.                             *)
LEMMA DriveInv ==
  ASSUME IInv, Insert \/ Remove
  PROVE  IInv'
<1> USE DEF IInv
<1>1. /\ UNCHANGED <<es, dip, cfg, file, medium>> /\ drive' = ~drive
      /\ excused' \in BOOLEAN /\ chosen' \in Games \cup {Real, None}
  BY DEF Insert, Remove, TypeOK
<1>2. /\ UNCHANGED <<menu, reinsert, call, di, requested, armed, disc, applied, cvr>>
      /\ (Running' <=> Running) /\ (Selecting' <=> Selecting) /\ (Leaving' <=> Leaving)
  BY <1>1 DEF es, dip, Running, Selecting, Leaving
<1>3. TypeOK' /\ CallInv' /\ ListInv' /\ CursorInv' /\ SettingInv'
  <2>1. TypeOK'
    BY <1>1, <1>2 DEF TypeOK
  <2>2. CallInv' /\ ListInv'
    BY <1>1, <1>2 DEF CallInv, ListInv, Whole
  <2>3. CursorInv' /\ SettingInv'
    BY <1>1, <1>2 DEF CursorInv, Count, Cursor, SettingInv
  <2> QED  BY <2>1, <2>2, <2>3
<1>4. ChoiceInv'
  <2>1. SUFFICES ASSUME ~excused'  PROVE ChoiceInv'
    BY DEF ChoiceInv
  <2>2. CASE Insert
    <3>1. /\ ~(armed > 0) /\ ~Waiting(call) /\ ~cvr /\ Running /\ chosen' = Real /\ drive'
      BY <2>1, <2>2 DEF Insert, Running
    <3>2. armed = 0 /\ ~Selecting
      BY <3>1 DEF TypeOK, MaxArmed, Waiting, CallInv, Selecting
    <3> QED  BY <1>1, <1>2, <3>1, <3>2 DEF ChoiceInv
  <2>3. CASE Remove
    <3>1. ~excused /\ chosen # Real /\ chosen' = chosen /\ ~drive'
      BY <2>1, <2>3 DEF Remove
    <3>2. /\ Target(cfg, call.slot)' = Target(cfg, call.slot) /\ Target(cfg, requested)' = Target(cfg, requested)
          /\ (Arrived' <=> Arrived) /\ (Says(file)' <=> Says(file))
      BY <1>1, <1>2, <3>1 DEF Arrived, Says, Target, Place
    <3> QED  BY <1>1, <1>2, <3>1, <3>2 DEF ChoiceInv
  <2> QED  BY <2>2, <2>3
<1> QED  BY <1>3, <1>4

LEMMA StutterInv ==
  ASSUME IInv, UNCHANGED vars
  PROVE  IInv'
<1> USE DEF IInv
<1>1. UNCHANGED <<menu, reinsert, call, cfg, file, di, requested, armed, disc, applied, medium, drive, cvr, chosen, excused>>
  BY DEF vars, es, dip
<1>2. /\ (Running' <=> Running) /\ (Selecting' <=> Selecting) /\ (Leaving' <=> Leaving)
      /\ (Arrived' <=> Arrived) /\ (Says(file)' <=> Says(file))
      /\ Target(cfg, call.slot)' = Target(cfg, call.slot) /\ Target(cfg, requested)' = Target(cfg, requested)
  BY <1>1 DEF Running, Selecting, Leaving, Arrived, Says, Target, Place
<1>3. TypeOK' /\ CallInv' /\ ListInv'
  BY <1>1, <1>2 DEF TypeOK, CallInv, ListInv, Whole
<1>4. CursorInv' /\ SettingInv' /\ ChoiceInv'
  BY <1>1, <1>2 DEF CursorInv, Count, Cursor, SettingInv, ChoiceInv
<1> QED  BY <1>3, <1>4

LEMMA NextIInv == IInv /\ [Next]_vars => IInv'
<1> SUFFICES ASSUME IInv, [Next]_vars  PROVE IInv'
  OBVIOUS
<1>1. CASE Look \/ Scan \/ Sort \/ Start
  BY <1>1, LookInv, ScanInv, SortInv, StartInv
<1>2. CASE Serve
  <2>1. WriteConfig \/ SelectGame
    BY <1>2 DEF Serve
  <2> QED  BY <1>2, <2>1, WriteInv, SelectInv
<1>3. CASE Expire \/ Notice \/ OpenPartition \/ Answer
  BY <1>3, ExpireInv, NoticeInv, PartitionInv
<1>4. CASE Press
  BY <1>4, PressInv
<1>5. CASE LaunchTitle \/ PowerOff
  BY <1>5, LaunchTitleInv, PowerOffInv
<1>6. CASE Insert \/ Remove
  BY <1>6, DriveInv
<1>7. CASE UNCHANGED vars
  BY <1>7, StutterInv
<1> QED  BY <1>1, <1>2, <1>3, <1>4, <1>5, <1>6, <1>7 DEF Next, DI

-----------------------------------------------------------------------------
(* All of the invariant holds at all times; its first part are the types.  *)
THEOREM AlwaysIInv == Spec => []IInv
  BY InitIInv, NextIInv, PTL DEF Spec

(* Whenever the menu can be used, the list of games it works on is whole   *)
(* and in order, and the same as in diconfig.bin, wherever in making it    *)
(* the power had failed before (di-usb/dip.c:549).                         *)
THEOREM ListIsComplete == Spec => []ListComplete
<1>1. IInv => ListComplete
  BY DEF IInv, CallInv, ListInv, ListComplete, Running, Leaving, Waiting
<1> QED  BY <1>1, AlwaysIInv, PTL

(* Whatever is pressed, the cursor stays on a line of its list, unless a   *)
(* jump went before the first letter (SMenu.c:1374).                       *)
THEOREM CursorStaysInList == Spec => []CursorInList
<1>1. IInv => CursorInList
  <2> SUFFICES ASSUME IInv  PROVE CursorInList
    OBVIOUS
  <2>1. menu.pos \in Int /\ menu.scroll \in Int /\ menu.astray \in BOOLEAN /\ EntryCount \in Nat
    BY GameMenuAssumption DEF IInv, TypeOK, Menus
  <2>2. Count \in Nat
    BY GameMenuAssumption DEF IInv, TypeOK, Configs, Count
  <2> QED  BY <2>1, <2>2 DEF IInv, CursorInv, CursorInList, Cursor
<1> QED  BY <1>1, AlwaysIInv, PTL

(* A setting changed in the menu is in the file and in the game once the   *)
(* menu is closed, nothing is under way and the flag DVDReinsertDisc is    *)
(* down (SMenu.c:1617).                                                    *)
THEOREM SettingsAreSettled == Spec => []SettingsSettle
<1>1. IInv => SettingsSettle
  BY DEF IInv, TypeOK, CallInv, SettingInv, SettingsSettle, Quiet, Running, Selecting, Leaving, Waiting
<1> QED  BY <1>1, AlwaysIInv, PTL

(* The game chosen last is the one in the drive when nothing is under way, *)
(* across restarts and power cuts, except where the model lists an excuse  *)
(* (SMenu.c:1102).                                                         *)
THEOREM ChoiceIsKept == Spec => []ChoiceKept
<1>1. IInv => ChoiceKept
  <2> SUFFICES ASSUME IInv, Quiet, ~excused  PROVE disc = chosen
    BY DEF ChoiceKept
  <2>1. Running /\ ~Selecting /\ armed = 0 /\ cvr = drive
    BY DEF IInv, CallInv, Quiet, Running, Selecting, Waiting
  <2> QED  BY <2>1 DEF IInv, ChoiceInv, Arrived
<1> QED  BY <1>1, AlwaysIInv, PTL
=============================================================================
