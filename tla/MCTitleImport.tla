--------------------------- MODULE MCTitleImport ---------------------------
EXTENDS TitleImport

C(id, shared, optional, hash) ==
  [id |-> id, shared |-> shared, optional |-> optional, hash |-> hash]

(* A title and an update of it that shares a private content, a title that *)
(* lists one shared content under two numbers, and one all of whose shared *)
(* contents may be known already.                                          *)
MCImports ==
  {[title |-> "a", contents |-> <<C(1, FALSE, FALSE, "h1"), C(2, TRUE, FALSE, "h2")>>],
   [title |-> "a", contents |-> <<C(1, FALSE, FALSE, "h1"), C(3, FALSE, TRUE, "h3")>>],
   [title |-> "b", contents |-> <<C(1, TRUE, FALSE, "h2"), C(2, TRUE, FALSE, "h2"),
                                  C(3, TRUE, TRUE, "h3")>>]}
MCFirstMap == <<"h0">>
=============================================================================
