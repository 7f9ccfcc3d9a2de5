------------------------------ MODULE MCResults ------------------------------
(* Two boats of one base name and others, entered or not. *)
EXTENDS Results, TLC

CONSTANTS sail1, sail2, web, console

C    == <<"Celebration">>
CII  == <<"Celebration", "II">>
Rain == <<"Rain">>
Zest == <<"Zest">>
FourNames == {C, CII, Rain, Zest}

Row(n, x) == [name |-> n, sail |-> x]

\* Lookalikes in either order, with one sail number, two or none; a stranger
\* first; a name and a sail number that disagree.
SmallTables ==
  {<<Row(p[1][1], p[2]), Row(p[1][2], p[3])>> :
     p \in ({<<C, CII>>, <<CII, C>>} \X {sail1} \X {None, sail1, sail2})
           \cup ({<<Zest, Rain>>, <<Rain, CII>>} \X {None} \X {sail1})}

\* Two boats, whose sail numbers may be the same.
SmallRosters ==
  {1 :> Boat(p[1][1], p[2], None) @@ 2 :> Boat(p[1][2], p[3], None) :
     p \in {<<C, CII>>, <<CII, Rain>>} \X {None, sail1} \X {None, sail1}}

\* The committee amends its table; the roster is still being put together.
TwoDays ==
  {[amend |-> 1, import |-> 2, entry |-> 0, sheet |-> 1, link |-> 0],
   [amend |-> 0, import |-> 1, entry |-> 1, sheet |-> 1, link |-> 2]}

TeamOf(n, y) == [name |-> n, yb |-> y]

\* Later the second team has the first one's id too, or two are of one name.
TheTeams == {<<TeamOf(CII, 1), TeamOf(Rain, 2)>>, <<TeamOf(Rain, 2), TeamOf(Rain, 1)>>}
=============================================================================
