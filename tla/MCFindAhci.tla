----------------------------- MODULE MCFindAhci -----------------------------
(***************************************************************************)
(* Controllers with three ports, of which the loop reaches two: any two     *)
(* devices that are handled differently behind those, a drive behind the    *)
(* last, and any of the two available or not.  Command areas of two frames  *)
(* and tables for four pages; some tables of the higher levels are there    *)
(* already.  Free frames enough for both ports and all tables, and so few   *)
(* that a table is missing for the first or the second page of an area or   *)
(* for a buffer, or that there is no area or no buffer.                     *)
(***************************************************************************)
EXTENDS FindAhci, TLC

MCFrames == 0 .. 9
MCPorts == 0 .. NP
MCFreeSets == {2 .. 9, {2, 3, 4}, {3, 4, 6}, {2, 4}}
MCAmple == {2 .. 9}
MCTableSets == {{<<3, 0>>, <<2, 0>>}}
MCKindPairs ==
  ({"ata", "semb", "other"} \X {"ata", "semb", "other"})
    \cup {<<"none", "atapi">>, <<"atapi", "none">>}
MCMachines ==
  {[PI |-> pi \cup {2}, kind |-> (0 :> k[1] @@ 1 :> k[2] @@ 2 :> "ata")] :
     pi \in SUBSET {0, 1}, k \in MCKindPairs}
MCOne == {1}
MCZero == {0}
=============================================================================
