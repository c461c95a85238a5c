----------------------------- MODULE MCBTSwarm -----------------------------
(* Two swarms of a peer and two remote peers r1 and r2 for TLC: two seeders  *)
(* of which one may leave, without the end game, and a seeder and a peer     *)
(* that obtains its second piece meanwhile, with it.                         *)
EXTENDS BTSwarm

CONSTANTS r1, r2

MCSwarms ==
    {[endGame |-> FALSE, pieces |-> [r \in Remote |-> Piece], gaining |-> {}, leaving |-> {r2}],
     [endGame |-> TRUE, pieces |-> [r \in Remote |-> IF r = r1 THEN Piece ELSE {0}],
      gaining |-> {r2}, leaving |-> {}]}
=============================================================================
