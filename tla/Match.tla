------------------------------- MODULE Match -------------------------------
(***************************************************************************)
(* What the game promises its players: rounds follow each other, a round   *)
(* ends with a kill of one tank or of both at once, every kill is worth    *)
(* one point to the other player and is counted once, and nothing but the  *)
(* reset button takes points away.                                         *)
(***************************************************************************)
EXTENDS Naturals

CONSTANT ScoreWord       \* a score register counts modulo ScoreWord

VARIABLES
  playing,               \* a round is on
  score1, score2

vars == <<playing, score1, score2>>

\* The scores stay within their registers.
TypeOK ==
  /\ playing \in BOOLEAN
  /\ score1 \in 0 .. ScoreWord - 1
  /\ score2 \in 0 .. ScoreWord - 1

Init == playing = TRUE /\ score1 = 0 /\ score2 = 0

\* score after a frame in which the opponent was killed or not
Counted(score, killed) == IF killed THEN (score + 1) % ScoreWord ELSE score

Kill ==
  /\ playing
  /\ \E killed1, killed2 \in BOOLEAN :
       /\ killed1 \/ killed2
       /\ score1' = Counted(score1, killed2)
       /\ score2' = Counted(score2, killed1)
  /\ playing' = FALSE

NewRound ==
  /\ ~playing
  /\ playing' = TRUE
  /\ UNCHANGED <<score1, score2>>

NewMatch ==
  /\ playing' = FALSE
  /\ score1' = 0 /\ score2' = 0

Next == Kill \/ NewRound \/ NewMatch

Spec == Init /\ [][Next]_vars
============================================================================
