----------------------------- MODULE MCRatings -----------------------------
(* Instances of Ratings for TLC: the rows opened by /game/start all belong *)
(* to one user; the other may name them in a save, and finds none.         *)
EXTENDS Ratings, TLC

OneOwner(s) == CHOOSE u \in Users : TRUE

(* Transactions of a kind are alike; the users are not.                    *)
Symmetry == Permutations(AiGames) \cup Permutations(Games \ AiGames)
=============================================================================
