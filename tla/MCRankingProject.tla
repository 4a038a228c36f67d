-------------------------- MODULE MCRankingProject --------------------------
(***************************************************************************)
(* Instances of RankingProject for TLC: a trimmed, narrated clip whose     *)
(* slot is cut to the longest one, a clip shorter than the shortest slot   *)
(* and a card without an asset; lengths in units.                          *)
(***************************************************************************)
EXTENDS RankingProject

LongClip == [score |-> 2, trimStart |-> 1, trimEnd |-> Null, asset |-> TRUE, assetMs |-> 9,
             narrated |-> TRUE, narrationMs |-> 8, numbered |-> TRUE]
ShortClip == [score |-> 1, trimStart |-> 3, trimEnd |-> 4, asset |-> TRUE, assetMs |-> 9,
              narrated |-> TRUE, narrationMs |-> 1, numbered |-> FALSE]
Card == [score |-> 1, trimStart |-> 0, trimEnd |-> Null, asset |-> FALSE, assetMs |-> Null,
         narrated |-> TRUE, narrationMs |-> Null, numbered |-> TRUE]

ThreeData == {LongClip, ShortClip, Card}

Countdown == [order |-> "desc", orderMode |-> "score", reveal |-> "countdown", header |-> TRUE]
TopFirst == [order |-> "asc", orderMode |-> "score", reveal |-> "topfirst", header |-> FALSE]
TwoMetas == {Countdown, TopFirst}

Symmetry == Permutations(Candidates) \union Permutations(Editors) \union Permutations(Bakers)
=============================================================================
