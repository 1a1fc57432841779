---------------------------- MODULE MCShardCache ----------------------------
(* Two keys with lines of 2 and 3 bytes in a shard of 4 or 8 bytes: the      *)
(* longer line is refused by the smaller shard, the larger one is full after *)
(* four lines and a compaction keeps one. Only k1 is put with two answers.   *)
EXTENDS ShardCache

CONSTANTS k1, k2, a1, a2, a3

MCKeys == {k1, k2}
MCAnswers == (k1 :> {a1, a2}) @@ (k2 :> {a3})
MCLineBytes == (k1 :> 2) @@ (k2 :> 3)
AnswersAlike == Permutations({a1, a2})
=============================================================================
