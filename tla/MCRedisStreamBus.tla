-------------------------- MODULE MCRedisStreamBus --------------------------
(* Two consumer loops that share one consumer group, for TLC. *)
EXTENDS RedisStreamBus

CONSTANTS l1, l2, n1, c1, c2

TwoLoops == {l1, l2}
TwoCallbacks == {c1, c2}

Renamings == Permutations(TwoLoops) \union Permutations(TwoCallbacks)
=============================================================================
