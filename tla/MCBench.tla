--------------------------------- MODULE MCBench ---------------------------------
EXTENDS Bench

(* A suite that grows, two repeat counts, two subjects, and every arm. *)
PlansSmall ==
  {[arm |-> "sprint", subjects |-> <<"hive+contract">>, repeat |-> 2, tasks |-> {1}],
   [arm |-> "oneshot", subjects |-> <<"strong", "fast">>, repeat |-> 1, tasks |-> {1}],
   [arm |-> "oneshot", subjects |-> <<"strong">>, repeat |-> 2, tasks |-> {1, 2}],
   [arm |-> "models", subjects |-> <<"7b">>, repeat |-> 1, tasks |-> {1}]}
=============================================================================
