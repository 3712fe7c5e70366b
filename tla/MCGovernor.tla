------------------------------ MODULE MCGovernor ------------------------------
(***************************************************************************)
(* Governor on small instances: the ceilings a process is started with.    *)
(***************************************************************************)
EXTENDS Governor

NoLimit == [usd |-> 0, tokens |-> 0, wall |-> 0, sprints |-> 0, unmetered |-> 2]

SmallLimits ==
  {NoLimit,
   [NoLimit EXCEPT !.usd = 3],
   [NoLimit EXCEPT !.tokens = 3],
   [NoLimit EXCEPT !.usd = 4, !.wall = 2, !.sprints = 2],
   [NoLimit EXCEPT !.wall = 1, !.unmetered = 0]}
=============================================================================
