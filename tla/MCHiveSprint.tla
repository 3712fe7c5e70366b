---------------------------- MODULE MCHiveSprint ----------------------------
(***************************************************************************)
(* HiveSprint on small instances: the sets the configurations choose from. *)
(***************************************************************************)
EXTENDS HiveSprint

Kind(ui, hard) == [ui |-> ui, hard |-> hard]

PlainTasks == {Kind(FALSE, FALSE)}
EasyAndHard == {Kind(FALSE, FALSE), Kind(TRUE, TRUE)}
=============================================================================
