--------------------------- MODULE MCConvergence ---------------------------
(* A small tree with every shape of the real one: a root, first levels with *)
(* several and with one child, second levels with and without refinements.  *)
EXTENDS Convergence

MCMain == [n \in Node |->
             CASE n = "form"   -> {"staple", "meat"}
               [] n = "staple" -> {"noodle-soup", "rice-bowl"}
               [] n = "meat"   -> {"meat-grill"}
               [] OTHER        -> {}]

MCFine == [n \in Node |-> IF n = "noodle-soup" THEN {"noodle-rich"} ELSE {}]

MCBank == << [dim |-> "form",    picks |-> {"staple", "meat"}],
             [dim |-> "staple",  picks |-> {"noodle-soup", "rice-bowl"}],
             [dim |-> "meat",    picks |-> {"meat-grill"}],
             [dim |-> "spice",   picks |-> {}],
             [dim |-> "texture", picks |-> {}] >>
=============================================================================
