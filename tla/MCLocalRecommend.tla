-------------------------- MODULE MCLocalRecommend --------------------------
(* Four dishes and the part of the classification that tells them apart.   *)
EXTENDS LocalRecommend, TLC

CONSTANTS u1, u2, u3, u4

MCUser == {u1, u2, u3, u4}

MCDish == {"beef noodles", "rib noodles", "plain noodles", "congee"}

\* The LLM also knows a dish that the pool has not.
MCName == MCDish \cup {"ramen"}

MCTags == [d \in MCDish |->
  CASE d = "beef noodles"  -> {"noodles", "rich", "warm"}
    [] d = "rib noodles"   -> {"noodles", "rich"}
    [] d = "plain noodles" -> {"noodles", "warm"}
    [] d = "congee"        -> {"warm", "light"}]

MCNodeTags == [n \in {"staple", "noodle-soup", "noodle-rich", "pot", "pot-congee"} |->
  CASE n = "noodle-soup" -> {"noodles"}
    [] n = "noodle-rich" -> {"rich"}
    [] n = "pot-congee"  -> {"light"}
    [] OTHER -> {}]

\* The classes have no hints.
MCHints == [n \in {"noodle-soup", "noodle-rich", "pot-congee"} |->
  CASE n = "noodle-soup" -> MCName \ {"congee"}
    [] n = "noodle-rich" -> {"beef noodles", "rib noodles", "ramen"}
    [] n = "pot-congee"  -> {"congee"}]

\* Two dishes fit, and a third its beginning; one fits; no direction at all.
MCPath == {[chain |-> <<"staple", "noodle-soup", "noodle-rich">>, chosen |-> {"warm"}],
           [chain |-> <<"pot", "pot-congee">>, chosen |-> {"warm"}],
           [chain |-> << >>, chosen |-> {"warm"}]}

\* Users are interchangeable.
Interchangeable == Permutations(MCUser)
=============================================================================
