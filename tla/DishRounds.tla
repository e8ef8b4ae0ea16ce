----------------------------- MODULE DishRounds -----------------------------
(***************************************************************************)
(* What a quiz session promises about its dish, with no requests, no       *)
(* transactions and no threads: the session is opened once; a round is     *)
(* decided by putting a dish in the result; a swap takes the dish of a     *)
(* decided round back and opens the next round, at most MaxSwaps times;    *)
(* clearing the user's data closes the session for good.                   *)
(*                                                                         *)
(* A step of SolidNext keeps the promise of the engine's header            *)
(* (src/app/domain/quiz.py lines 8 and 9): a decided round keeps its dish  *)
(* until a swap.  LooseSpec also allows a decided round to be decided      *)
(* again, which is what the code does when two finalize requests overlap.  *)
(***************************************************************************)
EXTENDS Naturals

CONSTANTS Dish, NoDish, MaxSwaps

VARIABLES phase,   \* "unborn", "open" or "closed"
          round,   \* swaps made so far
          dish     \* the dish of the current round, NoDish while undecided

vars == <<phase, round, dish>>

Init == phase = "unborn" /\ round = 0 /\ dish = NoDish

Open == phase = "unborn" /\ phase' = "open" /\ UNCHANGED <<round, dish>>

\* The round has no dish yet: the first finalize to commit decides it.
Decide == /\ phase = "open"
          /\ dish = NoDish
          /\ dish' \in Dish
          /\ UNCHANGED <<phase, round>>

\* The round has a dish and a late finalize replaces it.
DecideAgain == /\ phase = "open"
               /\ dish # NoDish
               /\ dish' \in Dish
               /\ UNCHANGED <<phase, round>>

NextRound == /\ phase = "open"
             /\ dish # NoDish
             /\ round < MaxSwaps
             /\ round' = round + 1
             /\ dish' = NoDish
             /\ UNCHANGED phase

Close == phase = "open" /\ phase' = "closed" /\ round' = 0 /\ dish' = NoDish

SolidNext == Open \/ Decide \/ NextRound \/ Close
LooseNext == SolidNext \/ DecideAgain

LooseSpec == Init /\ [][LooseNext]_vars
=============================================================================
