--------------------------- MODULE LocalRecommend ---------------------------
(***************************************************************************)
(* The dish a session ends with when the LLM does not give one             *)
(* (_local_recommend of src/app/domain/quiz.py): a dish of the local pool  *)
(* that fits the answers, that the user did not get lately, and that       *)
(* others did not get in the last half hour.  The recommendation table is  *)
(* what it knows of both; a finalize reads the names of its rows, then     *)
(* counts them, and adds its own row later, so the finalizes of several    *)
(* users may overlap.  One user has one finalize at a time here: what the  *)
(* user got lately does not change under it.                               *)
(*                                                                         *)
(* The candidates are the code's.  Which of them is taken is a hash of the *)
(* session's seed, its answers and its swaps: any of them here.            *)
(***************************************************************************)
EXTENDS Integers, Sequences, FiniteSets, FiniteSetsExt

CONSTANTS User,
          Dish,        \* LOCAL_DISHES and the active dishes of the library
          Name,        \* names an LLM may give, those of the dishes included
          Tags,        \* the tags of a dish
          Path,        \* what sessions were answered: the classification
                       \*   chain and the tags of the chosen options
          NodeTags,    \* the tags of a node of the classification
          Hints,       \* _DISH_HINTS: the names that have a hint of the
                       \*   node, for the nodes that have hints
          RecentLimit, \* the recommendations of a user to avoid, 5
          Window,      \* thirty minutes, in units of the clock
          NoPick,      \* no finalize under way, or not that far
          Mixed,       \* see alike
          MaxTime,     \* bound: the clock
          MaxRounds,   \* bound: recommendations
          MaxOpen      \* bound: finalizes at one time

Source == {"local", "llm"}
Pick == [name : Name, path : Path, source : Source]
Look == [path : Path, at : 0 .. MaxTime, seen : 0 .. MaxRounds]

ASSUME RecommendAssumption ==
  /\ Dish # {} /\ IsFiniteSet(Dish) /\ Dish \subseteq Name
  /\ \A p \in Path : p.chain \in Seq(DOMAIN NodeTags)
  /\ NoPick \notin Pick \cup Look /\ {NoPick, Mixed} \cap Path = {} /\ NoPick # Mixed
  /\ RecentLimit \in Nat /\ Window \in Nat
  /\ MaxTime \in Nat /\ MaxRounds \in Nat /\ MaxOpen \in Nat

VARIABLES
  now,
  recommendation, \* the table: whose, which dish, when
  looking,        \* a finalize of a user that falls to the pool: the answers,
                  \*   when it read the names in the table, and how many rows
                  \*   there were
  picked,         \* what a finalize of a user has decided on, if it is not
                  \*   yet in the table
  alike           \* the answers of all finalizes so far, if they were the
                  \*   same, fell to the pool and did not overlap, or NoPick
                  \*   before the first, or Mixed; for the properties

vars == <<now, recommendation, looking, picked, alike>>

Recommendation == [user : User, name : Name, at : 0 .. MaxTime]

Init ==
  /\ now = 0
  /\ recommendation = << >>
  /\ looking = [u \in User |-> NoPick]
  /\ picked = [u \in User |-> NoPick]
  /\ alike = NoPick

----------------------------------------------------------------------------
(* What has been recommended.                                              *)

Of(u) == {i \in DOMAIN recommendation : recommendation[i].user = u}
Names(rows) == {recommendation[i].name : i \in rows}

\* _recent_dishes: the names of the user's last rows.
RecentDishes(u) ==
  Names({i \in Of(u) : Cardinality({k \in Of(u) : k > i}) < RecentLimit})

\* The rows of everybody in the half hour before t and since, and how often
\* they name d.
Since(t) ==
  {i \in DOMAIN recommendation : t - recommendation[i].at <= Window}
Used(d, t) == Cardinality({i \in Since(t) : recommendation[i].name = d})
InWindow == Since(now)

\* The names there were when a finalize looked.
Busy(look) == Names({i \in Since(look.at) : i <= look.seen})

----------------------------------------------------------------------------
(* What fits.                                                              *)

\* dish_consistent: the last node of the chain that has hints decides,
\* whatever dish the name is of.
Hinted(chain) == {i \in DOMAIN chain : chain[i] \in DOMAIN Hints}
Consistent(d, chain) ==
  Hinted(chain) # {} => d \in Hints[chain[Max(Hinted(chain))]]

Fitting(p) == {d \in Dish : Consistent(d, p.chain)}

\* Chosen tags count once and the tags of the chain twice.
ChainTags(p) == UNION {NodeTags[p.chain[i]] : i \in DOMAIN p.chain}
Score(p, d) ==
  Cardinality(p.chosen \cap Tags[d]) + 2 * Cardinality(ChainTags(p) \cap Tags[d])

\* The sampling window: the best score and the two below it.
Top(p) == {d \in Dish : \A e \in Dish : Score(p, d) >= Score(p, e) - 2}

\* Dishes of the top that fit a beginning of the chain, by its length; a
\* beginning without hints would let everything pass.
\* Mutant of PrefixTier: it does.
PrefixTierAny(p, n) ==
  {d \in Top(p) : Consistent(d, SubSeq(p.chain, 1, n))}
PrefixTier(p, n) ==
  IF Hinted(SubSeq(p.chain, 1, n)) = {} THEN {}
  ELSE {d \in Top(p) : Consistent(d, SubSeq(p.chain, 1, n))}

\* The tiers in their order; without a chain only the first.
TiersOf(p) ==
  IF p.chain = << >> THEN <<Top(p)>>
  ELSE <<Top(p) \cap Fitting(p), Fitting(p)>> \o
       [k \in 1 .. Len(p.chain) - 1 |-> PrefixTier(p, Len(p.chain) - k)]
Tiers == [p \in Path |-> TiersOf(p)]
ChainTiers(p) == IF p.chain = << >> THEN {1} ELSE {1, 2}

\* The first of some tiers that has a dish that is not to be avoided.
\* Mutant of FirstOf: the first tier that has a dish, with all it has.
FirstOfWhole(tiers, among, avoid) ==
  LET some == {i \in among : tiers[i] # {}}
  IN IF some = {} THEN {} ELSE tiers[Min(some)]
FirstOf(tiers, among, avoid) ==
  LET fresh == {i \in among : tiers[i] \ avoid # {}}
  IN IF fresh = {} THEN {} ELSE tiers[Min(fresh)] \ avoid

\* Mutant of LeastUsed: it makes no difference.
LeastUsedAny(dishes, t) == dishes

\* Dishes that were recommended least often since t.
LeastUsed(dishes, t) ==
  {d \in dishes : \A e \in dishes : Used(d, t) <= Used(e, t)}

\* The chain's tiers without what the user or anybody got; then together
\* without what the user got, evenly; then the beginnings of the chain; then
\* again what there is.  The names are those of the look, the counts of now.
Candidates(u, look) ==
  LET tiers == Tiers[look.path]
      chained == ChainTiers(look.path)
      mine == RecentDishes(u)
      fresh == FirstOf(tiers, chained, mine \cup Busy(look))
      even == LeastUsed((UNION {tiers[i] : i \in chained}) \ mine, look.at)
      wider == FirstOf(tiers, DOMAIN tiers \ chained, mine)
      again == FirstOf(tiers, DOMAIN tiers, {})
  IN CASE fresh # {} -> fresh
       [] fresh = {} /\ even # {} -> even
       [] fresh = {} /\ even = {} /\ wider # {} -> wider
       [] OTHER -> IF again # {} THEN again ELSE Dish

----------------------------------------------------------------------------

Open == {u \in User : looking[u] # NoPick \/ picked[u] # NoPick}

\* A session was answered, or its dish swapped, and finalize is called.
Begin(u, path, source) ==
  /\ u \notin Open
  /\ Cardinality(Open) < MaxOpen
  /\ Cardinality(Open) + Len(recommendation) < MaxRounds
  /\ alike' = IF alike \in {NoPick, path} /\ Open = {} /\ source = "local"
                THEN path ELSE Mixed

\* The LLM fails, or its dish does not fit: the user's recent dishes and the
\* names of the last half hour are read.
LookLocal(u, path) ==
  /\ Begin(u, path, "local")
  /\ looking' = [looking EXCEPT ![u] =
       [path |-> path, at |-> now, seen |-> Len(recommendation)]]
  /\ UNCHANGED <<now, recommendation, picked>>

\* The rows of the half hour are counted, and a dish is taken.
DecideLocal(u) ==
  /\ looking[u] # NoPick
  /\ \E d \in Candidates(u, looking[u]) :
       picked' = [picked EXCEPT ![u] =
         [name |-> d, path |-> looking[u].path, source |-> "local"]]
  /\ looking' = [looking EXCEPT ![u] = NoPick]
  /\ UNCHANGED <<now, recommendation, alike>>

\* Any name that fits, of the pool or not; what to avoid is only asked of it.
DecideLlm(u, path) ==
  /\ Begin(u, path, "llm")
  /\ \E n \in Name :
       /\ Consistent(n, path.chain)
       /\ picked' = [picked EXCEPT ![u] =
            [name |-> n, path |-> path, source |-> "llm"]]
  /\ UNCHANGED <<now, recommendation, looking>>

\* Mutant of Commit: the row is written again.
CommitTwice(u) ==
  /\ picked[u] # NoPick
  /\ recommendation' =
       Append(recommendation,
              [user |-> u, name |-> picked[u].name, at |-> now])
  /\ UNCHANGED <<now, looking, picked, alike>>

Commit(u) ==
  /\ picked[u] # NoPick
  /\ recommendation' =
       Append(recommendation,
              [user |-> u, name |-> picked[u].name, at |-> now])
  /\ picked' = [picked EXCEPT ![u] = NoPick]
  /\ UNCHANGED <<now, looking, alike>>

Tick ==
  /\ now < MaxTime
  /\ now' = now + 1
  /\ UNCHANGED <<recommendation, looking, picked, alike>>

Next ==
  \/ \E u \in User, path \in Path : LookLocal(u, path) \/ DecideLlm(u, path)
  \/ \E u \in User : DecideLocal(u) \/ Commit(u)
  \/ Tick

Spec == Init /\ [][Next]_vars

----------------------------------------------------------------------------
(* Correctness.                                                            *)

TypeOK ==
  /\ now \in 0 .. MaxTime
  /\ recommendation \in Seq(Recommendation)
  /\ Len(recommendation) <= MaxRounds
  /\ looking \in [User -> Look \cup {NoPick}]
  /\ picked \in [User -> Pick \cup {NoPick}]
  /\ alike \in Path \cup {NoPick, Mixed}

\* The local pick for u in this step.
PicksLocally(u) ==
  picked[u] = NoPick /\ picked'[u] # NoPick /\ picked'[u].source = "local"

\* The dishes for the answers; without a chain those of the best score.
For(p) == IF p.chain = << >> THEN Top(p) ELSE Fitting(p)

\* As long as a dish is there for the answers and the user did not get it
\* lately, the pick is such a dish; and if nobody had got one of them in the
\* last half hour when the finalize looked, it is one nobody had got then,
\* whatever came into the table between: the user sees no repeat, and users
\* with the same answers do not all see the same (comments F8-b and soak in
\* _local_recommend).
FreshWhileThereIs ==
  [][\A u \in User : PicksLocally(u) =>
       LET left == For(picked'[u].path) \ RecentDishes(u)
           busy == Busy(looking[u])
       IN /\ left # {} => picked'[u].name \in left
          /\ left \ busy # {} => picked'[u].name \notin busy]_vars

\* A dish beside the answers is only picked when the user got all that fit,
\* or nothing fits; and if any of the best fits a beginning of the chain that
\* says something, the pick fits one (comment F8: no unfiltered pick).
OffPathOnlyWhenDry ==
  [][\A u \in User : PicksLocally(u) =>
       LET p == picked'[u].path
           d == picked'[u].name
           begins == {SubSeq(p.chain, 1, n) : n \in 1 .. Len(p.chain)}
           telling == {b \in begins : Hinted(b) # {}}
       IN d \notin Fitting(p) =>
            /\ Fitting(p) \subseteq RecentDishes(u)
            /\ (\E b \in telling, e \in Top(p) : Consistent(e, b)) =>
                 \E b \in telling : Consistent(d, b)]_vars

\* Users with the same answers are spread evenly over the dishes there are:
\* in half an hour in which each got one dish from the pool, one after the
\* other, the counts of two dishes differ by one at most ("two dishes and
\* six users: about three each", quiz.py 761).
EvenSpread ==
  LET rows == DOMAIN recommendation
  IN /\ alike \in Path /\ InWindow = rows
     /\ \A i, k \in rows : recommendation[i].user = recommendation[k].user => i = k
     => \A d, e \in For(alike) : Used(d, now) <= Used(e, now) + 1
=============================================================================
