------------------------ MODULE LocalRecommendProofs ------------------------
(***************************************************************************)
(* Theorems about LocalRecommend for any users, dishes, tags and answers,  *)
(* and any number of recommendations.                                      *)
(***************************************************************************)
EXTENDS LocalRecommend, FiniteSetTheorems, WellFoundedInduction, TLAPS

----------------------------------------------------------------------------
(* The operators.                                                          *)

\* A set of naturals that is not empty has a least member, which Min names.
LEMMA LeastNat ==
  ASSUME NEW T \in SUBSET Nat, T # {}
  PROVE  \E n \in T : \A m \in T : n <= m
<1>1. PICK n \in T : \A m \in T : ~ (<<m, n>> \in OpToRel(<, Nat))
  BY NatLessThanWellFounded, WFMin, Zenon
<1>2. \A m \in T : ~(m < n)
  BY <1>1 DEF OpToRel
<1> QED BY <1>2

\* FirstOf is what is left of one of the tiers, if anything is left of any.
LEMMA FirstOfIs ==
  ASSUME NEW tiers, NEW among \in SUBSET Nat, NEW avoid
  PROVE  LET first == FirstOf(tiers, among, avoid)
         IN  IF \E i \in among : tiers[i] \ avoid # {}
               THEN first # {} /\ \E i \in among : first = tiers[i] \ avoid
               ELSE first = {}
<1> DEFINE fresh == {i \in among : tiers[i] \ avoid # {}}
<1>1. CASE fresh = {}
  BY <1>1 DEF FirstOf
<1>2. CASE fresh # {}
  <2>1. Min(fresh) \in fresh
    <3> HIDE DEF fresh
    <3>1. fresh \in SUBSET Nat
      BY DEF fresh
    <3>2. \E n \in fresh : \A m \in fresh : n <= m
      BY <1>2, <3>1, LeastNat
    <3> QED BY <3>2 DEF Min
  <2> QED BY <1>2, <2>1 DEF FirstOf
<1> QED BY <1>1, <1>2

\* The rows of a window are counted.
LEMMA UsedCounts ==
  ASSUME recommendation \in Seq(Recommendation), NEW d, NEW t
  PROVE  Used(d, t) \in Nat
<1> DEFINE rows == {i \in Since(t) : recommendation[i].name = d}
<1>1. PICK n \in Nat : DOMAIN recommendation = 1 .. n
  OBVIOUS
<1>2. rows \in SUBSET (1 .. n)
  BY <1>1 DEF Since
<1>3. IsFiniteSet(1 .. n)
  BY FS_Interval
<1> HIDE DEF rows
<1>4. IsFiniteSet(rows) /\ Cardinality(rows) \in Nat
  BY <1>2, <1>3, FS_Subset, FS_CardinalityType
<1> QED BY <1>4 DEF Used, rows

\* Some dish was recommended least often.
LEMMA SomeLeastUsed ==
  ASSUME recommendation \in Seq(Recommendation), NEW S, S # {}, NEW t
  PROVE  LeastUsed(S, t) # {}
<1> DEFINE counts == {Used(d, t) : d \in S}
<1>1. counts \in SUBSET Nat /\ counts # {}
  BY UsedCounts
<1>2. PICK n \in counts : \A m \in counts : n <= m
  <2> HIDE DEF counts
  <2> QED BY <1>1, LeastNat
<1>3. PICK d \in S : n = Used(d, t)
  BY <1>2
<1>4. \A e \in S : Used(d, t) <= Used(e, t)
  BY <1>2, <1>3
<1> QED BY <1>4 DEF LeastUsed

\* The tiers one by one.
LEMMA TiersAre ==
  ASSUME NEW p \in Path
  PROVE  /\ p.chain = << >> => Tiers[p] = <<Top(p)>>
         /\ p.chain # << >> =>
              /\ DOMAIN Tiers[p] = 1 .. Len(p.chain) + 1
              /\ Tiers[p][1] = Top(p) \cap Fitting(p)
              /\ Tiers[p][2] = Fitting(p)
              /\ \A k \in 1 .. Len(p.chain) - 1 :
                   Tiers[p][k + 2] = PrefixTier(p, Len(p.chain) - k)
<1>1. Tiers[p] = TiersOf(p)
  BY DEF Tiers
<1>2. PICK len \in Nat : Len(p.chain) = len /\ (p.chain # << >> => len # 0)
  BY RecommendAssumption
<1>3. CASE p.chain # << >>
  <2>0. len \in Nat /\ len # 0 /\ Len(p.chain) = len
    BY <1>2, <1>3
  <2> DEFINE begins == [k \in 1 .. len - 1 |-> PrefixTier(p, len - k)]
             S == {PrefixTier(p, len - k) : k \in 1 .. len - 1}
             first == <<Top(p) \cap Fitting(p), Fitting(p)>>
  <2>1. begins \in Seq(S) /\ Len(begins) = len - 1
    <3>1. begins \in [1 .. len - 1 -> S] /\ len - 1 \in Nat
      BY <2>0
    <3> HIDE DEF begins, S
    <3> QED BY <3>1
  <2>2. TiersOf(p) = first \o begins
    BY <1>2, <1>3 DEF TiersOf
  <2>3. \A k \in 1 .. len - 1 : begins[k] = PrefixTier(p, len - k)
    OBVIOUS
  <2> HIDE DEF begins, S
  <2>4. /\ DOMAIN (first \o begins) = 1 .. len + 1
        /\ (first \o begins)[1] = Top(p) \cap Fitting(p)
        /\ (first \o begins)[2] = Fitting(p)
        /\ \A k \in 1 .. len - 1 : (first \o begins)[k + 2] = begins[k]
    BY <2>0, <2>1
  <2> HIDE DEF first
  <2> QED BY <1>1, <1>3, <2>0, <2>2, <2>3, <2>4
<1> QED BY <1>1, <1>3 DEF TiersOf

\* Every tier holds dishes, and the chain's hold those for the answers.
LEMMA ChainTiersAre ==
  ASSUME NEW p \in Path
  PROVE  /\ ChainTiers(p) \in SUBSET Nat /\ ChainTiers(p) \subseteq DOMAIN Tiers[p]
         /\ DOMAIN Tiers[p] \in SUBSET Nat
         /\ \A i \in DOMAIN Tiers[p] : Tiers[p][i] \subseteq Dish
         /\ UNION {Tiers[p][i] : i \in ChainTiers(p)} = For(p)
<1>1. CASE p.chain = << >>
  <2>1. Tiers[p] = <<Top(p)>> /\ ChainTiers(p) = {1} /\ For(p) = Top(p)
    BY <1>1, TiersAre DEF ChainTiers, For
  <2> QED BY <2>1 DEF Top
<1>2. CASE p.chain # << >>
  <2>1. PICK len \in Nat : Len(p.chain) = len /\ len # 0
    BY <1>2, RecommendAssumption
  <2>2. /\ DOMAIN Tiers[p] = 1 .. len + 1
        /\ Tiers[p][1] = Top(p) \cap Fitting(p)
        /\ Tiers[p][2] = Fitting(p)
        /\ \A k \in 1 .. len - 1 : Tiers[p][k + 2] = PrefixTier(p, len - k)
    BY <1>2, <2>1, TiersAre
  <2>3. ChainTiers(p) = {1, 2} /\ For(p) = Fitting(p)
    BY <1>2 DEF ChainTiers, For
  <2>4. ASSUME NEW i \in 1 .. len + 1 PROVE Tiers[p][i] \subseteq Dish
    <3>1. CASE i \in {1, 2}
      BY <2>2, <3>1 DEF Fitting
    <3>2. CASE i \notin {1, 2}
      <4>1. i - 2 \in 1 .. len - 1 /\ (i - 2) + 2 = i
        BY <2>1, <3>2
      <4>2. Tiers[p][i] = PrefixTier(p, len - (i - 2))
        BY <2>2, <4>1
      <4> QED BY <4>2 DEF PrefixTier, Top
    <3> QED BY <3>1, <3>2
  <2>5. {1, 2} \subseteq 1 .. len + 1
    BY <2>1
  <2>6. UNION {Tiers[p][i] : i \in {1, 2}} = Fitting(p)
    BY <2>2
  <2> QED BY <2>2, <2>3, <2>4, <2>5, <2>6
<1> QED BY <1>1, <1>2

\* A beginning of the chain that says something, and a dish that fits it.
Begins(p) == {SubSeq(p.chain, 1, n) : n \in 1 .. Len(p.chain)}
FitsBeginning(p, d) ==
  \E b \in Begins(p) : Hinted(b) # {} /\ Consistent(d, b)

\* A dish of a tier fits the answers or a beginning of them.
LEMMA TierFits ==
  ASSUME NEW p \in Path, NEW i \in DOMAIN Tiers[p], NEW d \in Tiers[p][i]
  PROVE  d \in Fitting(p) \/ FitsBeginning(p, d)
<1>1. CASE p.chain = << >>
  <2>1. d \in Dish
    BY ChainTiersAre
  <2>2. Hinted(<< >>) = {}
    BY DEF Hinted
  <2> QED BY <1>1, <2>1, <2>2 DEF Fitting, Consistent
<1>2. CASE p.chain # << >>
  <2>1. PICK len \in Nat : Len(p.chain) = len /\ len # 0
    BY <1>2, RecommendAssumption
  <2>2. /\ DOMAIN Tiers[p] = 1 .. len + 1
        /\ Tiers[p][1] = Top(p) \cap Fitting(p)
        /\ Tiers[p][2] = Fitting(p)
        /\ \A k \in 1 .. len - 1 : Tiers[p][k + 2] = PrefixTier(p, len - k)
    BY <1>2, <2>1, TiersAre
  <2>3. CASE i \in {1, 2}
    BY <2>2, <2>3
  <2>4. CASE i \notin {1, 2}
    <3>1. i - 2 \in 1 .. len - 1 /\ (i - 2) + 2 = i /\ len - (i - 2) \in 1 .. len
      BY <2>1, <2>2, <2>4
    <3> DEFINE b == SubSeq(p.chain, 1, len - (i - 2))
    <3>2. d \in PrefixTier(p, len - (i - 2))
      BY <2>2, <3>1
    <3>3. Hinted(b) # {} /\ Consistent(d, b)
      BY <3>2 DEF PrefixTier
    <3>4. b \in Begins(p)
      BY <2>1, <3>1 DEF Begins
    <3> QED BY <3>3, <3>4 DEF FitsBeginning
  <2> QED BY <2>3, <2>4
<1> QED BY <1>1, <1>2

\* If one of the best fits a beginning of the chain, some tier has a dish.
LEMMA SomeTier ==
  ASSUME NEW p \in Path, NEW e \in Top(p), FitsBeginning(p, e)
  PROVE  \E i \in DOMAIN Tiers[p] : Tiers[p][i] # {}
<1>1. PICK len \in Nat : Len(p.chain) = len /\ p.chain \in Seq(DOMAIN NodeTags)
  BY RecommendAssumption
<1>2. PICK n \in 1 .. len : LET b == SubSeq(p.chain, 1, n)
                            IN  Hinted(b) # {} /\ Consistent(e, b)
  BY <1>1 DEF FitsBeginning, Begins
<1>3. p.chain # << >>
  BY <1>1, <1>2
<1>4. /\ DOMAIN Tiers[p] = 1 .. len + 1
      /\ Tiers[p][1] = Top(p) \cap Fitting(p)
      /\ \A k \in 1 .. len - 1 : Tiers[p][k + 2] = PrefixTier(p, len - k)
  BY <1>1, <1>3, TiersAre
<1>5. CASE n = len
  <2>1. SubSeq(p.chain, 1, n) = p.chain
    BY <1>1, <1>5
  <2>2. e \in Tiers[p][1]
    BY <1>2, <1>4, <2>1 DEF Fitting, Top
  <2>3. 1 \in 1 .. len + 1
    BY <1>1
  <2> QED BY <1>4, <2>2, <2>3
<1>6. CASE n # len
  <2>1. len - n \in 1 .. len - 1 /\ len - (len - n) = n
    BY <1>1, <1>6
  <2>2. e \in PrefixTier(p, n)
    BY <1>2 DEF PrefixTier
  <2>3. e \in Tiers[p][len - n + 2] /\ len - n + 2 \in 1 .. len + 1
    BY <1>4, <2>1, <2>2
  <2> QED BY <1>4, <2>3
<1> QED BY <1>5, <1>6

----------------------------------------------------------------------------
(* The pick.                                                               *)

\* What a pick from the pool promises: a dish for the answers that the user
\* did not get lately while there is one, one nobody got lately while there is
\* one, else one of those recommended least often; and only when none is left
\* one that fits a beginning of the answers, if one of the best does.
LEMMA CandidatesAre ==
  ASSUME recommendation \in Seq(Recommendation),
         NEW u \in User, NEW look, NEW p \in Path, p = look.path,
         NEW d \in Candidates(u, look)
  PROVE  LET left == For(p) \ RecentDishes(u)
         IN  /\ d \in Dish
             /\ left # {} => d \in left
             /\ left \ Busy(look) # {} => d \notin Busy(look)
             /\ left # {} => \/ d \notin Busy(look)
                             \/ \A e \in left :
                                  Used(d, look.at) <= Used(e, look.at)
             /\ d \notin Fitting(p) /\ (\E e \in Top(p) : FitsBeginning(p, e)) =>
                  FitsBeginning(p, d)
<1> DEFINE tiers == Tiers[p]
           chained == ChainTiers(p)
           mine == RecentDishes(u)
           left == For(p) \ mine
           busy == Busy(look)
           fresh == FirstOf(tiers, chained, mine \cup busy)
           even == LeastUsed((UNION {tiers[i] : i \in chained}) \ mine,
                             look.at)
           wider == FirstOf(tiers, DOMAIN tiers \ chained, mine)
           again == FirstOf(tiers, DOMAIN tiers, {})
           Promise ==
             /\ d \in Dish
             /\ left # {} => d \in left
             /\ left \ busy # {} => d \notin busy
             /\ left # {} => \/ d \notin busy
                             \/ \A e \in left :
                                  Used(d, look.at) <= Used(e, look.at)
             /\ d \notin Fitting(p) /\ (\E e \in Top(p) : FitsBeginning(p, e)) =>
                  FitsBeginning(p, d)
<1>1. /\ chained \in SUBSET Nat /\ DOMAIN tiers \in SUBSET Nat
      /\ chained \subseteq DOMAIN tiers
      /\ \A i \in DOMAIN tiers : tiers[i] \subseteq Dish
      /\ UNION {tiers[i] : i \in chained} = For(p)
  BY ChainTiersAre
<1>2. \A i \in DOMAIN tiers : \A e \in tiers[i] :
        e \in Fitting(p) \/ FitsBeginning(p, e)
  BY TierFits
<1>3. (\E e \in Top(p) : FitsBeginning(p, e)) =>
        \E i \in DOMAIN tiers : tiers[i] # {}
  BY SomeTier
<1>4. IF \E i \in chained : tiers[i] \ (mine \cup busy) # {}
        THEN fresh # {} /\ \E i \in chained : fresh = tiers[i] \ (mine \cup busy)
        ELSE fresh = {}
  <2> HIDE DEF tiers, chained, mine, busy
  <2>1. PICK avoid : avoid = mine \cup busy
    OBVIOUS
  <2>2. LET first == FirstOf(tiers, chained, avoid)
        IN  IF \E i \in chained : tiers[i] \ avoid # {}
              THEN first # {} /\ \E i \in chained : first = tiers[i] \ avoid
              ELSE first = {}
    BY <1>1, FirstOfIs
  <2> QED BY <2>1, <2>2
<1>5. even = LeastUsed(left, look.at) /\ (left # {} => even # {})
  <2>1. (UNION {tiers[i] : i \in chained}) \ mine = left
    <3> HIDE DEF tiers, chained, mine
    <3> QED BY <1>1
  <2>2. even = LeastUsed(left, look.at)
    BY <2>1
  <2> HIDE DEF left, even
  <2> QED BY <2>2, SomeLeastUsed
<1>6. wider # {} => \E i \in DOMAIN tiers : wider = tiers[i] \ mine
  <2>1. DOMAIN tiers \ chained \in SUBSET Nat
    BY <1>1
  <2> HIDE DEF tiers, chained, mine
  <2>2. PICK among : among = DOMAIN tiers \ chained
    OBVIOUS
  <2>3. LET first == FirstOf(tiers, among, mine)
        IN  IF \E i \in among : tiers[i] \ mine # {}
              THEN first # {} /\ \E i \in among : first = tiers[i] \ mine
              ELSE first = {}
    <3>1. among \in SUBSET Nat
      BY <2>1, <2>2
    <3> QED BY <3>1, FirstOfIs
  <2>4. FirstOf(tiers, among, mine) = wider
    BY <2>2
  <2> HIDE DEF wider
  <2>5. wider # {} => \E i \in among : wider = tiers[i] \ mine
    BY <2>3, <2>4
  <2> QED BY <2>2, <2>5
<1>7. IF \E i \in DOMAIN tiers : tiers[i] # {}
        THEN again # {} /\ \E i \in DOMAIN tiers : again = tiers[i]
        ELSE again = {}
  <2> HIDE DEF tiers
  <2>1. \A i \in DOMAIN tiers : tiers[i] \ {} = tiers[i]
    OBVIOUS
  <2>2. IF \E i \in DOMAIN tiers : tiers[i] \ {} # {}
          THEN again # {} /\ \E i \in DOMAIN tiers : again = tiers[i] \ {}
          ELSE again = {}
    <3>1. PICK nothing : nothing = {}
      OBVIOUS
    <3>2. LET first == FirstOf(tiers, DOMAIN tiers, nothing)
          IN  IF \E i \in DOMAIN tiers : tiers[i] \ nothing # {}
                THEN first # {} /\ \E i \in DOMAIN tiers :
                                     first = tiers[i] \ nothing
                ELSE first = {}
      BY <1>1, FirstOfIs
    <3> QED BY <3>1, <3>2
  <2> HIDE DEF again
  <2> QED BY <2>1, <2>2
<1>8. d \in CASE fresh # {} -> fresh
              [] fresh = {} /\ even # {} -> even
              [] fresh = {} /\ even = {} /\ wider # {} -> wider
              [] OTHER -> IF again # {} THEN again ELSE Dish
  BY DEF Candidates
<1>9. Promise
  <2> HIDE DEF tiers, chained, mine, busy, fresh, even, wider, again
  <2>1. CASE fresh # {}
    <3>1. PICK i \in chained : d \in tiers[i] \ (mine \cup busy)
      BY <1>4, <1>8, <2>1
    <3>2. d \in For(p) /\ i \in DOMAIN tiers
      BY <1>1, <3>1
    <3> QED BY <1>1, <1>2, <3>1, <3>2
  <2>2. CASE fresh = {} /\ even # {}
    <3>1. d \in left /\ \A e \in left : Used(d, look.at) <= Used(e, look.at)
      BY <1>5, <1>8, <2>2 DEF LeastUsed
    <3>2. PICK i \in chained : d \in tiers[i]
      BY <1>1, <3>1
    <3>3. left \ busy = {}
      BY <1>1, <1>4, <2>2
    <3> QED BY <1>1, <1>2, <3>1, <3>2, <3>3
  <2>3. CASE fresh = {} /\ even = {}
    <3>1. left = {}
      BY <1>5, <2>3
    <3>2. CASE \E i \in DOMAIN tiers : d \in tiers[i]
      BY <1>1, <1>2, <3>1, <3>2
    <3>3. CASE ~ \E i \in DOMAIN tiers : d \in tiers[i]
      <4>1. wider = {} /\ again = {} /\ d \in Dish
        BY <1>6, <1>7, <1>8, <2>3, <3>3
      <4> QED BY <1>3, <1>7, <3>1, <4>1
    <3> QED BY <3>2, <3>3
  <2> QED BY <2>1, <2>2, <2>3
<1> QED BY <1>9

----------------------------------------------------------------------------
(* The invariant.                                                          *)

\* Every finalize under way has its place in the table.
Bounded ==
  /\ IsFiniteSet(Open)
  /\ Cardinality(Open) + Len(recommendation) <= MaxRounds

\* No finalize looks and has decided, and none looked in the future.
InOrder ==
  \A u \in User : looking[u] # NoPick =>
    picked[u] = NoPick /\ looking[u].at <= now

Types == TypeOK /\ Bounded /\ InOrder

\* What alike tells of the finalize under way, and what it reads of the table
\* while no other is.
InTurn ==
  /\ alike = NoPick => recommendation = << >> /\ Open = {}
  /\ alike \in Path => \A u \in Open :
       /\ Open = {u}
       /\ picked[u] # NoPick => picked[u].path = alike
       /\ looking[u] # NoPick => /\ looking[u].path = alike
                                 /\ looking[u].seen = Len(recommendation)

\* It will write a dish that was least used among those for its answers, and
\* still is.
FairPick ==
  alike \in Path /\ InWindow = DOMAIN recommendation =>
    \A u \in Open : Of(u) = {} /\ picked[u] # NoPick =>
      \A e \in For(alike) : Used(picked[u].name, now) <= Used(e, now)

\* The two sides of EvenSpread: all that is in the table is recent, and one row
\* for each user; and the dishes for some answers are used alike.
OneEach ==
  /\ InWindow = DOMAIN recommendation
  /\ \A i, k \in DOMAIN recommendation :
       recommendation[i].user = recommendation[k].user => i = k
Spread(p) == \A d, e \in For(p) : Used(d, now) <= Used(e, now) + 1

SpreadInv == Types /\ InTurn /\ FairPick /\ EvenSpread

LEMMA InitTypes == Init => Types
<1> SUFFICES ASSUME Init PROVE Types
  OBVIOUS
<1>1. Open = {} /\ Len(recommendation) = 0
  BY DEF Init, Open
<1>2. IsFiniteSet(Open) /\ Cardinality(Open) = 0
  BY <1>1, FS_EmptySet
<1> QED BY <1>1, <1>2, RecommendAssumption DEF Init, Types, TypeOK, Bounded,
   InOrder

\* A finalize begins, to look or with the name the LLM gave.
LEMMA BeginTypes ==
  ASSUME Types, NEW u \in User, NEW path \in Path, NEW source,
         Begin(u, path, source), UNCHANGED <<now, recommendation>>,
         looking' \in [User -> Look \cup {NoPick}],
         picked' \in [User -> Pick \cup {NoPick}],
         looking'[u] # NoPick \/ picked'[u] # NoPick, InOrder',
         \A v \in User \ {u} : looking'[v] = looking[v] /\ picked'[v] = picked[v]
  PROVE  Types' /\ Open' = Open \cup {u} /\ u \notin Open
<1>1. u \notin Open /\ alike' \in Path \cup {NoPick, Mixed}
  BY DEF Begin
<1>2. Open' = Open \cup {u}
  BY <1>1 DEF Open
<1>3. IsFiniteSet(Open') /\ Cardinality(Open') = Cardinality(Open) + 1
  BY <1>1, <1>2, FS_AddElement DEF Types, Bounded
<1>4. Cardinality(Open) + Len(recommendation) < MaxRounds
  BY DEF Begin
<1>5. Cardinality(Open) \in Nat
  BY FS_CardinalityType DEF Types, Bounded
<1>6. Bounded'
  <2>1. PICK len \in Nat : Len(recommendation) = len /\ Len(recommendation)' = len
    BY DEF Types, TypeOK
  <2> QED BY <1>3, <1>4, <1>5, <2>1, RecommendAssumption DEF Bounded
<1>7. TypeOK'
  BY <1>1 DEF Types, TypeOK
<1> QED BY <1>1, <1>2, <1>6, <1>7 DEF Types

\* It looks at the table.
LEMMA LookTypes ==
  ASSUME Types, NEW u \in User, NEW path \in Path, LookLocal(u, path)
  PROVE  /\ Types' /\ Open' = Open \cup {u} /\ u \notin Open
         /\ looking'[u] = [path |-> path, at |-> now,
                           seen |-> Len(recommendation)]
         /\ looking'[u] # NoPick
         /\ \A v \in User \ {u} : looking'[v] = looking[v]
         /\ UNCHANGED <<now, recommendation, picked>>
<1> DEFINE look == [path |-> path, at |-> now, seen |-> Len(recommendation)]
<1>1. /\ Begin(u, path, "local") /\ UNCHANGED <<now, recommendation, picked>>
      /\ looking' = [looking EXCEPT ![u] = look]
  BY DEF LookLocal
<1>2. look \in Look
  BY DEF Look, Types, TypeOK
<1>3. look # NoPick
  BY <1>2, RecommendAssumption
<1> HIDE DEF look
<1>4. /\ looking' \in [User -> Look \cup {NoPick}] /\ looking'[u] = look
      /\ \A v \in User \ {u} : looking'[v] = looking[v]
      /\ picked' \in [User -> Pick \cup {NoPick}]
  BY <1>1, <1>2 DEF Types, TypeOK
<1>5. InOrder'
  <2>1. picked[u] = NoPick /\ now \in Int
    BY <1>1 DEF Begin, Open, Types, TypeOK
  <2>2. look.at <= now'
    BY <1>1, <2>1 DEF look
  <2> QED BY <1>1, <1>4, <2>1, <2>2 DEF InOrder, Types
<1>6. Types' /\ Open' = Open \cup {u} /\ u \notin Open
  BY <1>1, <1>3, <1>4, <1>5, BeginTypes
<1> QED BY <1>1, <1>3, <1>4, <1>6 DEF look

\* The LLM gives a name.
LEMMA LlmTypes ==
  ASSUME Types, NEW u \in User, NEW path \in Path, DecideLlm(u, path)
  PROVE  /\ Types' /\ Open' = Open \cup {u} /\ u \notin Open
         /\ picked'[u] # NoPick /\ picked'[u].source = "llm"
         /\ \A v \in User \ {u} : picked'[v] = picked[v]
         /\ UNCHANGED <<now, recommendation, looking>>
<1>1. PICK n \in Name :
        picked' = [picked EXCEPT ![u] =
                     [name |-> n, path |-> path, source |-> "llm"]]
  BY DEF DecideLlm
<1> DEFINE pick == [name |-> n, path |-> path, source |-> "llm"]
<1>2. pick \in Pick /\ pick.source = "llm"
  BY DEF Pick, Source
<1>3. pick # NoPick
  BY <1>2, RecommendAssumption
<1>4. Begin(u, path, "llm") /\ UNCHANGED <<now, recommendation, looking>>
      /\ picked' = [picked EXCEPT ![u] = pick]
  BY <1>1 DEF DecideLlm
<1> HIDE DEF pick
<1>5. /\ picked' \in [User -> Pick \cup {NoPick}] /\ picked'[u] = pick
      /\ \A v \in User \ {u} : picked'[v] = picked[v]
      /\ looking' \in [User -> Look \cup {NoPick}]
  BY <1>2, <1>4 DEF Types, TypeOK
<1>6. InOrder'
  <2>1. looking[u] = NoPick
    BY <1>4 DEF Begin, Open
  <2> QED BY <1>4, <1>5, <2>1 DEF InOrder, Types
<1>7. Types' /\ Open' = Open \cup {u} /\ u \notin Open
  BY <1>3, <1>4, <1>5, <1>6, BeginTypes
<1> QED BY <1>2, <1>3, <1>4, <1>5, <1>7

\* A finalize that looked decides on a dish.
LEMMA LocalTypes ==
  ASSUME Types, NEW u \in User, DecideLocal(u)
  PROVE  /\ Types' /\ Open' = Open /\ u \in Open
         /\ looking[u] \in Look /\ looking[u] # NoPick
         /\ looking' = [looking EXCEPT ![u] = NoPick]
         /\ picked'[u] # NoPick /\ picked'[u].source = "local"
         /\ picked'[u].path = looking[u].path
         /\ picked'[u].name \in Candidates(u, looking[u])
         /\ \A v \in User \ {u} : picked'[v] = picked[v]
         /\ UNCHANGED <<now, recommendation, alike>>
<1>1. looking[u] \in Look /\ looking[u] # NoPick /\ looking[u].path \in Path
  BY DEF DecideLocal, Types, TypeOK, Look
<1>2. PICK d \in Candidates(u, looking[u]) :
        picked' = [picked EXCEPT ![u] =
                     [name |-> d, path |-> looking[u].path, source |-> "local"]]
  BY DEF DecideLocal
<1> DEFINE pick == [name |-> d, path |-> looking[u].path, source |-> "local"]
<1>3. d \in Dish
  BY <1>1, CandidatesAre DEF Types, TypeOK
<1>4. pick \in Pick
  BY <1>1, <1>3, RecommendAssumption DEF Pick, Source
<1>5. pick # NoPick
  BY <1>4, RecommendAssumption
<1>6. /\ pick.source = "local" /\ pick.path = looking[u].path
      /\ pick.name \in Candidates(u, looking[u])
      /\ picked' = [picked EXCEPT ![u] = pick]
  BY <1>2
<1> HIDE DEF pick
<1>7. /\ picked' \in [User -> Pick \cup {NoPick}] /\ picked'[u] = pick
      /\ \A v \in User \ {u} : picked'[v] = picked[v]
  BY <1>4, <1>6 DEF Types, TypeOK
<1>8. /\ looking' = [looking EXCEPT ![u] = NoPick]
      /\ UNCHANGED <<now, recommendation, alike>>
  BY DEF DecideLocal
<1>9. /\ looking' \in [User -> Look \cup {NoPick}]
      /\ \A v \in User \ {u} : looking'[v] = looking[v]
  BY <1>8 DEF Types, TypeOK
<1>10. Open' = Open /\ u \in Open
  BY <1>1, <1>5, <1>7, <1>9 DEF Open
<1>11. Types'
  <2>1. TypeOK' /\ Bounded'
    BY <1>7, <1>8, <1>9, <1>10 DEF Types, TypeOK, Bounded
  <2>2. looking'[u] = NoPick
    BY <1>8 DEF Types, TypeOK
  <2>3. InOrder'
    BY <1>7, <1>8, <1>9, <2>2 DEF Types, InOrder
  <2> QED BY <2>1, <2>3 DEF Types
<1> QED BY <1>1, <1>5, <1>6, <1>7, <1>8, <1>10, <1>11

\* It writes its row.
LEMMA CommitTypes ==
  ASSUME Types, NEW u \in User, Commit(u)
  PROVE  /\ Types' /\ u \in Open /\ Open' = Open \ {u}
         /\ picked[u] \in Pick /\ picked[u] # NoPick
         /\ UNCHANGED <<now, looking, alike>>
         /\ \A v \in User \ {u} : picked'[v] = picked[v]
         /\ \E len \in Nat :
              /\ DOMAIN recommendation = 1 .. len
              /\ DOMAIN recommendation' = 1 .. len + 1
              /\ recommendation'[len + 1] =
                   [user |-> u, name |-> picked[u].name, at |-> now]
              /\ \A i \in 1 .. len : recommendation'[i] = recommendation[i]
<1> DEFINE row == [user |-> u, name |-> picked[u].name, at |-> now]
<1>1. /\ picked[u] # NoPick
      /\ recommendation' = Append(recommendation, row)
      /\ picked' = [picked EXCEPT ![u] = NoPick]
      /\ UNCHANGED <<now, looking, alike>>
  BY DEF Commit
<1>2. picked[u] \in Pick /\ picked[u].name \in Name
  BY <1>1 DEF Types, TypeOK, Pick
<1>3. row \in Recommendation
  BY <1>2 DEF Recommendation, Types, TypeOK
<1>4. u \in Open /\ Open' = Open \ {u}
  BY <1>1 DEF Open, Types, TypeOK, InOrder
<1>5. /\ IsFiniteSet(Open') /\ Cardinality(Open') = Cardinality(Open) - 1
      /\ Cardinality(Open) \in Nat
  BY <1>4, FS_RemoveElement, FS_CardinalityType DEF Types, Bounded
<1>6. PICK len \in Nat : Len(recommendation) = len
  BY DEF Types, TypeOK
<1> HIDE DEF row
<1>7. /\ DOMAIN recommendation = 1 .. len
      /\ DOMAIN recommendation' = 1 .. len + 1
      /\ Len(recommendation') = len + 1
      /\ recommendation' \in Seq(Recommendation)
      /\ recommendation'[len + 1] = row
      /\ \A i \in 1 .. len : recommendation'[i] = recommendation[i]
  BY <1>1, <1>3, <1>6 DEF Types, TypeOK
<1>8. Bounded'
  BY <1>5, <1>6, <1>7, RecommendAssumption DEF Types, Bounded
<1>9. Len(recommendation') <= MaxRounds
  <2>1. Cardinality(Open') \in Nat
    BY <1>5, FS_CardinalityType
  <2> QED BY <1>7, <1>8, <2>1, RecommendAssumption DEF Bounded
<1>10. TypeOK' /\ InOrder'
  <2>1. TypeOK'
    BY <1>1, <1>7, <1>9 DEF Types, TypeOK
  <2>2. InOrder'
    BY <1>1 DEF Types, TypeOK, InOrder
  <2> QED BY <2>1, <2>2
<1> QED BY <1>1, <1>2, <1>4, <1>7, <1>8, <1>10 DEF Types, row

LEMMA NextTypes == Types /\ [Next]_vars => Types'
<1> SUFFICES ASSUME Types, [Next]_vars PROVE Types'
  OBVIOUS
<1>1. ASSUME NEW u \in User, NEW path \in Path,
             LookLocal(u, path) \/ DecideLlm(u, path)
      PROVE  Types'
  BY <1>1, LookTypes, LlmTypes
<1>2. ASSUME NEW u \in User, DecideLocal(u) PROVE Types'
  BY <1>2, LocalTypes
<1>3. ASSUME NEW u \in User, Commit(u) PROVE Types'
  BY <1>3, CommitTypes
<1>4. CASE Tick
  <2>1. TypeOK' /\ Bounded'
    BY <1>4, RecommendAssumption DEF Tick, Types, TypeOK, Bounded, Open
  <2>2. now \in Int /\ now' = now + 1 /\ UNCHANGED <<looking, picked>>
    BY <1>4 DEF Tick, Types, TypeOK
  <2>3. \A u \in User : looking[u] # NoPick => looking[u].at \in Int
    BY DEF Types, TypeOK, Look
  <2>4. InOrder'
    BY <2>2, <2>3 DEF Types, InOrder
  <2> QED BY <2>1, <2>4 DEF Types
<1>5. CASE UNCHANGED vars
  BY <1>5 DEF vars, Types, TypeOK, Bounded, Open, InOrder
<1> QED BY <1>1, <1>2, <1>3, <1>4, <1>5 DEF Next

\* The table and what is under way have their types, and every finalize under
\* way finds room for its row.
THEOREM TypeCorrect == Spec => []TypeOK
<1>1. Types => TypeOK
  BY DEF Types
<1> QED BY <1>1, InitTypes, NextTypes, PTL DEF Spec

----------------------------------------------------------------------------
(* What a local pick promises.                                             *)

\* The step that decides on a dish of the pool is DecideLocal.
LEMMA PickIsLocal ==
  ASSUME Types, [Next]_vars, NEW u \in User, PicksLocally(u)
  PROVE  /\ looking[u].path \in Path /\ picked'[u].path = looking[u].path
         /\ picked'[u].name \in Candidates(u, looking[u])
<1>1. picked[u] = NoPick /\ picked'[u] # NoPick /\ picked'[u].source = "local"
  BY DEF PicksLocally
<1>2. ASSUME NEW v \in User, DecideLocal(v) PROVE u = v
  BY <1>1, <1>2, LocalTypes
<1>3. ASSUME NEW v \in User, NEW path \in Path,
             LookLocal(v, path) \/ DecideLlm(v, path)
      PROVE  FALSE
  BY <1>1, <1>3, LookTypes, LlmTypes
<1>4. ASSUME NEW v \in User, Commit(v) PROVE FALSE
  BY <1>1, <1>4 DEF Commit, Types, TypeOK
<1>5. ~Tick /\ ~UNCHANGED vars
  BY <1>1 DEF Tick, vars
<1>6. DecideLocal(u)
  BY <1>2, <1>3, <1>4, <1>5 DEF Next
<1> QED BY <1>6, LocalTypes DEF Look

\* While a dish for the answers is left that the user did not get lately, the
\* pick is one, and one that nobody had got lately when the finalize looked,
\* if there was one.
THEOREM PicksAreFresh == Spec => FreshWhileThereIs
<1> DEFINE Fresh ==
      \A u \in User : PicksLocally(u) =>
        LET left == For(picked'[u].path) \ RecentDishes(u)
            busy == Busy(looking[u])
        IN  /\ left # {} => picked'[u].name \in left
            /\ left \ busy # {} => picked'[u].name \notin busy
<1>1. Types /\ [Next]_vars => [Fresh]_vars
  <2> SUFFICES ASSUME Types, [Next]_vars, NEW u \in User, PicksLocally(u)
               PROVE  LET left == For(picked'[u].path) \ RecentDishes(u)
                          busy == Busy(looking[u])
                      IN  /\ left # {} => picked'[u].name \in left
                          /\ left \ busy # {} => picked'[u].name \notin busy
    OBVIOUS
  <2>1. /\ looking[u].path \in Path /\ picked'[u].path = looking[u].path
        /\ picked'[u].name \in Candidates(u, looking[u])
    BY PickIsLocal
  <2>2. recommendation \in Seq(Recommendation)
    BY DEF Types, TypeOK
  <2> QED BY <2>1, <2>2, CandidatesAre
<1> QED BY <1>1, InitTypes, NextTypes, PTL DEF Spec, FreshWhileThereIs

\* The pick only leaves the answers when the user got everything that fits,
\* and then fits a beginning of them if one of the best does.
THEOREM PicksStayOnPath == Spec => OffPathOnlyWhenDry
<1> DEFINE OnPath ==
      \A u \in User : PicksLocally(u) =>
        LET p == picked'[u].path
            d == picked'[u].name
            begins == {SubSeq(p.chain, 1, n) : n \in 1 .. Len(p.chain)}
            telling == {b \in begins : Hinted(b) # {}}
        IN  d \notin Fitting(p) =>
              /\ Fitting(p) \subseteq RecentDishes(u)
              /\ (\E b \in telling, e \in Top(p) : Consistent(e, b)) =>
                   \E b \in telling : Consistent(d, b)
<1>1. Types /\ [Next]_vars => [OnPath]_vars
  <2> SUFFICES ASSUME Types, [Next]_vars, NEW u \in User, PicksLocally(u)
               PROVE  LET p == picked'[u].path
                          d == picked'[u].name
                          telling == {b \in Begins(p) : Hinted(b) # {}}
                      IN  d \notin Fitting(p) =>
                            /\ Fitting(p) \subseteq RecentDishes(u)
                            /\ (\E b \in telling, e \in Top(p) : Consistent(e, b)) =>
                                 \E b \in telling : Consistent(d, b)
    BY DEF Begins
  <2> DEFINE p == picked'[u].path
             d == picked'[u].name
  <2>1. p \in Path /\ p = looking[u].path /\ d \in Candidates(u, looking[u])
    BY PickIsLocal
  <2> HIDE DEF p, d
  <2>2. /\ d \in Dish
        /\ For(p) \ RecentDishes(u) # {} => d \in For(p)
        /\ d \notin Fitting(p) /\ (\E e \in Top(p) : FitsBeginning(p, e)) =>
             FitsBeginning(p, d)
    BY <2>1, CandidatesAre DEF Types, TypeOK
  <2>3. For(p) = Fitting(p) \/ d \in Fitting(p)
    <3>1. Hinted(<< >>) = {}
      BY DEF Hinted
    <3> QED BY <2>2, <3>1 DEF For, Fitting, Consistent
  <2> QED BY <2>2, <2>3 DEF FitsBeginning, p, d
<1> QED BY <1>1, InitTypes, NextTypes, PTL DEF Spec, OffPathOnlyWhenDry

----------------------------------------------------------------------------
(* The spread.                                                             *)

\* A dish that nobody got lately was used no more often than any other, if no
\* row came since the look.
LEMMA UnusedIsLeast ==
  ASSUME recommendation \in Seq(Recommendation), NEW look,
         look.seen = Len(recommendation), NEW d, NEW e, d \notin Busy(look)
  PROVE  Used(d, look.at) <= Used(e, look.at)
<1>1. \A i \in Since(look.at) : i <= look.seen
  BY DEF Since
<1>2. {i \in Since(look.at) : recommendation[i].name = d} = {}
  BY <1>1 DEF Busy, Names
<1>3. Used(d, look.at) = 0
  BY <1>2, FS_EmptySet DEF Used
<1>4. Used(e, look.at) \in Nat
  BY UsedCounts
<1> QED BY <1>3, <1>4

\* A user without a row gets one of the dishes used least.
LEMMA FirstPickIsFair ==
  ASSUME recommendation \in Seq(Recommendation), NEW u \in User,
         NEW look \in Look, look.seen = Len(recommendation),
         NEW d \in Candidates(u, look), Of(u) = {}, NEW e \in For(look.path)
  PROVE  Used(d, look.at) <= Used(e, look.at)
<1> DEFINE p == look.path
<1>0. p \in Path
  BY DEF Look
<1>1. RecentDishes(u) = {}
  BY DEF RecentDishes, Names
<1>2. For(p) \ RecentDishes(u) = For(p) /\ For(p) # {}
  BY <1>1
<1> HIDE DEF p
<1>3. d \notin Busy(look) \/ \A f \in For(p) : Used(d, look.at) <= Used(f, look.at)
  BY <1>0, <1>2, CandidatesAre DEF p
<1> QED BY <1>3, UnusedIsLeast DEF p

\* If all the table is of the last half hour, it was so at the look.
LEMMA WindowAtLook ==
  ASSUME Types, InWindow = DOMAIN recommendation, NEW u \in User,
         looking[u] # NoPick
  PROVE  \A d : Used(d, looking[u].at) = Used(d, now)
<1>1. /\ looking[u].at <= now /\ looking[u].at \in Int /\ now \in Int
      /\ Window \in Int
  BY RecommendAssumption DEF Types, TypeOK, InOrder, Look
<1>2. \A i \in DOMAIN recommendation : recommendation[i].at \in Int
  <2>1. \A i \in DOMAIN recommendation : recommendation[i] \in Recommendation
    BY DEF Types, TypeOK
  <2>2. \A r \in Recommendation : r.at \in Int
    BY RecommendAssumption DEF Recommendation
  <2> QED BY <2>1, <2>2
<1>3. \A i \in DOMAIN recommendation : now - recommendation[i].at <= Window
  BY DEF InWindow, Since
<1>4. \A i \in DOMAIN recommendation :
        looking[u].at - recommendation[i].at <= Window
  BY <1>1, <1>2, <1>3
<1>5. Since(looking[u].at) = Since(now)
  BY <1>3, <1>4 DEF Since
<1> QED BY <1>5 DEF Used

\* The clock: what is in the window was in it before.
LEMMA TickKeeps ==
  ASSUME Types, Tick, InWindow' = DOMAIN recommendation'
  PROVE  InWindow = DOMAIN recommendation /\ \A d : Used(d, now)' = Used(d, now)
<1>1. recommendation' = recommendation /\ now' = now + 1 /\ now \in Int /\ Window \in Int
  BY RecommendAssumption DEF Tick, Types, TypeOK
<1>2. \A i \in DOMAIN recommendation : recommendation[i].at \in Int
  <2>1. \A i \in DOMAIN recommendation : recommendation[i] \in Recommendation
    BY DEF Types, TypeOK
  <2>2. \A r \in Recommendation : r.at \in Int
    BY RecommendAssumption DEF Recommendation
  <2> QED BY <2>1, <2>2
<1>3. \A i \in DOMAIN recommendation :
        now' - recommendation'[i].at <= Window => now - recommendation[i].at <= Window
  BY <1>1, <1>2
<1>4. \A i \in DOMAIN recommendation : now' - recommendation'[i].at <= Window
  BY <1>1 DEF InWindow, Since
<1>5. InWindow = DOMAIN recommendation
  BY <1>3, <1>4 DEF InWindow, Since
<1>6. InWindow' = InWindow
  BY <1>1, <1>5
<1>7. ASSUME NEW d PROVE Used(d, now)' = Used(d, now)
  BY <1>1, <1>6 DEF Used, InWindow
<1> QED BY <1>5, <1>7

LEMMA TickSpreads == SpreadInv /\ Tick => SpreadInv'
<1> SUFFICES ASSUME SpreadInv, Tick PROVE SpreadInv'
  OBVIOUS
<1>1. UNCHANGED <<recommendation, looking, picked, alike>>
  BY DEF Tick
<1>2. Types' /\ Types
  BY NextTypes DEF SpreadInv, Next
<1>3. InTurn' /\ Open' = Open /\ \A u : Of(u)' = Of(u)
  BY <1>1 DEF SpreadInv, InTurn, Open, Of
<1>4. InWindow' = DOMAIN recommendation' =>
        InWindow = DOMAIN recommendation /\ \A d : Used(d, now)' = Used(d, now)
  BY <1>2, TickKeeps
<1>5. FairPick'
  BY <1>1, <1>3, <1>4 DEF SpreadInv, FairPick
<1>6. EvenSpread'
  BY <1>1, <1>4 DEF SpreadInv, EvenSpread
<1> QED BY <1>2, <1>3, <1>5, <1>6 DEF SpreadInv

\* A finalize that begins leaves the table as it is.
LEMMA BeginSpreads ==
  ASSUME SpreadInv, Types', NEW u \in User, NEW path \in Path, NEW source,
         Begin(u, path, source), Open' = Open \cup {u}, u \notin Open,
         UNCHANGED <<now, recommendation>>,
         source = "local" =>
           /\ picked'[u] = NoPick
           /\ looking'[u].path = path
           /\ looking'[u].seen = Len(recommendation)
  PROVE  SpreadInv'
<1>0. NoPick # Mixed /\ NoPick \notin Path /\ Mixed \notin Path
  BY RecommendAssumption
<1>1. alike' = IF alike \in {NoPick, path} /\ Open = {} /\ source = "local"
                 THEN path ELSE Mixed
  BY DEF Begin
<1>2. alike' # NoPick
  BY <1>0, <1>1
<1>3. alike' \in Path =>
        /\ alike' = path /\ alike \in {NoPick, path}
        /\ Open' = {u} /\ source = "local"
  BY <1>0, <1>1
<1>4. InTurn'
  BY <1>2, <1>3 DEF InTurn
<1>5. InWindow' = InWindow /\ \A d : Used(d, now)' = Used(d, now)
  BY DEF InWindow, Since, Used
<1>6. FairPick'
  BY <1>3 DEF FairPick
<1>7. EvenSpread'
  <2> SUFFICES ASSUME alike' \in Path, OneEach
               PROVE  Spread(path)
    BY <1>3, <1>5 DEF EvenSpread, OneEach, Spread
  <2>1. CASE alike = NoPick
    <3>1. DOMAIN recommendation = {}
      BY <2>1 DEF SpreadInv, InTurn
    <3>2. \A d : Used(d, now) = 0
      <4> TAKE d
      <4>1. {i \in Since(now) : recommendation[i].name = d} = {}
        BY <3>1 DEF Since
      <4> QED BY <4>1, FS_EmptySet DEF Used
    <3> QED BY <3>2 DEF Spread
  <2>2. CASE alike = path
    BY <2>2 DEF SpreadInv, EvenSpread, OneEach, Spread
  <2> QED BY <1>3, <2>1, <2>2
<1> QED BY <1>4, <1>6, <1>7 DEF SpreadInv

\* The dish of the pool is one used least.
LEMMA LocalSpreads ==
  ASSUME SpreadInv, NEW u \in User, DecideLocal(u)
  PROVE  SpreadInv'
<1>0. Types
  BY DEF SpreadInv
<1>1. /\ Types' /\ Open' = Open /\ u \in Open
      /\ looking[u] \in Look /\ looking[u] # NoPick
      /\ picked'[u].path = looking[u].path
      /\ picked'[u].name \in Candidates(u, looking[u])
      /\ UNCHANGED <<now, recommendation, alike>>
  BY <1>0, LocalTypes
<1>2. looking'[u] = NoPick
  BY <1>0 DEF DecideLocal, Types, TypeOK
<1>3. alike # NoPick
  BY <1>1 DEF SpreadInv, InTurn
<1>4. alike \in Path => /\ Open = {u} /\ looking[u].path = alike
                        /\ looking[u].seen = Len(recommendation)
  BY <1>1 DEF SpreadInv, InTurn
<1>5. InTurn'
  BY <1>1, <1>2, <1>3, <1>4 DEF InTurn
<1>6. /\ InWindow' = InWindow
      /\ \A d : Used(d, now)' = Used(d, now)
      /\ \A v \in User : Of(v)' = Of(v)
  BY <1>1 DEF InWindow, Since, Used, Of
<1>7. FairPick'
  <2> DEFINE dish == picked'[u].name
  <2> SUFFICES ASSUME alike \in Path, InWindow = DOMAIN recommendation,
                      Of(u) = {}, NEW e \in For(alike)
               PROVE  Used(dish, now) <= Used(e, now)
    BY <1>1, <1>4, <1>6 DEF FairPick, For, Top, Fitting
  <2> HIDE DEF dish
  <2>1. Used(dish, looking[u].at) <= Used(e, looking[u].at)
    BY <1>0, <1>1, <1>4, FirstPickIsFair DEF dish, Types, TypeOK
  <2> QED BY <1>0, <1>1, <2>1, WindowAtLook
<1>8. EvenSpread'
  BY <1>1, <1>6 DEF SpreadInv, EvenSpread
<1> QED BY <1>1, <1>5, <1>7, <1>8 DEF SpreadInv

\* The row goes to a dish used least.
LEMMA CommitSpreads ==
  ASSUME SpreadInv, NEW u \in User, Commit(u)
  PROVE  SpreadInv'
<1>0. Types /\ NoPick \notin Path
  BY RecommendAssumption DEF SpreadInv
<1>1. /\ Types' /\ u \in Open /\ Open' = Open \ {u}
      /\ picked[u] \in Pick /\ picked[u] # NoPick
      /\ UNCHANGED <<now, looking, alike>>
      /\ \A v \in User \ {u} : picked'[v] = picked[v]
  BY <1>0, CommitTypes
<1>2. PICK len \in Nat :
        /\ DOMAIN recommendation = 1 .. len
        /\ DOMAIN recommendation' = 1 .. len + 1
        /\ recommendation'[len + 1] =
             [user |-> u, name |-> picked[u].name, at |-> now]
        /\ \A i \in 1 .. len : recommendation'[i] = recommendation[i]
  BY <1>0, CommitTypes
<1>3. alike # NoPick
  BY <1>1 DEF SpreadInv, InTurn
<1>4. alike \in Path => Open' = {} /\ Open = {u} /\ picked[u].path = alike
  BY <1>1 DEF SpreadInv, InTurn
<1>5. InTurn'
  BY <1>1, <1>3, <1>4 DEF InTurn
<1>6. FairPick'
  BY <1>1, <1>4 DEF FairPick
<1>7. EvenSpread'
  <2> SUFFICES ASSUME alike \in Path, OneEach' PROVE Spread(alike)'
    BY <1>1 DEF EvenSpread, OneEach, Spread
  <2> DEFINE dish == picked[u].name
  <2>1. InWindow' = InWindow \cup {len + 1} /\ InWindow = 1 .. len
        /\ len + 1 \notin 1 .. len
    <3>1. \A i \in 1 .. len : i \in InWindow' => i \in InWindow
      BY <1>1, <1>2 DEF InWindow, Since
    <3>2. InWindow' = 1 .. len + 1
      BY <1>2 DEF OneEach
    <3>3. InWindow \subseteq 1 .. len
      BY <1>2 DEF InWindow, Since
    <3>4. 1 .. len + 1 = (1 .. len) \cup {len + 1} /\ len + 1 \notin 1 .. len
      OBVIOUS
    <3>5. InWindow = 1 .. len
      BY <3>1, <3>2, <3>3, <3>4
    <3> QED BY <3>2, <3>4, <3>5
  <2>2. Of(u) = {} /\ OneEach
    <3>1. \A i, k \in 1 .. len + 1 :
            recommendation'[i].user = recommendation'[k].user => i = k
      BY <1>2 DEF OneEach
    <3>2. \A i \in 1 .. len : i \in 1 .. len + 1 /\ i # len + 1
      OBVIOUS
    <3>3. len + 1 \in 1 .. len + 1 /\ recommendation'[len + 1].user = u
      BY <1>2
    <3>4. Of(u) = {}
      BY <1>2, <3>1, <3>2, <3>3 DEF Of
    <3> QED BY <1>2, <2>1, <3>1, <3>2, <3>4 DEF OneEach
  <2>3. \A e \in For(alike) : Used(dish, now) <= Used(e, now)
    BY <1>1, <2>2 DEF SpreadInv, FairPick, OneEach
  <2>4. Spread(alike)
    BY <2>2 DEF SpreadInv, EvenSpread, OneEach, Spread
  <2>5. ASSUME NEW d
        PROVE  /\ Used(d, now) \in Nat
               /\ Used(d, now)' = IF d = dish THEN Used(d, now) + 1
                                  ELSE Used(d, now)
    <3> DEFINE rows == {i \in InWindow : recommendation[i].name = d}
               after == {i \in InWindow' : recommendation'[i].name = d}
    <3>1. after = IF d = dish THEN rows \cup {len + 1} ELSE rows
      <4>1. recommendation'[len + 1].name = dish
        BY <1>2
      <4> QED BY <1>2, <2>1, <4>1
    <3>2. len + 1 \notin rows /\ rows \in SUBSET (1 .. len)
      BY <2>1
    <3>3. IsFiniteSet(rows)
      BY <3>2, FS_Interval, FS_Subset
    <3>4. Cardinality(rows \cup {len + 1}) = Cardinality(rows) + 1
      <4> HIDE DEF rows
      <4> QED BY <3>2, <3>3, FS_AddElement
    <3>5. Used(d, now) = Cardinality(rows) /\ Used(d, now)' = Cardinality(after)
      BY DEF Used, InWindow
    <3>6. Used(d, now) \in Nat
      BY <1>0, UsedCounts DEF Types, TypeOK
    <3> HIDE DEF rows, after
    <3> QED BY <3>1, <3>4, <3>5, <3>6
  <2>6. ASSUME NEW d \in For(alike), NEW e \in For(alike)
        PROVE  Used(d, now)' <= Used(e, now)' + 1
    <3>1. Used(dish, now) <= Used(e, now) /\ Used(d, now) <= Used(e, now) + 1
      BY <2>3, <2>4 DEF Spread
    <3>2. CASE d = dish
      BY <2>5, <3>1, <3>2
    <3>3. CASE d # dish
      BY <2>5, <3>1, <3>3
    <3> QED BY <3>2, <3>3
  <2> QED BY <1>1, <2>6 DEF Spread, For, Top, Fitting
<1> QED BY <1>1, <1>5, <1>6, <1>7 DEF SpreadInv

LEMMA InitSpreads == Init => SpreadInv
<1> SUFFICES ASSUME Init PROVE SpreadInv
  OBVIOUS
<1>1. alike = NoPick /\ alike \notin Path /\ recommendation = << >> /\ Open = {}
  BY RecommendAssumption DEF Init, Open
<1> QED BY <1>1, InitTypes DEF SpreadInv, InTurn, FairPick, EvenSpread

LEMMA NextSpreads == SpreadInv /\ [Next]_vars => SpreadInv'
<1> SUFFICES ASSUME SpreadInv, [Next]_vars PROVE SpreadInv'
  OBVIOUS
<1>0. Types
  BY DEF SpreadInv
<1>1. ASSUME NEW u \in User, NEW path \in Path,
             LookLocal(u, path) \/ DecideLlm(u, path)
      PROVE  SpreadInv'
  <2>1. CASE LookLocal(u, path)
    <3>1. /\ Types' /\ Open' = Open \cup {u} /\ u \notin Open
          /\ looking'[u] = [path |-> path, at |-> now,
                            seen |-> Len(recommendation)]
          /\ UNCHANGED <<now, recommendation, picked>>
      BY <1>0, <2>1, LookTypes
    <3>2. Begin(u, path, "local") /\ picked[u] = NoPick
      BY <2>1, <3>1 DEF LookLocal, Open
    <3> QED BY <3>1, <3>2, BeginSpreads
  <2>2. CASE DecideLlm(u, path)
    <3>1. /\ Types' /\ Open' = Open \cup {u} /\ u \notin Open
          /\ UNCHANGED <<now, recommendation>>
      BY <1>0, <2>2, LlmTypes
    <3>2. Begin(u, path, "llm") /\ "llm" # "local"
      BY <2>2 DEF DecideLlm
    <3> QED BY <3>1, <3>2, BeginSpreads
  <2> QED BY <1>1, <2>1, <2>2
<1>2. ASSUME NEW u \in User, DecideLocal(u) PROVE SpreadInv'
  BY <1>2, LocalSpreads
<1>3. ASSUME NEW u \in User, Commit(u) PROVE SpreadInv'
  BY <1>3, CommitSpreads
<1>4. CASE Tick
  BY <1>4, TickSpreads
<1>5. CASE UNCHANGED vars
  <2>1. UNCHANGED <<now, recommendation, looking, picked, alike>>
    BY <1>5 DEF vars
  <2>2. Open' = Open /\ InWindow' = InWindow /\ \A u : Of(u)' = Of(u)
    BY <2>1 DEF Open, InWindow, Since, Of
  <2>3. \A d : Used(d, now)' = Used(d, now)
    BY <2>1, <2>2 DEF Used, InWindow
  <2>4. Types'
    BY <1>0, NextTypes
  <2> QED BY <2>1, <2>2, <2>3, <2>4
          DEF SpreadInv, InTurn, FairPick, EvenSpread
<1> QED BY <1>1, <1>2, <1>3, <1>4, <1>5 DEF Next

\* While users give the same answers one after the other and each gets one
\* dish, the counts of two dishes for the answers differ by one at most,
\* however many users and dishes there are.
THEOREM SpreadIsEven == Spec => []EvenSpread
<1>1. SpreadInv => EvenSpread
  BY DEF SpreadInv
<1> QED BY <1>1, InitSpreads, NextSpreads, PTL DEF Spec
=============================================================================
