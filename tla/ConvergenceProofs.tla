------------------------- MODULE ConvergenceProofs -------------------------
(***************************************************************************)
(* Theorems about Convergence, for every tree, bank and set of tastes.     *)
(***************************************************************************)
EXTENDS Convergence, FiniteSetTheorems, WellFoundedInduction, TLAPS

----------------------------------------------------------------------------
(* Folding the log.                                                        *)

\* A set of naturals that is not empty has a least member.
LEMMA LeastNat ==
  ASSUME NEW T \in SUBSET Nat, T # {}
  PROVE  \E n \in T : \A m \in T : n <= m
<1>1. PICK n \in T : \A m \in T : ~ (<<m, n>> \in OpToRel(<, Nat))
  BY NatLessThanWellFounded, WFMin, Zenon
<1>2. \A m \in T : ~(m < n)
  BY <1>1 DEF OpToRel
<1> QED BY <1>2

Empty == [chain |-> <<>>, ortho |-> {}]

\* f has the states of the first n entries.
Folds(f, entries, n) ==
  f = [i \in 0 .. n |-> IF i = 0 THEN Empty ELSE Absorb(f[i - 1], entries[i])]

LEMMA FoldExists ==
  ASSUME NEW entries, NEW n \in Nat
  PROVE  \E f : Folds(f, entries, n)
<1> DEFINE Bad == {m \in Nat : ~ \E f : Folds(f, entries, m)}
<1> SUFFICES ASSUME Bad # {} PROVE FALSE
  OBVIOUS
<1>1. PICK m \in Bad : \A k \in Bad : m <= k
  <2> HIDE DEF Bad
  <2>1. Bad \in SUBSET Nat BY DEF Bad
  <2> QED BY <2>1, LeastNat
<1>2. CASE m = 0
  <2> DEFINE f == [i \in 0 .. 0 |-> Empty]
  <2>1. Folds(f, entries, 0)
    BY DEF Folds
  <2> QED BY <2>1, <1>2
<1>3. CASE m # 0
  <2>1. m - 1 \in Nat /\ m - 1 \notin Bad
    BY <1>1, <1>3
  <2>2. PICK f : Folds(f, entries, m - 1)
    BY <2>1
  <2> DEFINE g == [i \in 0 .. m |->
                     IF i = m THEN Absorb(f[m - 1], entries[m]) ELSE f[i]]
  <2>3. \A i \in 0 .. m - 1 : g[i] = f[i]
    BY <2>1
  <2>4. \A i \in 0 .. m - 1 :
          f[i] = IF i = 0 THEN Empty ELSE Absorb(f[i - 1], entries[i])
    BY <2>2 DEF Folds
  <2>5. \A i \in 0 .. m :
          g[i] = IF i = 0 THEN Empty ELSE Absorb(g[i - 1], entries[i])
    <3> TAKE i \in 0 .. m
    <3>1. CASE i = m
      BY <3>1, <2>3, <1>3, <2>1
    <3>2. CASE i # m
      <4>1. i \in 0 .. m - 1 /\ (i # 0 => i - 1 \in 0 .. m - 1)
        BY <3>2, <2>1
      <4> HIDE DEF g
      <4> QED BY <4>1, <2>3, <2>4
    <3> QED BY <3>1, <3>2
  <2>6. Folds(g, entries, m)
    BY <2>5 DEF Folds
  <2> QED BY <2>6
<1> QED BY <1>2, <1>3

\* Two folds of logs that agree on their first n entries agree there.
LEMMA FoldsAgree ==
  ASSUME NEW e1, NEW e2, NEW n1 \in Nat, NEW n2 \in Nat, NEW f, NEW g,
         Folds(f, e1, n1), Folds(g, e2, n2), n1 <= n2,
         \A i \in 1 .. n1 : e1[i] = e2[i]
  PROVE  \A i \in 0 .. n1 : f[i] = g[i]
<1> DEFINE Bad == {i \in 0 .. n1 : f[i] # g[i]}
<1> SUFFICES ASSUME Bad # {} PROVE FALSE
  OBVIOUS
<1>1. PICK m \in Bad : \A k \in Bad : m <= k
  <2> HIDE DEF Bad
  <2>1. Bad \in SUBSET Nat BY DEF Bad
  <2> QED BY <2>1, LeastNat
<1>2. f[m] = IF m = 0 THEN Empty ELSE Absorb(f[m - 1], e1[m])
  BY <1>1 DEF Folds
<1>3. g[m] = IF m = 0 THEN Empty ELSE Absorb(g[m - 1], e2[m])
  BY <1>1 DEF Folds
<1>4. m # 0
  BY <1>1, <1>2, <1>3
<1>5. m - 1 \in 0 .. n1 /\ m - 1 \notin Bad
  BY <1>1, <1>4
<1>6. f[m - 1] = g[m - 1] /\ e1[m] = e2[m]
  BY <1>1, <1>4, <1>5
<1> QED BY <1>1, <1>2, <1>3, <1>4, <1>6

\* The state of a log is that of any fold of it.
LEMMA StateOfFold ==
  ASSUME NEW entries, Len(entries) \in Nat
  PROVE  \E f : Folds(f, entries, Len(entries)) /\ BuildState(entries) = f[Len(entries)]
<1> DEFINE g == CHOOSE f : Folds(f, entries, Len(entries))
<1>1. Folds(g, entries, Len(entries))
  BY FoldExists
<1>2. BuildState(entries) = g[Len(entries)]
  BY DEF BuildState, Folds, Empty
<1> QED BY <1>1, <1>2

LEMMA BuildEmpty == BuildState(<<>>) = Empty
<1>1. PICK f : Folds(f, <<>>, 0) /\ BuildState(<<>>) = f[0]
  BY StateOfFold
<1> QED BY <1>1 DEF Folds

\* The engine reads one more entry.
LEMMA BuildAppend ==
  ASSUME NEW S, NEW entries \in Seq(S), NEW e \in S
  PROVE  BuildState(Append(entries, e)) = Absorb(BuildState(entries), e)
<1> DEFINE n == Len(entries)
           more == Append(entries, e)
<1>1. n \in Nat /\ Len(more) = n + 1 /\ more[n + 1] = e
      /\ \A i \in 1 .. n : entries[i] = more[i]
  OBVIOUS
<1>2. PICK f : Folds(f, entries, n) /\ BuildState(entries) = f[n]
  BY <1>1, StateOfFold
<1> HIDE DEF n, more
<1>3. PICK g : Folds(g, more, n + 1) /\ BuildState(more) = g[n + 1]
  <2>1. Len(more) \in Nat
    BY <1>1
  <2>2. \E g : Folds(g, more, Len(more)) /\ BuildState(more) = g[Len(more)]
    BY <2>1, StateOfFold, Zenon
  <2> QED BY <1>1, <2>2
<1>4. g[n] = f[n]
  BY <1>1, <1>2, <1>3, FoldsAgree
<1>5. g[n + 1] = Absorb(g[n], more[n + 1])
  BY <1>1, <1>3 DEF Folds
<1>6. BuildState(more) = Absorb(BuildState(entries), e)
  BY <1>1, <1>2, <1>3, <1>4, <1>5
<1> QED BY <1>6 DEF more

----------------------------------------------------------------------------
(* The bank's choice.                                                      *)

\* A finite set of numbers has a k-th member for every k below its size: the
\* numbers of members before each of them are all different.
LEMMA NthMember ==
  ASSUME NEW S \in SUBSET Nat, IsFiniteSet(S), NEW k \in 0 .. Cardinality(S) - 1
  PROVE  /\ Nth(S, k) \in S
         /\ Cardinality({j \in S : j < Nth(S, k)}) = k
<1> DEFINE before(i) == {j \in S : j < i}
           size == Cardinality(S)
           rank == [i \in S |-> Cardinality(before(i))]
<1>1. size \in Nat
  BY FS_CardinalityType
<1>2. \A i \in S : IsFiniteSet(before(i)) /\ rank[i] \in 0 .. size - 1
  <2> SUFFICES ASSUME NEW i \in S
               PROVE  IsFiniteSet(before(i)) /\ Cardinality(before(i)) \in 0 .. size - 1
    OBVIOUS
  <2>1. before(i) \in SUBSET S /\ before(i) # S
    <3>1. ~(i < i)
      OBVIOUS
    <3>2. i \notin before(i)
      BY <3>1
    <3> QED BY <3>2
  <2> HIDE DEF before
  <2>2. /\ IsFiniteSet(before(i)) /\ Cardinality(before(i)) <= size
        /\ size = Cardinality(before(i)) => S = before(i)
    BY <2>1, FS_Subset, Zenon DEF size
  <2>3. Cardinality(before(i)) \in Nat
    BY <2>2, FS_CardinalityType
  <2>4. Cardinality(before(i)) # size
    BY <2>1, <2>2, Zenon
  <2>5. Cardinality(before(i)) \in 0 .. size - 1
    <3> HIDE DEF size
    <3> QED BY <1>1, <2>2, <2>3, <2>4
  <2> QED BY <2>2, <2>5
<1>3. \A i, j \in S : i < j => rank[i] < rank[j]
  <2> SUFFICES ASSUME NEW i \in S, NEW j \in S, i < j
               PROVE  Cardinality(before(i)) < Cardinality(before(j))
    OBVIOUS
  <2>1. before(i) \in SUBSET before(j) /\ i \in before(j) /\ i \notin before(i)
    <3>1. \A m \in S : m \in Nat
      OBVIOUS
    <3>2. ~(i < i) /\ \A m \in S : m < i => m < j
      BY <3>1
    <3> QED BY <3>2
  <2>2. IsFiniteSet(before(j)) /\ IsFiniteSet(before(i))
    BY <1>2
  <2> HIDE DEF before
  <2>3. /\ Cardinality(before(i)) <= Cardinality(before(j))
        /\ Cardinality(before(j)) = Cardinality(before(i))
             => before(j) = before(i)
    BY <2>1, <2>2, FS_Subset, Zenon
  <2>4. Cardinality(before(i)) \in Nat /\ Cardinality(before(j)) \in Nat
    BY <2>2, FS_CardinalityType
  <2> QED BY <2>1, <2>3, <2>4
<1>4. rank \in Injection(S, 0 .. size - 1)
  <2>1. rank \in [S -> 0 .. size - 1]
    BY <1>2
  <2>2. \A i, j \in S : rank[i] = rank[j] => i = j
    <3> SUFFICES ASSUME NEW i \in S, NEW j \in S, rank[i] = rank[j]
                 PROVE  i = j
      OBVIOUS
    <3>1. rank[i] \in Nat /\ rank[j] \in Nat
      BY <1>1, <1>2
    <3>2. i \in Nat /\ j \in Nat
      OBVIOUS
    <3>3. ~(i < j) /\ ~(j < i)
      BY <1>3, <3>1
    <3> QED BY <3>2, <3>3
  <2>3. DOMAIN rank = S
    OBVIOUS
  <2> HIDE DEF rank
  <2> QED BY <2>1, <2>2, <2>3 DEF Injection, IsInjective
<1>5. IsFiniteSet(0 .. size - 1) /\ Cardinality(0 .. size - 1) = size
  BY <1>1, FS_Interval
<1>6. rank \in Surjection(S, 0 .. size - 1)
  <2> HIDE DEF rank
  <2> QED BY <1>4, <1>5, FS_Injection DEF size
<1>7. PICK i \in S : rank[i] = k
  <2> HIDE DEF rank
  <2> QED BY <1>6 DEF Surjection, size
<1>8. Cardinality({j \in S : j < i}) = k
  BY <1>7, Zenon DEF rank, before
<1> QED BY <1>8, Zenon DEF Nth

----------------------------------------------------------------------------
(* The tree and the state.                                                 *)

\* The level of a node; its children are one level below it.
Depth ==
  CHOOSE depth \in [Node -> 0 .. 3] :
    /\ depth[Form] = 0
    /\ \A n \in Node : \A m \in Children(n) : depth[m] = depth[n] + 1

LEMMA Levels ==
  /\ Depth \in [Node -> 0 .. 3]
  /\ Depth[Form] = 0
  /\ \A n \in Node : \A m \in Children(n) :
       m \in Node /\ Depth[m] = Depth[n] + 1
<1>1. /\ Depth \in [Node -> 0 .. 3]
      /\ Depth[Form] = 0
      /\ \A n \in Node : \A m \in Children(n) : Depth[m] = Depth[n] + 1
  BY TreeAssumption, Zenon DEF Depth
<1>2. \A n \in Node : \A m \in Children(n) : m \in Node
  BY TreeAssumption DEF Children
<1> QED BY <1>1, <1>2

LEMMA SubtreeHas ==
  ASSUME NEW n \in Node
  PROVE  \A m \in Children(n) :
           /\ m \in Subtree(n)
           /\ Children(m) \subseteq Subtree(n)
<1>1. Below({n}) = Children(n)
  BY DEF Below
<1>2. \A m \in Children(n) : Children(m) \subseteq Below(Children(n))
  BY DEF Below
<1> QED BY <1>1, <1>2 DEF Subtree

\* m lies under n, and deeper.
Beyond(n, m) == n \in Subtree(m) /\ Depth[n] > Depth[m]

LEMMA ChildIsBeyond ==
  ASSUME NEW n \in Node, NEW m \in Children(n)
  PROVE  m \in Node /\ Beyond(m, n)
BY Levels, SubtreeHas DEF Beyond

LEMMA GrandchildIsBeyond ==
  ASSUME NEW n \in Node, NEW m \in Children(n), NEW k \in Children(m)
  PROVE  k \in Node /\ Beyond(k, n)
<1>1. m \in Node /\ k \in Node /\ k \in Subtree(n)
  BY Levels, SubtreeHas
<1>2. Depth[m] = Depth[n] + 1 /\ Depth[k] = Depth[m] + 1 /\ Depth[n] \in 0 .. 3
  BY <1>1, Levels
<1> QED BY <1>1, <1>2 DEF Beyond

States == [chain : Seq(Node), ortho : SUBSET Ortho]

\* The chain of a state goes down, its last node is the deepest.
Descends(chain) ==
  /\ \A i \in 1 .. Len(chain) - 1 :
       chain[i + 1] \in Subtree(chain[i]) \ {chain[i]}
  /\ \A i \in DOMAIN chain : Depth[chain[i]] <= Depth[Tip(chain)]

LEMMA TipIsNode ==
  ASSUME NEW chain \in Seq(Node), chain # <<>>
  PROVE  Tip(chain) \in Node /\ Tip(chain) \in Range(chain)
BY DEF Tip, Range

\* What an entry with a taste does to the state.
LEMMA AbsorbTaste ==
  ASSUME NEW s \in States, NEW e \in Entry, e.dim \notin Node
  PROVE  /\ Absorb(s, e) \in States
         /\ Absorb(s, e).chain = s.chain
         /\ Absorb(s, e).ortho = s.ortho \cup e.locks
<1>1. e.locks \in SUBSET Ortho
  BY DEF Entry
<1>2. Absorb(s, e) = [s EXCEPT !.ortho = @ \cup e.locks]
  BY DEF Absorb
<1> QED BY <1>1, <1>2 DEF States

\* What an entry with a node at or beyond the end of the chain does.
LEMMA AbsorbNode ==
  ASSUME NEW s \in States, NEW e \in Entry, e.dim \in Node, Descends(s.chain),
         s.chain = <<>> \/ Beyond(e.dim, Tip(s.chain))
  PROVE  /\ Absorb(s, e) \in States
         /\ Absorb(s, e).chain = Append(s.chain, e.dim)
         /\ Absorb(s, e).ortho = s.ortho
<1>1. s.chain \in Seq(Node)
  BY DEF States
<1>2. SameBranch(s.chain, e.dim)
  BY DEF SameBranch, Beyond
<1>3. e.dim \notin Range(s.chain)
  <2>1. CASE s.chain = <<>>
    BY <2>1 DEF Range
  <2>2. CASE s.chain # <<>>
    <3> SUFFICES ASSUME NEW i \in DOMAIN s.chain, s.chain[i] = e.dim
                 PROVE  FALSE
      BY DEF Range
    <3>1. Depth[e.dim] <= Depth[Tip(s.chain)]
      BY DEF Descends
    <3>2. Depth[e.dim] > Depth[Tip(s.chain)]
      BY <2>2 DEF Beyond
    <3>3. Depth[e.dim] \in 0 .. 3 /\ Depth[Tip(s.chain)] \in 0 .. 3
      BY <1>1, <2>2, TipIsNode, Levels
    <3> QED BY <3>1, <3>2, <3>3
  <2> QED BY <2>1, <2>2
<1>4. Absorb(s, e) = [s EXCEPT !.chain = Append(@, e.dim)]
  BY <1>2, <1>3 DEF Absorb
<1>5. Append(s.chain, e.dim) \in Seq(Node)
  BY <1>1
<1> QED BY <1>4, <1>5 DEF States

LEMMA DescendsOn ==
  ASSUME NEW chain \in Seq(Node), NEW n \in Node, Descends(chain),
         chain = <<>> \/ Beyond(n, Tip(chain))
  PROVE  Descends(Append(chain, n)) /\ Range(Append(chain, n)) = Range(chain) \cup {n}
<1> DEFINE more == Append(chain, n)
           len == Len(chain)
<1>1. /\ len \in Nat /\ Len(more) = len + 1 /\ Len(chain) = len
      /\ DOMAIN more = 1 .. len + 1 /\ DOMAIN chain = 1 .. len
      /\ more[len + 1] = n
      /\ \A i \in 1 .. len : more[i] = chain[i] /\ chain[i] \in Node
  OBVIOUS
<1> HIDE DEF more
<1>2. Tip(more) = n
  BY <1>1 DEF Tip
<1>3. len # 0 => Tip(chain) = chain[len] /\ Tip(chain) \in Node /\ Beyond(n, chain[len])
  BY <1>1 DEF Tip
<1> HIDE DEF len
<1>4. \A i \in 1 .. Len(more) - 1 : more[i + 1] \in Subtree(more[i]) \ {more[i]}
  <2> SUFFICES ASSUME NEW i \in 1 .. len
               PROVE  more[i + 1] \in Subtree(more[i]) \ {more[i]}
    BY <1>1
  <2>1. CASE i = len
    <3>1. Beyond(n, chain[len]) /\ more[i + 1] = n /\ more[i] = chain[len] /\ chain[len] \in Node
      BY <2>1, <1>1, <1>3
    <3>2. n # chain[len]
      BY <3>1, Levels DEF Beyond
    <3> QED BY <3>1, <3>2 DEF Beyond
  <2>2. CASE i # len
    <3>1. i \in 1 .. Len(chain) - 1 /\ i + 1 \in 1 .. len
      BY <2>2, <1>1
    <3>2. more[i] = chain[i] /\ more[i + 1] = chain[i + 1]
      BY <3>1, <1>1
    <3> QED BY <3>1, <3>2 DEF Descends
  <2> QED BY <2>1, <2>2
<1>5. \A i \in DOMAIN more : Depth[more[i]] <= Depth[Tip(more)]
  <2> SUFFICES ASSUME NEW i \in 1 .. len + 1
               PROVE  Depth[more[i]] <= Depth[n]
    BY <1>1, <1>2
  <2>1. CASE i = len + 1
    BY <2>1, <1>1, Levels
  <2>2. CASE i # len + 1
    <3>1. i \in DOMAIN chain /\ more[i] = chain[i] /\ len # 0 /\ chain[i] \in Node
      BY <2>2, <1>1
    <3>2. Depth[chain[i]] <= Depth[Tip(chain)]
      BY <3>1 DEF Descends
    <3>3. Depth[Tip(chain)] < Depth[n] /\ Tip(chain) \in Node
      BY <3>1, <1>3 DEF Beyond
    <3>4. /\ Depth[Tip(chain)] \in 0 .. 3 /\ Depth[n] \in 0 .. 3
          /\ Depth[chain[i]] \in 0 .. 3
      BY <3>1, <3>3, Levels
    <3> QED BY <3>1, <3>2, <3>3, <3>4
  <2> QED BY <2>1, <2>2
<1>6. Range(more) = Range(chain) \cup {n}
  BY <1>1 DEF Range
<1> QED BY <1>4, <1>5, <1>6 DEF Descends, more

----------------------------------------------------------------------------
(* The questions.                                                          *)

LEMMA ElementOf ==
  ASSUME NEW S, NEW seq \in Seq(S), NEW i \in DOMAIN seq
  PROVE  seq[i] \in S
OBVIOUS

LEMMA BankItems ==
  ASSUME NEW i \in DOMAIN Bank
  PROVE  /\ Bank[i].dim \in Node \cup MustOrtho
         /\ Bank[i].dim \in Node => /\ Bank[i].picks # {}
                                    /\ Bank[i].picks \subseteq Main[Bank[i].dim]
         /\ Bank[i].dim \notin Node => Bank[i].picks = {}
<1>1. Bank[i] \in [dim : Node \cup MustOrtho, picks : SUBSET Node]
  BY BankAssumption, ElementOf, Zenon
<1> QED BY <1>1, BankAssumption

\* The bank always has something to ask, and asks one of the candidates.
LEMMA BankAnswers ==
  ASSUME NEW s, NEW entries \in Seq(Entry)
  PROVE  \E i \in DOMAIN Bank :
           /\ i \in Candidates(s, entries)
           /\ LocalQuestion(s, entries) = Bank[i]
<1> DEFINE cands == Candidates(s, entries)
<1>1. cands \in SUBSET DOMAIN Bank /\ cands # {}
  <2>1. {i \in DOMAIN Bank : Bank[i].dim \in MustOrtho} # {}
    BY BankAssumption
  <2>2. cands \in SUBSET DOMAIN Bank
    BY DEF Candidates, Narrow
  <2>3. cands # {}
    BY <2>1, Zenon DEF Candidates
  <2> QED BY <2>2, <2>3
<1>2. DOMAIN Bank = 1 .. Len(Bank) /\ Len(Bank) \in Nat
  BY BankAssumption
<1>3. IsFiniteSet(DOMAIN Bank)
  BY <1>2, FS_Interval
<1>4. IsFiniteSet(cands)
  <2> HIDE DEF cands
  <2> QED BY <1>1, <1>3, FS_Subset
<1>5. Cardinality(cands) \in Nat /\ Cardinality(cands) # 0
  <2> HIDE DEF cands
  <2> QED BY <1>1, <1>4, FS_CardinalityType, FS_EmptySet
<1>6. cands \in SUBSET Nat
  BY <1>1, <1>2
<1>7. Len(entries) % Cardinality(cands) \in 0 .. Cardinality(cands) - 1
  <2> HIDE DEF cands
  <2>1. Len(entries) \in Nat
    OBVIOUS
  <2> QED BY <1>5, <2>1
<1> HIDE DEF cands
<1>8. Nth(cands, Len(entries) % Cardinality(cands)) \in cands
  BY <1>4, <1>6, <1>7, NthMember
<1>9. LocalQuestion(s, entries)
        = Bank[Nth(cands, Len(entries) % Cardinality(cands))]
  BY DEF LocalQuestion, cands
<1> QED BY <1>1, <1>8, <1>9 DEF cands

\* What the bank asked and heard of is settled.
Heard(s, entries) ==
  \A i \in DOMAIN entries : entries[i].source = "local" =>
    /\ entries[i].asked \in Node =>
         /\ entries[i].dim \in Main[entries[i].asked]
         /\ entries[i].dim \in Range(s.chain)
    /\ entries[i].asked \notin Node => entries[i].asked \in s.ortho

\* A compulsory level is left.
Shallow(s) == s.chain = <<>> \/ Main[Tip(s.chain)] # {}

\* The place of a bank item that is at hand and was not asked yet; during a
\* drill it asks the chain if a compulsory level is left.
LEMMA FreshItem ==
  ASSUME NEW s \in States, NEW entries \in Seq(Entry), Descends(s.chain),
         Heard(s, entries), ~(ChainDone(s) /\ MustLocked(s))
  PROVE  \E i \in DOMAIN Bank :
           /\ Fits(Bank[i], AvailableDims(s))
           /\ \A k \in DOMAIN entries :
                entries[k].source = "local" => entries[k].asked # Bank[i].dim
           /\ Shallow(s) => Fits(Bank[i], ChainDims(s))
<1>1. s.chain \in Seq(Node)
  BY DEF States
<1>2. CASE s.chain = <<>>
  <2>1. PICK i \in DOMAIN Bank : Bank[i].dim = Form
    BY TreeAssumption, BankAssumption
  <2>2. Fits(Bank[i], ChainDims(s)) /\ Fits(Bank[i], AvailableDims(s))
    BY <1>2, <2>1 DEF Fits, ChainDims, AvailableDims
  <2>3. \A k \in DOMAIN entries :
          entries[k].source = "local" => entries[k].asked # Bank[i].dim
    BY <1>2, <2>1, TreeAssumption DEF Heard, Range
  <2> QED BY <2>2, <2>3
<1>3. CASE s.chain # <<>> /\ Main[Tip(s.chain)] # {}
  <2> DEFINE tip == Tip(s.chain)
  <2>1. tip \in Node
    BY <1>1, <1>3, TipIsNode
  <2>2. PICK i \in DOMAIN Bank : Bank[i].dim = tip
    BY <1>3, <2>1, BankAssumption
  <2>3. Bank[i].picks # {} /\ Bank[i].picks \subseteq Main[tip]
    BY <2>1, <2>2, BankItems
  <2>4. Fits(Bank[i], ChainDims(s)) /\ Fits(Bank[i], AvailableDims(s))
    BY <1>3, <2>3 DEF Fits, ChainDims, AvailableDims, Children
  <2>5. ASSUME NEW k \in DOMAIN entries, entries[k].source = "local",
               entries[k].asked = Bank[i].dim
        PROVE  FALSE
    <3>1. entries[k].dim \in Main[tip] /\ entries[k].dim \in Range(s.chain)
      BY <2>1, <2>2, <2>5 DEF Heard
    <3>2. Depth[entries[k].dim] = Depth[tip] + 1
      BY <2>1, <3>1, Levels DEF Children
    <3>3. Depth[entries[k].dim] <= Depth[tip]
      BY <3>1 DEF Descends, Range
    <3>4. Depth[tip] \in 0 .. 3
      BY <2>1, Levels
    <3> HIDE DEF tip
    <3> QED BY <3>2, <3>3, <3>4
  <2> QED BY <2>4, <2>5
<1>4. CASE s.chain # <<>> /\ Main[Tip(s.chain)] = {}
  <2>1. MustOrtho \cap s.ortho = {}
    BY <1>4 DEF ChainDone, MustLocked
  <2>2. PICK i \in DOMAIN Bank : Bank[i].dim \in MustOrtho
    BY BankAssumption
  <2>3. Fits(Bank[i], AvailableDims(s))
    BY <2>1, <2>2, OrthoAssumption DEF Fits, AvailableDims
  <2>4. \A k \in DOMAIN entries :
          entries[k].source = "local" => entries[k].asked # Bank[i].dim
    BY <2>1, <2>2, OrthoAssumption DEF Heard
  <2> QED BY <1>4, <2>3, <2>4 DEF Shallow
<1> QED BY <1>2, <1>3, <1>4

\* At a leaf there is nothing to drill: no item of the bank fits.
LEMMA LeavesAreNotDrilled ==
  ASSUME NEW s \in States, ~Shallow(s), NEW i \in DOMAIN Bank
  PROVE  ~Fits(Bank[i], ChainDims(s))
<1> DEFINE tip == Tip(s.chain)
<1>1. s.chain # <<>> /\ Main[tip] = {} /\ tip \in Node
  BY TipIsNode DEF Shallow, States
<1>2. ChainDims(s) = Fine[tip]
  BY <1>1 DEF ChainDims, Children
<1>3. Bank[i].dim \notin Fine[tip]
  <2> SUFFICES ASSUME Bank[i].dim \in Fine[tip] PROVE FALSE
    OBVIOUS
  <2>1. Bank[i].dim \in Node /\ Main[Bank[i].dim] = {}
    BY <1>1, TreeAssumption
  <2> QED BY <2>1, BankItems
<1>4. Bank[i].picks \cap Fine[tip] = {}
  <2> SUFFICES ASSUME NEW p \in Bank[i].picks, p \in Fine[tip] PROVE FALSE
    OBVIOUS
  <2>1. Bank[i].dim \in Node /\ p \in Main[Bank[i].dim]
    BY BankItems
  <2>2. p \in Children(Bank[i].dim) \cap Children(tip)
    BY <2>1 DEF Children
  <2>3. Bank[i].dim = tip
    BY <1>1, <2>1, <2>2, TreeAssumption
  <2> QED BY <1>1, <2>1, <2>3
<1> QED BY <1>2, <1>3, <1>4 DEF Fits

\* No filter of the local bank gives way where it matters: its last resort is
\* out of reach, and so is a question it asked before.
LEMMA FiltersHold ==
  ASSUME NEW s \in States, NEW entries \in Seq(Entry), Descends(s.chain),
         Heard(s, entries), ~(ChainDone(s) /\ MustLocked(s)),
         NEW i \in Candidates(s, entries)
  PROVE  /\ i \in DOMAIN Bank
         /\ Fits(Bank[i], AvailableDims(s))
         /\ \A k \in DOMAIN entries :
              entries[k].source = "local" => entries[k].asked # Bank[i].dim
         /\ Shallow(s) /\ ChainOnly(s, entries) => Fits(Bank[i], ChainDims(s))
<1> DEFINE dims == AvailableDims(s)
           available == {j \in DOMAIN Bank : dims = {} \/ Fits(Bank[j], dims)}
           drilling == {j \in DOMAIN Bank : \/ ~ChainOnly(s, entries)
                                            \/ Fits(Bank[j], ChainDims(s))}
           fresh == {j \in DOMAIN Bank :
                       \A k \in DOMAIN entries : entries[k].source = "local" =>
                         entries[k].asked # Bank[j].dim}
           drilled == Narrow(available, drilling)
<1>1. PICK g \in DOMAIN Bank :
        /\ Fits(Bank[g], AvailableDims(s))
        /\ \A k \in DOMAIN entries :
             entries[k].source = "local" => entries[k].asked # Bank[g].dim
        /\ Shallow(s) => Fits(Bank[g], ChainDims(s))
  BY FreshItem
<1>2. dims # {}
  BY <1>1 DEF Fits
<1>3. g \in available /\ g \in fresh
  BY <1>1
<1>4. Shallow(s) => g \in drilling
  BY <1>1
<1>5. g \in drilled /\ drilled \subseteq available
      /\ (Shallow(s) => drilled \subseteq drilling)
  <2>1. CASE Shallow(s) \/ ~ChainOnly(s, entries)
    <3>1. g \in drilling
      BY <1>1, <2>1
    <3> QED BY <1>3, <3>1 DEF Narrow
  <2>2. CASE ~Shallow(s) /\ ChainOnly(s, entries)
    <3>1. drilling = {}
      BY <2>2, LeavesAreNotDrilled
    <3> QED BY <1>3, <2>2, <3>1 DEF Narrow
  <2> QED BY <2>1, <2>2
<1>6. Candidates(s, entries) =
        IF Narrow(drilled, fresh) = {}
        THEN {j \in DOMAIN Bank : Bank[j].dim \in MustOrtho}
        ELSE Narrow(drilled, fresh)
  BY Zenon DEF Candidates
<1> HIDE DEF drilled, fresh
<1>7. Narrow(drilled, fresh) = drilled \cap fresh /\ drilled \cap fresh # {}
  BY <1>3, <1>5 DEF Narrow
<1>8. i \in drilled /\ i \in fresh
  BY <1>6, <1>7
<1>9. i \in DOMAIN Bank /\ Fits(Bank[i], dims)
  BY <1>2, <1>5, <1>8
<1>10. \A k \in DOMAIN entries :
         entries[k].source = "local" => entries[k].asked # Bank[i].dim
  BY <1>8 DEF fresh
<1>11. Shallow(s) /\ ChainOnly(s, entries) => Fits(Bank[i], ChainDims(s))
  BY <1>5, <1>8
<1> QED BY <1>9, <1>10, <1>11

\* A bank item that fits asks a taste that is open, a node below the end of
\* the chain, or the end itself.
LEMMA FittingItem ==
  ASSUME NEW s \in States, NEW i \in DOMAIN Bank, Fits(Bank[i], AvailableDims(s))
  PROVE  /\ Bank[i].dim \notin s.ortho
         /\ Bank[i].dim \in Node =>
              \/ Bank[i].dim \in ChainDims(s)
              \/ s.chain # <<>> /\ Bank[i].dim = Tip(s.chain)
<1> DEFINE b == Bank[i]
<1>1. ChainDims(s) \subseteq Node
  BY TreeAssumption, TipIsNode, Levels DEF ChainDims, States
<1>2. s.ortho \subseteq Ortho
  BY DEF States
<1>3. CASE b.dim \notin Node
  <2>1. b.dim \in AvailableDims(s)
    BY <1>3, BankItems DEF Fits
  <2> QED BY <1>1, <1>3, <2>1 DEF AvailableDims
<1>4. CASE b.dim \in Node /\ b.dim \notin AvailableDims(s)
  <2>1. PICK p \in b.picks : p \in AvailableDims(s)
    BY <1>4 DEF Fits
  <2>2. p \in Main[b.dim] /\ p \in Children(b.dim) /\ p \in Node
    BY <1>4, <2>1, BankItems, Levels DEF Children
  <2>3. p \in ChainDims(s)
    BY <2>1, <2>2, OrthoAssumption DEF AvailableDims
  <2>4. p # Form
    <3>1. Depth[p] = Depth[b.dim] + 1 /\ Depth[b.dim] \in 0 .. 3
      BY <1>4, <2>2, Levels
    <3> HIDE DEF b
    <3> QED BY <3>1, Levels
  <2>5. s.chain # <<>> /\ p \in Children(Tip(s.chain)) /\ Tip(s.chain) \in Node
    BY <2>3, <2>4, TipIsNode DEF ChainDims, States
  <2>6. b.dim = Tip(s.chain)
    BY <1>4, <2>2, <2>5, TreeAssumption
  <2> QED BY <1>2, <1>4, <2>5, <2>6, OrthoAssumption
<1>5. CASE b.dim \in Node /\ b.dim \in AvailableDims(s)
  BY <1>2, <1>5, OrthoAssumption DEF AvailableDims
<1> QED BY <1>3, <1>4, <1>5

----------------------------------------------------------------------------
(* The answers.                                                            *)

LEMMA LlmWrites ==
  ASSUME NEW d \in Node \cup Ortho, NEW x \in LlmEntries(d)
  PROVE  /\ x.dim \in Node \cup Ortho \cup {OtherName}
         /\ x.locks \in SUBSET Ortho
         /\ d # Form => x.dim = d
<1>1. \A n \in Node : Sunk(n) \subseteq Node
  BY TreeAssumption DEF Sunk
<1>2. CASE d = Form
  <2>1. d \notin Ortho
    BY <1>2, TreeAssumption, OrthoAssumption
  <2>2. x \in {Locking(n) : n \in UNION {Sunk(m) : m \in Node}}
             \cup {Hitting(y, S) : y \in Ortho \cup {OtherName}, S \in Hits}
    BY <1>2 DEF LlmEntries
  <2>3. CASE x \in {Locking(n) : n \in UNION {Sunk(m) : m \in Node}}
    BY <1>1, <1>2, <2>3 DEF Locking
  <2>4. CASE x \in {Hitting(y, S) : y \in Ortho \cup {OtherName}, S \in Hits}
    <3>1. PICK y \in Ortho \cup {OtherName}, S \in Hits : x = Hitting(y, S)
      BY <2>4
    <3>2. S \in SUBSET Ortho
      BY DEF Hits
    <3> QED BY <1>2, <3>1, <3>2 DEF Hitting
  <2> QED BY <2>2, <2>3, <2>4
<1>3. CASE d \in Node \ {Form}
  <2>1. x = Locking(d)
    BY <1>3, OrthoAssumption DEF LlmEntries
  <2> QED BY <1>3, <2>1 DEF Locking
<1>4. CASE d \in Ortho
  <2>1. PICK S \in Hits : x = Hitting(d, S)
    BY <1>4, TreeAssumption, OrthoAssumption DEF LlmEntries
  <2>2. S \in SUBSET Ortho
    BY DEF Hits
  <2> QED BY <1>4, <2>1, <2>2 DEF Hitting
<1> QED BY <1>2, <1>3, <1>4

LEMMA LocalWrites ==
  ASSUME NEW i \in DOMAIN Bank, NEW x \in LocalEntries(Bank[i].dim)
  PROVE  /\ Bank[i].dim \in Node =>
              x.dim \in Main[Bank[i].dim] /\ x.locks = {}
         /\ Bank[i].dim \notin Node =>
              x.dim = Bank[i].dim /\ x.locks = {Bank[i].dim}
<1> DEFINE d == Bank[i].dim
           item == CHOOSE b \in Range(Bank) : b.dim = d
<1>1. d \in Node \cup MustOrtho
  BY BankItems
<1>2. CASE d \in Node
  <2>1. Bank[i] \in Range(Bank)
    BY DEF Range
  <2>2. item \in Range(Bank) /\ item.dim = d
    BY <2>1
  <2>3. PICK j \in DOMAIN Bank : item = Bank[j]
    BY <2>2 DEF Range
  <2>4. item.picks \subseteq Main[d]
    BY <1>2, <2>2, <2>3, BankItems
  <2>5. x \in {Locking(n) : n \in item.picks}
    BY <1>2, OrthoAssumption DEF LocalEntries
  <2> HIDE DEF item
  <2> QED BY <1>2, <2>4, <2>5 DEF Locking
<1>3. CASE d \notin Node
  <2>1. x = Hitting(d, {d})
    BY <1>1, <1>3, OrthoAssumption DEF LocalEntries
  <2> QED BY <1>3, <2>1 DEF Hitting
<1> QED BY <1>2, <1>3

----------------------------------------------------------------------------
(* The invariant.                                                          *)

\* The question on the page asks what is open; the bank's may be about the
\* end of the chain, and is its first about that.
Pending(s) ==
  phase = "asked" =>
    /\ question.dim \notin s.ortho
    /\ question.dim \in Node =>
         \/ question.dim \in ChainDims(s)
         \/ /\ question.source = "local"
            /\ s.chain # <<>> /\ question.dim = Tip(s.chain)
    /\ question.source = "local" =>
         /\ \E i \in DOMAIN Bank : Bank[i].dim = question.dim
         /\ \A k \in DOMAIN log :
              log[k].source = "local" => log[k].asked # question.dim

ConvergeInv ==
  /\ TypeOK
  /\ State \in States
  /\ Descends(State.chain)
  /\ Heard(State, log)
  /\ Pending(State)

LEMMA InitConverges == Init => ConvergeInv
<1> SUFFICES ASSUME Init PROVE ConvergeInv
  OBVIOUS
<1>1. State = Empty
  BY BuildEmpty DEF Init, State
<1>2. State.chain = <<>> /\ State.ortho = {} /\ State \in States
  BY <1>1 DEF Empty, States
<1>3. TypeOK
  BY TreeAssumption DEF Init, TypeOK, Question, NoQuestion
<1>4. Descends(State.chain)
  BY <1>2 DEF Descends
<1>5. Heard(State, log) /\ Pending(State)
  BY DEF Init, Heard, Pending
<1> QED BY <1>2, <1>3, <1>4, <1>5 DEF ConvergeInv

\* The entry an answer writes.
LEMMA AnswerWrites ==
  ASSUME ConvergeInv, Answer
  PROVE  \E e \in Entry :
           /\ log' = Append(log, e)
           /\ e.asked = question.dim /\ e.source = question.source
           /\ question.dim \in Ortho => e.dim = question.dim
           /\ e.dim \in Node =>
                State.chain = <<>> \/ Beyond(e.dim, Tip(State.chain))
           /\ question.source = "local" =>
                /\ question.dim \in Node => e.dim \in Main[question.dim]
                /\ question.dim \notin Node => e.locks = {question.dim}
<1> DEFINE d == question.dim
<1>1. phase = "asked"
  BY DEF Answer
<1>2. /\ d \in Node \cup Ortho /\ question.source \in {"llm", "local"}
      /\ State.chain \in Seq(Node)
  BY DEF ConvergeInv, TypeOK, Question, States
<1>3. PICK x \in IF question.source = "llm" THEN LlmEntries(d) ELSE LocalEntries(d) :
        log' = Append(log, [dim |-> x.dim, locks |-> x.locks,
                            asked |-> d, source |-> question.source])
  BY DEF Answer
<1> DEFINE e == [dim |-> x.dim, locks |-> x.locks,
                 asked |-> d, source |-> question.source]
<1>4. Pending(State)
  BY DEF ConvergeInv
<1>5. CASE question.source = "llm"
  <2>1. /\ x.dim \in Node \cup Ortho \cup {OtherName} /\ x.locks \in SUBSET Ortho
        /\ d # Form => x.dim = d
    BY <1>2, <1>3, <1>5, LlmWrites
  <2>2. e \in Entry
    BY <1>2, <2>1 DEF Entry
  <2>3. d \in Ortho => e.dim = d
    BY <2>1, TreeAssumption, OrthoAssumption
  <2>4. ASSUME e.dim \in Node, State.chain # <<>>
        PROVE  Beyond(e.dim, Tip(State.chain))
    <3>1. Tip(State.chain) \in Node
      BY <1>2, <2>4, TipIsNode
    <3>2. d \in Node
      BY <1>2, <2>3, <2>4, OrthoAssumption
    <3>3. d \in Children(Tip(State.chain))
      BY <1>1, <1>4, <1>5, <2>4, <3>2 DEF Pending, ChainDims
    <3>4. d # Form
      <4>1. /\ Depth[d] = Depth[Tip(State.chain)] + 1
            /\ Depth[Tip(State.chain)] \in 0 .. 3
        BY <3>1, <3>3, Levels
      <4> HIDE DEF d
      <4> QED BY <4>1, Levels
    <3> QED BY <2>1, <3>1, <3>3, <3>4, ChildIsBeyond
  <2> HIDE DEF d
  <2>5. e.asked = d /\ e.source = question.source
    OBVIOUS
  <2> HIDE DEF e
  <2> QED BY <1>3, <1>5, <2>2, <2>3, <2>4, <2>5 DEF d, e
<1>6. CASE question.source = "local"
  <2>1. PICK i \in DOMAIN Bank : Bank[i].dim = d
    BY <1>1, <1>4, <1>6 DEF Pending
  <2>2. /\ d \in Node => x.dim \in Main[d] /\ x.locks = {}
        /\ d \notin Node => x.dim = d /\ x.locks = {d}
    BY <1>3, <1>6, <2>1, LocalWrites
  <2>3. e \in Entry
    BY <1>2, <1>6, <2>2, TreeAssumption DEF Entry
  <2>4. ASSUME e.dim \in Node, State.chain # <<>>
        PROVE  Beyond(e.dim, Tip(State.chain))
    <3>1. Tip(State.chain) \in Node
      BY <1>2, <2>4, TipIsNode
    <3>2. d \in Node /\ e.dim \in Children(d)
      BY <2>2, <2>4 DEF Children
    <3>3. d \in Children(Tip(State.chain)) \/ d = Tip(State.chain)
      BY <1>1, <1>4, <2>4, <3>2 DEF Pending, ChainDims
    <3> HIDE DEF d, e
    <3> QED BY <3>1, <3>2, <3>3, ChildIsBeyond, GrandchildIsBeyond
  <2>5. /\ d \in Ortho => e.dim = d
        /\ d \in Node => e.dim \in Main[d]
        /\ d \notin Node => e.locks = {d}
    BY <2>2, OrthoAssumption
  <2>6. e.asked = d /\ e.source = question.source
    OBVIOUS
  <2> HIDE DEF e
  <2> QED BY <1>3, <1>6, <2>3, <2>4, <2>5, <2>6 DEF e
<1> QED BY <1>2, <1>5, <1>6

\* What an answer does to the state.
LEMMA AnswerMoves ==
  ASSUME ConvergeInv, NEW e \in Entry, log' = Append(log, e),
         e.dim \in Node => State.chain = <<>> \/ Beyond(e.dim, Tip(State.chain))
  PROVE  /\ State' \in States
         /\ Descends(State'.chain)
         /\ e.dim \in Node => /\ State'.ortho = State.ortho
                              /\ State'.chain = Append(State.chain, e.dim)
                              /\ Range(State'.chain) = Range(State.chain) \cup {e.dim}
         /\ e.dim \notin Node => /\ State'.chain = State.chain
                                 /\ State'.ortho = State.ortho \cup e.locks
<1>1. State' = Absorb(State, e)
  BY BuildAppend DEF State, ConvergeInv, TypeOK
<1>2. State \in States /\ State.chain \in Seq(Node) /\ Descends(State.chain)
  BY DEF ConvergeInv, States
<1>3. CASE e.dim \in Node
  <2>1. /\ Absorb(State, e) \in States
        /\ Absorb(State, e).chain = Append(State.chain, e.dim)
        /\ Absorb(State, e).ortho = State.ortho
    BY <1>2, <1>3, AbsorbNode
  <2>2. /\ Descends(Append(State.chain, e.dim))
        /\ Range(Append(State.chain, e.dim)) = Range(State.chain) \cup {e.dim}
    BY <1>2, <1>3, DescendsOn
  <2> QED BY <1>1, <1>3, <2>1, <2>2
<1>4. CASE e.dim \notin Node
  BY <1>1, <1>2, <1>4, AbsorbTaste
<1> QED BY <1>3, <1>4

LEMMA AnswerConverges == ConvergeInv /\ Answer => ConvergeInv'
<1> SUFFICES ASSUME ConvergeInv, Answer PROVE ConvergeInv'
  OBVIOUS
<1>1. PICK e \in Entry :
        /\ log' = Append(log, e)
        /\ e.asked = question.dim /\ e.source = question.source
        /\ question.dim \in Ortho => e.dim = question.dim
        /\ e.dim \in Node =>
             State.chain = <<>> \/ Beyond(e.dim, Tip(State.chain))
        /\ question.source = "local" =>
             /\ question.dim \in Node => e.dim \in Main[question.dim]
             /\ question.dim \notin Node => e.locks = {question.dim}
  BY AnswerWrites
<1>2. /\ State' \in States
      /\ Descends(State'.chain)
      /\ e.dim \in Node => /\ State'.ortho = State.ortho
                           /\ Range(State'.chain) = Range(State.chain) \cup {e.dim}
      /\ e.dim \notin Node => /\ State'.chain = State.chain
                              /\ State'.ortho = State.ortho \cup e.locks
  BY <1>1, AnswerMoves
<1>3. phase' \in {"asking", "closed"} /\ question' = question
  BY DEF Answer
<1>4. TypeOK'
  BY <1>1, <1>3 DEF TypeOK, ConvergeInv
<1>5. Range(State.chain) \subseteq Range(State'.chain) /\ State.ortho \subseteq State'.ortho
  BY <1>2
<1>6. Heard(State', log')
  <2> SUFFICES ASSUME NEW i \in DOMAIN log', log'[i].source = "local"
               PROVE  /\ log'[i].asked \in Node =>
                           /\ log'[i].dim \in Main[log'[i].asked]
                           /\ log'[i].dim \in Range(State'.chain)
                      /\ log'[i].asked \notin Node => log'[i].asked \in State'.ortho
    BY Zenon DEF Heard
  <2>1. log \in Seq(Entry)
    BY DEF ConvergeInv, TypeOK
  <2>2. CASE i \in DOMAIN log
    <3>1. log'[i] = log[i]
      BY <1>1, <2>1, <2>2
    <3> QED BY <1>5, <2>2, <3>1 DEF ConvergeInv, Heard
  <2>3. CASE i \notin DOMAIN log
    <3>1. log'[i] = e
      BY <1>1, <2>1, <2>3
    <3>2. CASE question.dim \in Node
      <4>1. e.dim \in Main[question.dim] /\ e.dim \in Node
        BY <1>1, <3>1, <3>2, TreeAssumption
      <4> QED BY <1>1, <1>2, <3>1, <3>2, <4>1
    <3>3. CASE question.dim \notin Node
      <4>1. question.dim \in Ortho
        BY <3>3 DEF ConvergeInv, TypeOK, Question
      <4>2. e.dim \notin Node /\ question.dim \in e.locks
        BY <1>1, <3>1, <3>3, <4>1
      <4> QED BY <1>1, <1>2, <3>1, <3>3, <4>2
    <3> QED BY <3>2, <3>3
  <2> QED BY <2>2, <2>3
<1>7. Pending(State)'
  BY <1>3 DEF Pending
<1> QED BY <1>2, <1>4, <1>6, <1>7 DEF ConvergeInv

\* A question of the LLM.
LEMMA LlmAsks ==
  ASSUME ConvergeInv, AskLlm
  PROVE  /\ log' = log /\ phase' = "asked" /\ question' \in Question
         /\ question'.source = "llm"
         /\ question'.dim \in AvailableDims(State)
         /\ ChainOnly(State, log) => question'.dim \in ChainDims(State)
         /\ question'.stop => \E min \in MinSteps : Len(log) >= min
<1> DEFINE dims == IF ChainOnly(State, log) THEN ChainDims(State)
                                             ELSE AvailableDims(State)
<1>1. PICK d \in dims, stop \in BOOLEAN, min \in MinSteps :
        /\ stop => Len(log) >= min
        /\ Ask([dim |-> d, stop |-> stop, source |-> "llm"])
  BY DEF AskLlm, State
<1>2. ChainDims(State) \subseteq Node
  BY TreeAssumption, TipIsNode, Levels DEF ChainDims, States, ConvergeInv
<1>3. d \in Node \cup Ortho /\ d \in AvailableDims(State)
      /\ (ChainOnly(State, log) => d \in ChainDims(State))
  BY <1>2 DEF AvailableDims
<1> QED BY <1>1, <1>3 DEF Ask, Question

\* A question of the bank.
LEMMA BankAsks ==
  ASSUME ConvergeInv, AskLocal
  PROVE  /\ log' = log /\ phase' = "asked" /\ question' \in Question
         /\ question'.source = "local"
         /\ question'.stop => \E min \in MinSteps : Len(log) >= min - 1
         /\ \E i \in DOMAIN Bank :
              /\ question'.dim = Bank[i].dim
              /\ Fits(Bank[i], AvailableDims(State))
              /\ \A k \in DOMAIN log :
                   log[k].source = "local" => log[k].asked # Bank[i].dim
              /\ Shallow(State) /\ ChainOnly(State, log)
                   => Fits(Bank[i], ChainDims(State))
<1>1. PICK min \in MinSteps :
        Ask([dim |-> LocalQuestion(State, log).dim,
             stop |-> LocalStop(log, min), source |-> "local"])
  BY DEF AskLocal, State
<1>2. ~(ChainDone(State) /\ MustLocked(State))
  BY DEF AskLocal, State, ShouldFinalize
<1>3. log \in Seq(Entry) /\ State \in States /\ Descends(State.chain)
      /\ Heard(State, log)
  BY DEF ConvergeInv, TypeOK
<1>4. PICK i \in DOMAIN Bank :
        /\ i \in Candidates(State, log)
        /\ LocalQuestion(State, log) = Bank[i]
  BY <1>3, BankAnswers
<1>5. /\ Fits(Bank[i], AvailableDims(State))
      /\ \A k \in DOMAIN log :
           log[k].source = "local" => log[k].asked # Bank[i].dim
      /\ Shallow(State) /\ ChainOnly(State, log) => Fits(Bank[i], ChainDims(State))
  BY <1>2, <1>3, <1>4, FiltersHold
<1>6. /\ log' = log /\ phase' = "asked"
      /\ question' = [dim |-> Bank[i].dim,
                      stop |-> LocalStop(log, min), source |-> "local"]
  BY <1>1, <1>4 DEF Ask
<1>7. Bank[i].dim \in Node \cup Ortho
  BY BankItems, OrthoAssumption
<1>8. LocalStop(log, min) \in BOOLEAN
      /\ (LocalStop(log, min) => Len(log) >= min - 1)
  BY DEF LocalStop
<1>9. question' \in Question
  BY <1>6, <1>7, <1>8 DEF Question
<1> QED BY <1>5, <1>6, <1>8, <1>9

LEMMA AskConverges == ConvergeInv /\ (AskLlm \/ AskLocal) => ConvergeInv'
<1> SUFFICES ASSUME ConvergeInv, AskLlm \/ AskLocal PROVE ConvergeInv'
  OBVIOUS
<1>1. log' = log /\ phase' = "asked" /\ question' \in Question
  BY LlmAsks, BankAsks
<1>2. State' = State
  BY <1>1 DEF State
<1>3. ChainDims(State) \subseteq Node /\ State.ortho \subseteq Ortho
  BY TreeAssumption, TipIsNode, Levels DEF ChainDims, States, ConvergeInv
<1>4. /\ question'.dim \notin State.ortho
      /\ question'.dim \in Node =>
           \/ question'.dim \in ChainDims(State)
           \/ /\ question'.source = "local"
              /\ State.chain # <<>> /\ question'.dim = Tip(State.chain)
      /\ question'.source = "local" =>
           /\ \E i \in DOMAIN Bank : Bank[i].dim = question'.dim
           /\ \A k \in DOMAIN log :
                log[k].source = "local" => log[k].asked # question'.dim
  <2>1. CASE AskLlm
    <3>1. question'.source = "llm" /\ question'.dim \in AvailableDims(State)
      BY <2>1, LlmAsks
    <3> QED BY <1>3, <3>1, OrthoAssumption DEF AvailableDims
  <2>2. CASE AskLocal
    <3>1. PICK i \in DOMAIN Bank :
            /\ question'.source = "local" /\ question'.dim = Bank[i].dim
            /\ Fits(Bank[i], AvailableDims(State))
            /\ \A k \in DOMAIN log :
                 log[k].source = "local" => log[k].asked # Bank[i].dim
      BY <2>2, BankAsks
    <3>2. /\ Bank[i].dim \notin State.ortho
          /\ Bank[i].dim \in Node =>
               \/ Bank[i].dim \in ChainDims(State)
               \/ State.chain # <<>> /\ Bank[i].dim = Tip(State.chain)
      BY <3>1, FittingItem DEF ConvergeInv
    <3> QED BY <3>1, <3>2
  <2> QED BY <2>1, <2>2
<1>5. Pending(State)'
  BY <1>1, <1>2, <1>4 DEF Pending
<1>6. TypeOK' /\ (State' \in States) /\ Descends(State'.chain) /\ Heard(State', log')
  BY <1>1, <1>2 DEF ConvergeInv, TypeOK
<1> QED BY <1>5, <1>6 DEF ConvergeInv

LEMMA NextConverges == ConvergeInv /\ [Next]_vars => ConvergeInv'
<1> SUFFICES ASSUME ConvergeInv, [Next]_vars PROVE ConvergeInv'
  OBVIOUS
<1>1. CASE AskLlm \/ AskLocal
  BY <1>1, AskConverges
<1>2. CASE Answer
  BY <1>2, AnswerConverges
<1>3. CASE Finish
  <2>1. log' = log /\ question' = question /\ phase' = "closed" /\ State' = State
    BY <1>3 DEF Finish, State
  <2>2. Pending(State)'
    BY <2>1 DEF Pending
  <2> QED BY <2>1, <2>2 DEF ConvergeInv, TypeOK
<1>4. CASE UNCHANGED vars
  <2>1. log' = log /\ question' = question /\ phase' = phase /\ State' = State
    BY <1>4 DEF vars, State
  <2>2. Pending(State)'
    BY <2>1 DEF Pending, ConvergeInv
  <2> QED BY <2>1, <2>2 DEF ConvergeInv, TypeOK
<1> QED BY <1>1, <1>2, <1>3, <1>4 DEF Next, Closed

\* The chain goes down, what the bank heard is settled, and a question is
\* about what is open, whatever tree, bank and tastes there are.
THEOREM ConvergeInvariant == Spec => []ConvergeInv
<1> QED BY InitConverges, NextConverges, PTL DEF Spec

\* What the log, the question and the phase may be; the bank has something to
\* ask at every step.
THEOREM TypeCorrect == Spec => []TypeOK
<1>1. ConvergeInv => TypeOK
  BY DEF ConvergeInv
<1> QED BY <1>1, ConvergeInvariant, PTL

\* No answer takes a session back up the tree or across to another branch.
THEOREM ChainGoesDown == Spec => []ChainDescends
<1>1. ConvergeInv => ChainDescends
  BY DEF ConvergeInv, Descends, ChainDescends
<1> QED BY <1>1, ConvergeInvariant, PTL

\* Neither a locked taste nor a question of the bank comes a second time: the
\* filters of _local_question that could give way never do.
THEOREM AsksOnce == Spec => []NeverAsksAgain
<1>1. ConvergeInv => NeverAsksAgain
  BY DEF ConvergeInv, Pending, NeverAsksAgain
<1> QED BY <1>1, ConvergeInvariant, PTL

----------------------------------------------------------------------------
(* The forced drill.                                                       *)

LEMMA DrillOn ==
  ASSUME State.chain \in Seq(Node), TailOrthoStreak(log) >= 2,
         Len(State.chain) < 3, Shallow(State)
  PROVE  ChainOnly(State, log)
<1>1. ChainDims(State) # {}
  BY DEF Shallow, ChainDims, Children
<1> QED BY <1>1 DEF ChainOnly

\* Who fits the end of the chain asks a node.
LEMMA DrillsNode ==
  ASSUME State \in States, NEW i \in DOMAIN Bank, Fits(Bank[i], ChainDims(State))
  PROVE  Bank[i].dim \in Node
<1>1. ChainDims(State) \subseteq Node
  BY TreeAssumption, TipIsNode, Levels DEF ChainDims, States
<1> QED BY <1>1, BankItems DEF Fits

LEMMA AsksNode ==
  ASSUME ConvergeInv, AskLlm \/ AskLocal, ChainOnly(State, log), Shallow(State)
  PROVE  question'.dim \in Node
<1>1. State \in States
  BY DEF ConvergeInv
<1>2. CASE AskLlm
  <2>1. question'.dim \in ChainDims(State)
    BY <1>2, LlmAsks
  <2> QED BY <1>1, <2>1, TreeAssumption, TipIsNode, Levels DEF ChainDims, States
<1>3. CASE AskLocal
  <2>1. PICK i \in DOMAIN Bank :
          question'.dim = Bank[i].dim /\ Fits(Bank[i], ChainDims(State))
    BY <1>3, BankAsks
  <2> QED BY <1>1, <2>1, DrillsNode
<1> QED BY <1>2, <1>3

\* After two tastes in a row the next question walks a compulsory level,
\* whether the LLM or the bank asks it.
THEOREM DrillsAreForced == Spec => []DrillsCompulsoryLevels
<1>1. Init => DrillsCompulsoryLevels
  BY DEF Init, DrillsCompulsoryLevels
<1>2. ConvergeInv /\ DrillsCompulsoryLevels /\ [Next]_vars
        => DrillsCompulsoryLevels'
  <2> SUFFICES ASSUME ConvergeInv, DrillsCompulsoryLevels, [Next]_vars
               PROVE  DrillsCompulsoryLevels'
    OBVIOUS
  <2>1. CASE AskLlm \/ AskLocal
    <3>1. log' = log /\ State' = State
      BY <2>1, LlmAsks, BankAsks DEF State
    <3>2. TailOrthoStreak(log) >= 2 /\ Len(State.chain) < 3 /\ Shallow(State)
            => question'.dim \in Node
      BY <2>1, DrillOn, AsksNode DEF ConvergeInv, States
    <3> QED BY <3>1, <3>2 DEF DrillsCompulsoryLevels, Shallow
  <2>2. CASE Answer \/ Finish
    BY <2>2 DEF Answer, Finish, DrillsCompulsoryLevels
  <2>3. CASE UNCHANGED vars
    BY <2>3 DEF vars, DrillsCompulsoryLevels, State
  <2> QED BY <2>1, <2>2, <2>3 DEF Next, Closed
<1> QED BY <1>1, <1>2, ConvergeInvariant, PTL DEF Spec

----------------------------------------------------------------------------
(* Closing.                                                                *)

\* The settings a deployment starts with ask three questions at least; the
\* admin page accepts less.
AsksThree == MaxAskSteps >= 3 /\ \A min \in MinSteps : min >= 3

\* As long as only tastes were asked the session is open, and after the second
\* taste the question is about a direction.
UnaskedInv ==
  (\A i \in DOMAIN log : log[i].asked \notin Node) =>
    /\ State.chain = <<>>
    /\ \A i \in DOMAIN log : log[i].dim \in Ortho
    /\ Len(log) <= 2
    /\ phase # "closed"
    /\ phase = "asked" =>
         question.dim \in Node \/ (Len(log) < 2 /\ ~question.stop)

LEMMA UnaskedAsk ==
  ASSUME AsksThree, ConvergeInv, UnaskedInv, AskLlm \/ AskLocal
  PROVE  UnaskedInv'
<1>1. log' = log /\ phase' = "asked" /\ State' = State
  BY LlmAsks, BankAsks DEF State
<1>2. log \in Seq(Entry) /\ Len(log) \in Nat /\ State.chain \in Seq(Node)
  BY DEF ConvergeInv, TypeOK, States
<1> SUFFICES ASSUME \A i \in DOMAIN log : log[i].asked \notin Node
             PROVE  question'.dim \in Node \/ (Len(log) < 2 /\ ~question'.stop)
  BY <1>1 DEF UnaskedInv
<1>3. State.chain = <<>> /\ \A i \in DOMAIN log : log[i].dim \in Ortho
  BY DEF UnaskedInv
<1>4. CASE Len(log) < 2
  <2>1. question'.stop => \E min \in MinSteps : Len(log) >= min - 1
    <3>1. \A min \in MinSteps : min \in Nat
      BY OrthoAssumption
    <3>2. ASSUME AskLlm
          PROVE  question'.stop => \E min \in MinSteps : Len(log) >= min - 1
      <4>1. question'.stop => \E min \in MinSteps : Len(log) >= min
        BY <3>2, LlmAsks
      <4> QED BY <3>1, <4>1, <1>2
    <3> QED BY <3>2, BankAsks
  <2> QED BY <1>2, <1>4, <2>1, OrthoAssumption DEF AsksThree
<1>5. CASE Len(log) >= 2
  <2>1. TailOrthoStreak(log) = Len(log)
    BY <1>2, <1>3 DEF TailOrthoStreak
  <2>2. ChainOnly(State, log) /\ Shallow(State)
    BY <1>2, <1>3, <1>5, <2>1, DrillOn DEF Shallow
  <2> QED BY <2>2, AsksNode
<1> QED BY <1>2, <1>4, <1>5

LEMMA UnaskedAnswer ==
  ASSUME ConvergeInv, UnaskedInv, Answer
  PROVE  UnaskedInv'
<1>1. PICK e \in Entry :
        /\ log' = Append(log, e)
        /\ e.asked = question.dim
        /\ question.dim \in Ortho => e.dim = question.dim
        /\ e.dim \in Node =>
             State.chain = <<>> \/ Beyond(e.dim, Tip(State.chain))
  BY AnswerWrites
<1>2. log \in Seq(Entry) /\ Len(log) \in Nat /\ question.dim \in Node \cup Ortho
  BY DEF ConvergeInv, TypeOK, Question
<1>3. /\ Len(log') = Len(log) + 1
      /\ \A i \in DOMAIN log' :
           (i \in DOMAIN log /\ log'[i] = log[i]) \/ log'[i] = e
      /\ \A i \in DOMAIN log : i \in DOMAIN log' /\ log'[i] = log[i]
      /\ Len(log') \in DOMAIN log' /\ log'[Len(log')] = e
  BY <1>1, <1>2
<1> SUFFICES ASSUME \A i \in DOMAIN log' : log'[i].asked \notin Node
             PROVE  /\ State'.chain = <<>>
                    /\ \A i \in DOMAIN log' : log'[i].dim \in Ortho
                    /\ Len(log') <= 2
                    /\ phase' = "asking"
  BY DEF UnaskedInv
<1>4. \A i \in DOMAIN log : log[i].asked \notin Node
  BY <1>3
<1>5. question.dim \notin Node
  BY <1>1, <1>3
<1>6. /\ State.chain = <<>>
      /\ \A i \in DOMAIN log : log[i].dim \in Ortho
      /\ Len(log) < 2 /\ ~question.stop
  BY <1>4, <1>5 DEF UnaskedInv, Answer
<1>7. e.dim \in Ortho /\ e.dim \notin Node
  BY <1>1, <1>2, <1>5
<1>8. State'.chain = State.chain
  BY <1>1, <1>7, AnswerMoves
<1>9. phase' = "asking"
  BY <1>6 DEF Answer
<1> QED BY <1>2, <1>3, <1>6, <1>7, <1>8, <1>9

\* No session closes before it was asked for a direction, by the engine's
\* verdict, by the cap, or by the stop flag of a question, unless an operator
\* lowers the minimum below three.
THEOREM DirectionIsAsked == AsksThree => (Spec => []NeverClosesUnasked)
<1> SUFFICES ASSUME AsksThree PROVE Spec => []NeverClosesUnasked
  OBVIOUS
<1>1. Init => UnaskedInv
  <2> SUFFICES ASSUME Init PROVE UnaskedInv
    OBVIOUS
  <2>1. State.chain = <<>>
    BY BuildEmpty DEF Init, State, Empty
  <2> QED BY <2>1 DEF Init, UnaskedInv
<1>2. ConvergeInv /\ UnaskedInv /\ [Next]_vars => UnaskedInv'
  <2> SUFFICES ASSUME ConvergeInv, UnaskedInv, [Next]_vars PROVE UnaskedInv'
    OBVIOUS
  <2>1. CASE AskLlm \/ AskLocal
    BY <2>1, UnaskedAsk
  <2>2. CASE Answer
    BY <2>2, UnaskedAnswer
  <2>3. CASE Finish
    <3>1. log' = log /\ ShouldFinalize(State, Len(log)) /\ phase = "asking"
      BY <2>3 DEF Finish, State
    <3>2. ~(\A i \in DOMAIN log : log[i].asked \notin Node)
      <4> SUFFICES ASSUME \A i \in DOMAIN log : log[i].asked \notin Node
                   PROVE  FALSE
        OBVIOUS
      <4>1. State.chain = <<>> /\ Len(log) <= 2
        BY DEF UnaskedInv
      <4>2. Len(log) \in Nat
        BY DEF ConvergeInv, TypeOK
      <4>3. ~ChainDone(State)
        BY <4>1 DEF ChainDone
      <4>4. Len(log) >= MaxAskSteps
        BY <3>1, <4>3 DEF ShouldFinalize
      <4> QED BY <4>1, <4>2, <4>4, OrthoAssumption DEF AsksThree
    <3> QED BY <3>1, <3>2 DEF UnaskedInv
  <2>4. CASE UNCHANGED vars
    BY <2>4 DEF vars, UnaskedInv, State
  <2> QED BY <2>1, <2>2, <2>3, <2>4 DEF Next, Closed
<1>3. UnaskedInv => NeverClosesUnasked
  BY DEF UnaskedInv, NeverClosesUnasked
<1> QED BY <1>1, <1>2, <1>3, ConvergeInvariant, PTL DEF Spec

----------------------------------------------------------------------------
(* Sessions of the bank alone.                                             *)

\* LOCAL_BANK asks for the direction first, then has the other nodes, then two
\* tastes, each once.
BankInOrder ==
  /\ \A i, j \in DOMAIN Bank : Bank[i].dim = Bank[j].dim => i = j
  /\ Bank[1].dim = Form
  /\ \E p, q \in DOMAIN Bank :
       /\ p < q
       /\ {i \in DOMAIN Bank : Bank[i].dim \notin Node} = {p, q}
       /\ \A i \in DOMAIN Bank : Bank[i].dim \in Node => i < p

\* Two compulsory levels below the root and no more.
TwoLevels ==
  \A n \in Main[Form] :
    Main[n] # {} /\ \A m \in Children(n) : Main[m] = {}

LEMMA NthFirst ==
  ASSUME NEW S \in SUBSET Nat, IsFiniteSet(S), NEW m \in S, \A i \in S : m <= i
  PROVE  Nth(S, 0) = m
<1> DEFINE below == {j \in S : j < Nth(S, 0)}
<1>1. Cardinality(S) \in Nat /\ Cardinality(S) # 0
  BY FS_CardinalityType, FS_EmptySet
<1>2. 0 \in 0 .. Cardinality(S) - 1
  BY <1>1
<1>3. Nth(S, 0) \in S /\ Cardinality(below) = 0
  BY <1>2, NthMember
<1>4. IsFiniteSet(below)
  BY FS_Subset
<1>5. below = {}
  <2> HIDE DEF below
  <2> QED BY <1>3, <1>4, FS_EmptySet
<1>6. m \in Nat /\ Nth(S, 0) \in Nat /\ m <= Nth(S, 0)
  BY <1>3
<1>7. ~(m < Nth(S, 0))
  BY <1>5
<1> QED BY <1>6, <1>7

LEMMA NthSecond ==
  ASSUME NEW a \in Nat, NEW b \in Nat, NEW c \in Nat, a < b, b < c
  PROVE  /\ Cardinality({a, b, c}) = 3
         /\ Nth({a, b, c}, 1) = b
<1> DEFINE S == {a, b, c}
           n == Nth(S, 1)
           below == {j \in S : j < n}
<1>1. /\ IsFiniteSet({a}) /\ Cardinality({a}) = 1
      /\ IsFiniteSet({a, b}) /\ Cardinality({a, b}) = 2
  <2>1. IsFiniteSet({a}) /\ Cardinality({a}) = 1
    BY FS_Singleton
  <2>2. {a, b} = {a} \cup {b} /\ b \notin {a}
    OBVIOUS
  <2> QED BY <2>1, <2>2, FS_AddElement
<1>2. IsFiniteSet(S) /\ Cardinality(S) = 3
  <2>1. S = {a, b} \cup {c} /\ c \notin {a, b}
    OBVIOUS
  <2> QED BY <1>1, <2>1, FS_AddElement
<1>3. n \in S /\ Cardinality(below) = 1
  <2>1. S \in SUBSET Nat /\ 1 \in 0 .. Cardinality(S) - 1
    BY <1>2
  <2> HIDE DEF S
  <2> QED BY <1>2, <2>1, NthMember
<1>4. n # a
  <2> SUFFICES ASSUME n = a PROVE FALSE
    OBVIOUS
  <2> HIDE DEF n
  <2>1. below = {}
    OBVIOUS
  <2> HIDE DEF below
  <2> QED BY <1>3, <2>1, FS_EmptySet
<1>5. n # c
  <2> SUFFICES ASSUME n = c PROVE FALSE
    OBVIOUS
  <2> HIDE DEF n
  <2>1. below = {a, b}
    OBVIOUS
  <2> HIDE DEF below
  <2> QED BY <1>1, <1>3, <2>1
<1> HIDE DEF n
<1>6. n = b
  BY <1>3, <1>4, <1>5
<1> QED BY <1>2, <1>6 DEF n

\* While a compulsory level is left and no drill is on, the bank chooses
\* among the question about that level and the tastes that are open.
LEMMA CandidatesAre ==
  ASSUME NEW s \in States, NEW entries \in Seq(Entry), Descends(s.chain),
         Heard(s, entries), ~(ChainDone(s) /\ MustLocked(s)),
         BankInOrder, Shallow(s), ~ChainOnly(s, entries),
         NEW g \in DOMAIN Bank,
         s.chain = <<>> => Bank[g].dim = Form,
         s.chain # <<>> => /\ Bank[g].dim = Tip(s.chain)
                           /\ \A n \in Children(Tip(s.chain)) : Main[n] = {}
  PROVE  Candidates(s, entries) =
           {i \in DOMAIN Bank :
              i = g \/ (Bank[i].dim \notin Node /\ Bank[i].dim \notin s.ortho)}
<1> DEFINE dims == AvailableDims(s)
           available == {j \in DOMAIN Bank : dims = {} \/ Fits(Bank[j], dims)}
           drilling == {j \in DOMAIN Bank : \/ ~ChainOnly(s, entries)
                                            \/ Fits(Bank[j], ChainDims(s))}
           fresh == {j \in DOMAIN Bank :
                       \A k \in DOMAIN entries : entries[k].source = "local" =>
                         entries[k].asked # Bank[j].dim}
           drilled == Narrow(available, drilling)
           right == {i \in DOMAIN Bank :
                       i = g \/ (Bank[i].dim \notin Node
                                 /\ Bank[i].dim \notin s.ortho)}
<1>1. ASSUME NEW i \in DOMAIN Bank, Fits(Bank[i], dims), Bank[i].dim \in Node
      PROVE  i = g
  <2>1. \/ Bank[i].dim \in ChainDims(s)
        \/ s.chain # <<>> /\ Bank[i].dim = Tip(s.chain)
    BY <1>1, FittingItem
  <2>2. CASE s.chain = <<>>
    BY <2>1, <2>2 DEF ChainDims, BankInOrder
  <2>3. CASE s.chain # <<>>
    <3>1. Main[Bank[i].dim] # {}
      BY <1>1, BankItems
    <3>2. Bank[i].dim = Bank[g].dim
      BY <2>1, <2>3, <3>1 DEF ChainDims
    <3> QED BY <3>2 DEF BankInOrder
  <2> QED BY <2>2, <2>3
<1>2. PICK x \in DOMAIN Bank :
        /\ Fits(Bank[x], AvailableDims(s))
        /\ \A k \in DOMAIN entries :
             entries[k].source = "local" => entries[k].asked # Bank[x].dim
        /\ Fits(Bank[x], ChainDims(s))
  BY FreshItem
<1>3. x = g
  <2>1. ChainDims(s) \subseteq Node
    BY TreeAssumption, TipIsNode, Levels DEF ChainDims, States
  <2>2. Bank[x].dim \in Node
    BY <1>2, <2>1, BankItems DEF Fits
  <2> QED BY <1>1, <1>2, <2>2
<1>4. \A i \in DOMAIN Bank :
        Bank[i].dim \notin Node /\ Bank[i].dim \notin s.ortho =>
          /\ Fits(Bank[i], dims)
          /\ \A k \in DOMAIN entries :
               entries[k].source = "local" => entries[k].asked # Bank[i].dim
  BY BankItems, OrthoAssumption DEF Fits, AvailableDims, Heard
<1>5. right \subseteq available \cap fresh
  BY <1>2, <1>3, <1>4
<1>6. g \in right
  OBVIOUS
<1>7. drilled = available
  BY <1>5, <1>6 DEF Narrow
<1>8. Candidates(s, entries) =
        IF Narrow(drilled, fresh) = {}
        THEN {j \in DOMAIN Bank : Bank[j].dim \in MustOrtho}
        ELSE Narrow(drilled, fresh)
  BY Zenon DEF Candidates
<1>9. available \cap fresh \subseteq right
  <2> SUFFICES ASSUME NEW i \in available PROVE i \in right
    OBVIOUS
  <2>1. dims # {}
    BY <1>2 DEF Fits
  <2>2. Fits(Bank[i], dims)
    BY <2>1
  <2>3. Bank[i].dim \notin s.ortho
    BY <2>2, FittingItem
  <2> QED BY <1>1, <2>2, <2>3
<1> HIDE DEF drilled, available, fresh, right
<1>10. Narrow(drilled, fresh) = right
  BY <1>5, <1>6, <1>7, <1>9 DEF Narrow
<1> QED BY <1>6, <1>8, <1>10 DEF right

\* The places of the two tastes in the bank.
TasteItems(p, q) ==
  /\ p \in DOMAIN Bank /\ q \in DOMAIN Bank /\ p < q
  /\ {i \in DOMAIN Bank : Bank[i].dim \notin Node} = {p, q}
  /\ \A i \in DOMAIN Bank : Bank[i].dim \in Node => i < p

LEMMA LocalAsk ==
  ASSUME ConvergeInv, AskLocal
  PROVE  /\ log' = log /\ phase' = "asked" /\ State' = State
         /\ question'.source = "local"
         /\ ~(ChainDone(State) /\ MustLocked(State))
         /\ LET cands == Candidates(State, log)
            IN  question'.dim = Bank[Nth(cands, Len(log) % Cardinality(cands))].dim
<1>1. PICK min \in MinSteps :
        Ask([dim |-> LocalQuestion(State, log).dim,
             stop |-> LocalStop(log, min), source |-> "local"])
  BY DEF AskLocal, State
<1>2. ~(ChainDone(State) /\ MustLocked(State))
  BY DEF AskLocal, State, ShouldFinalize
<1>3. log' = log /\ phase' = "asked" /\ question'.source = "local"
      /\ question'.dim = LocalQuestion(State, log).dim
  BY <1>1 DEF Ask
<1> QED BY <1>2, <1>3 DEF State, LocalQuestion

LEMMA FirstAsk ==
  ASSUME ConvergeInv, BankInOrder, NEW p, NEW q, TasteItems(p, q), AskLocal,
         Len(log) = 0, State.chain = <<>>, State.ortho = {}
  PROVE  question'.dim = Form
<1> DEFINE cands == Candidates(State, log)
<1>1. /\ log \in Seq(Entry) /\ State \in States /\ Descends(State.chain)
      /\ Heard(State, log)
  BY DEF ConvergeInv, TypeOK
<1>2. p \in Nat /\ q \in Nat /\ 1 \in DOMAIN Bank /\ 1 < p
  <2>1. DOMAIN Bank = 1 .. Len(Bank) /\ Len(Bank) \in Nat
    BY BankAssumption
  <2>2. 1 \in DOMAIN Bank
    BY <2>1 DEF TasteItems
  <2>3. Bank[1].dim \in Node
    BY TreeAssumption DEF BankInOrder
  <2> QED BY <2>1, <2>2, <2>3 DEF TasteItems
<1>3. ~ChainOnly(State, log)
  BY <1>1 DEF ChainOnly, TailOrthoStreak
<1>4. cands = {i \in DOMAIN Bank :
                 i = 1 \/ (Bank[i].dim \notin Node /\ Bank[i].dim \notin State.ortho)}
  <2>1. Bank[1].dim = Form /\ Shallow(State)
    BY DEF Shallow, BankInOrder
  <2>2. ~(ChainDone(State) /\ MustLocked(State))
    BY LocalAsk
  <2> QED BY <1>1, <1>2, <1>3, <2>1, <2>2, CandidatesAre
<1>5. cands = {1, p, q}
  BY <1>2, <1>4 DEF TasteItems
<1> HIDE DEF cands
<1>6. Cardinality(cands) = 3
  BY <1>2, <1>5, NthSecond DEF TasteItems
<1>7. IsFiniteSet(cands)
  <2>1. cands = ({1} \cup {p}) \cup {q}
    BY <1>5
  <2> QED BY <2>1, FS_Singleton, FS_AddElement
<1>8. Nth(cands, 0) = 1
  <2>1. cands \in SUBSET Nat /\ 1 \in cands /\ \A i \in cands : 1 <= i
    BY <1>2, <1>5 DEF TasteItems
  <2> QED BY <1>7, <2>1, NthFirst
<1>9. Len(log) % Cardinality(cands) = 0
  BY <1>6
<1>10. question'.dim = Bank[Nth(cands, Len(log) % Cardinality(cands))].dim
  BY LocalAsk DEF cands
<1>11. question'.dim = Bank[1].dim
  BY <1>8, <1>9, <1>10
<1> QED BY <1>11 DEF BankInOrder

\* One node of the first level is locked: the bank has its own question.
LEMMA FirstLevel ==
  ASSUME TwoLevels, State \in States, Len(State.chain) = 1,
         State.chain[1] \in Main[Form]
  PROVE  /\ State.chain # <<>> /\ Shallow(State)
         /\ ~ChainDone(State)
         /\ Tip(State.chain) = State.chain[1]
         /\ Tip(State.chain) \in Node
         /\ \A n \in Children(Tip(State.chain)) : Main[n] = {}
         /\ \E g \in DOMAIN Bank : Bank[g].dim = Tip(State.chain)
<1>1. State.chain # <<>> /\ Tip(State.chain) = State.chain[1]
  BY DEF Tip
<1>2. Tip(State.chain) \in Node /\ Main[Tip(State.chain)] # {}
  BY <1>1, TreeAssumption DEF TwoLevels
<1>3. Shallow(State) /\ ~ChainDone(State)
  BY <1>1, <1>2 DEF Shallow, ChainDone
<1> QED BY <1>1, <1>2, <1>3, BankAssumption DEF TwoLevels

LEMMA SecondAsk ==
  ASSUME ConvergeInv, BankInOrder, TwoLevels, NEW p, NEW q, TasteItems(p, q),
         AskLocal, Len(log) = 1, Len(State.chain) = 1,
         State.chain[1] \in Main[Form], State.ortho = {}
  PROVE  question'.dim = Bank[p].dim
<1> DEFINE cands == Candidates(State, log)
<1>1. /\ log \in Seq(Entry) /\ State \in States /\ Descends(State.chain)
      /\ Heard(State, log)
  BY DEF ConvergeInv, TypeOK
<1>2. PICK g \in DOMAIN Bank : Bank[g].dim = Tip(State.chain)
  BY <1>1, FirstLevel
<1>3. p \in Nat /\ q \in Nat /\ g \in Nat /\ g < p
  <2>1. DOMAIN Bank = 1 .. Len(Bank) /\ Len(Bank) \in Nat
    BY BankAssumption
  <2>2. Bank[g].dim \in Node
    BY <1>1, <1>2, FirstLevel
  <2> QED BY <2>1, <2>2 DEF TasteItems
<1>4. ~ChainOnly(State, log)
  <2> DEFINE chained == {i \in DOMAIN log : log[i].dim \notin Ortho}
  <2>1. chained = {} \/ chained = {1}
    BY <1>1
  <2>2. Max({1}) = 1
    BY DEF Max
  <2> HIDE DEF chained
  <2>3. (IF chained = {} THEN 0 ELSE Max(chained)) \in {0, 1}
    BY <2>1, <2>2
  <2>4. TailOrthoStreak(log) \in {0, 1}
    BY <2>3 DEF TailOrthoStreak, chained
  <2> QED BY <2>4 DEF ChainOnly
<1>5. cands = {i \in DOMAIN Bank :
                 i = g \/ (Bank[i].dim \notin Node /\ Bank[i].dim \notin State.ortho)}
  BY <1>1, <1>2, <1>4, LocalAsk, FirstLevel, CandidatesAre
<1>6. cands = {g, p, q}
  BY <1>5 DEF TasteItems
<1> HIDE DEF cands
<1>7. Cardinality(cands) = 3 /\ Nth(cands, 1) = p
  BY <1>3, <1>6, NthSecond DEF TasteItems
<1>8. Len(log) % Cardinality(cands) = 1
  BY <1>7
<1>9. question'.dim = Bank[Nth(cands, Len(log) % Cardinality(cands))].dim
  BY LocalAsk DEF cands
<1> QED BY <1>7, <1>8, <1>9

LEMMA ThirdAsk ==
  ASSUME ConvergeInv, BankInOrder, TwoLevels, NEW p, NEW q, TasteItems(p, q),
         AskLocal, Len(log) = 2, log[1].dim \notin Ortho, Len(State.chain) = 1,
         State.chain[1] \in Main[Form], State.ortho = {Bank[p].dim}
  PROVE  question'.dim = Tip(State.chain)
<1> DEFINE cands == Candidates(State, log)
<1>1. /\ log \in Seq(Entry) /\ State \in States /\ Descends(State.chain)
      /\ Heard(State, log)
  BY DEF ConvergeInv, TypeOK
<1>2. PICK g \in DOMAIN Bank : Bank[g].dim = Tip(State.chain)
  BY <1>1, FirstLevel
<1>3. p \in Nat /\ q \in Nat /\ g \in Nat /\ g < p /\ p < q
  <2>1. DOMAIN Bank = 1 .. Len(Bank) /\ Len(Bank) \in Nat
    BY BankAssumption
  <2>2. Bank[g].dim \in Node
    BY <1>1, <1>2, FirstLevel
  <2> QED BY <2>1, <2>2 DEF TasteItems
<1>4. ~ChainOnly(State, log)
  <2> DEFINE chained == {i \in DOMAIN log : log[i].dim \notin Ortho}
  <2>1. chained = {1} \/ chained = {1, 2}
    BY <1>1
  <2>2. Max({1}) = 1 /\ Max({1, 2}) = 2
    BY DEF Max
  <2> HIDE DEF chained
  <2>3. chained # {} /\ Max(chained) \in {1, 2}
    BY <2>1, <2>2
  <2>4. TailOrthoStreak(log) \in {0, 1}
    BY <2>3 DEF TailOrthoStreak, chained
  <2> QED BY <2>4 DEF ChainOnly
<1>5. cands = {i \in DOMAIN Bank :
                 i = g \/ (Bank[i].dim \notin Node /\ Bank[i].dim \notin State.ortho)}
  BY <1>1, <1>2, <1>4, LocalAsk, FirstLevel, CandidatesAre
<1>6. cands = {g, q}
  <2>1. Bank[p].dim # Bank[q].dim
    BY <1>3 DEF BankInOrder, TasteItems
  <2> QED BY <1>5, <2>1 DEF TasteItems
<1> HIDE DEF cands
<1>7. IsFiniteSet(cands) /\ Cardinality(cands) = 2
  <2>1. cands = {g} \cup {q}
    BY <1>6
  <2>2. q \notin {g}
    BY <1>3
  <2>3. IsFiniteSet({g}) /\ Cardinality({g}) = 1
    BY FS_Singleton
  <2>4. IsFiniteSet({g} \cup {q}) /\ Cardinality({g} \cup {q}) = 1 + 1
    BY <2>2, <2>3, FS_AddElement, Zenon
  <2> QED BY <2>1, <2>4
<1>8. Nth(cands, 0) = g
  <2>1. g <= g /\ g <= q
    BY <1>3
  <2>2. cands \in SUBSET Nat /\ g \in cands /\ \A i \in cands : g <= i
    BY <1>3, <1>6, <2>1
  <2> QED BY <1>7, <2>2, NthFirst
<1>9. Len(log) % Cardinality(cands) = 0
  BY <1>7
<1>10. question'.dim = Bank[Nth(cands, Len(log) % Cardinality(cands))].dim
  BY LocalAsk DEF cands
<1> QED BY <1>2, <1>8, <1>9, <1>10

\* As long as the bank alone was heard: the questions are the direction, a
\* taste and the level below the direction, in this order.
Directed == Len(State.chain) = 1 /\ State.chain[1] \in Main[Form]

Waiting(d) == phase = "asked" /\ question.source = "local" => question.dim = d

AloneInv(p) ==
  Alone =>
    \/ /\ Len(log) = 0 /\ State.chain = <<>> /\ State.ortho = {}
       /\ phase # "closed" /\ Waiting(Form)
       /\ phase = "asked" /\ question.source = "local" => ~question.stop
    \/ /\ Len(log) = 1 /\ log[1].dim \notin Ortho
       /\ Directed /\ State.ortho = {}
       /\ phase # "closed" /\ Waiting(Bank[p].dim)
       /\ phase = "asked" /\ question.source = "local" => ~question.stop
    \/ /\ Len(log) = 2 /\ log[1].dim \notin Ortho
       /\ Directed /\ State.ortho = {Bank[p].dim}
       /\ phase # "closed" /\ Waiting(Tip(State.chain))
    \/ /\ Len(log) = 3 /\ ChainDone(State) /\ MustLocked(State)
       /\ phase # "asked"

LEMMA AloneAsk ==
  ASSUME AsksThree, BankInOrder, TwoLevels, NEW p, NEW q, TasteItems(p, q),
         ConvergeInv, AloneInv(p), AskLocal
  PROVE  AloneInv(p)'
<1>1. /\ log' = log /\ phase' = "asked" /\ State' = State
      /\ question'.source = "local"
      /\ ~(ChainDone(State) /\ MustLocked(State))
  BY LocalAsk
<1>2. question'.stop => Len(log) >= 2
  <2>1. question'.stop => \E min \in MinSteps : Len(log) >= min - 1
    BY BankAsks
  <2>2. Len(log) \in Nat
    BY DEF ConvergeInv, TypeOK
  <2> QED BY <2>1, <2>2, OrthoAssumption DEF AsksThree
<1> SUFFICES ASSUME Alone PROVE AloneInv(p)'
  BY <1>1 DEF AloneInv, Alone
<1>3. CASE Len(log) = 0
  <2>1. State.chain = <<>> /\ State.ortho = {}
    BY <1>3 DEF AloneInv
  <2>2. question'.dim = Form
    BY <1>3, <2>1, FirstAsk
  <2> QED BY <1>1, <1>2, <1>3, <2>1, <2>2 DEF AloneInv, Waiting
<1>4. CASE Len(log) = 1
  <2>1. log[1].dim \notin Ortho /\ Directed /\ State.ortho = {}
    BY <1>4 DEF AloneInv
  <2>2. question'.dim = Bank[p].dim
    BY <1>4, <2>1, SecondAsk DEF Directed
  <2> QED BY <1>1, <1>2, <1>4, <2>1, <2>2 DEF AloneInv, Waiting, Directed
<1>5. CASE Len(log) = 2
  <2>1. log[1].dim \notin Ortho /\ Directed /\ State.ortho = {Bank[p].dim}
    BY <1>5 DEF AloneInv
  <2>2. question'.dim = Tip(State.chain)
    BY <1>5, <2>1, ThirdAsk DEF Directed
  <2> QED BY <1>1, <1>5, <2>1, <2>2 DEF AloneInv, Waiting, Directed
<1> QED BY <1>1, <1>3, <1>4, <1>5 DEF AloneInv

LEMMA AloneAnswer ==
  ASSUME TwoLevels, NEW p, NEW q, TasteItems(p, q),
         ConvergeInv, AloneInv(p), Answer
  PROVE  AloneInv(p)'
<1>1. PICK e \in Entry :
        /\ log' = Append(log, e)
        /\ e.asked = question.dim /\ e.source = question.source
        /\ question.dim \in Ortho => e.dim = question.dim
        /\ e.dim \in Node =>
             State.chain = <<>> \/ Beyond(e.dim, Tip(State.chain))
        /\ question.source = "local" =>
             /\ question.dim \in Node => e.dim \in Main[question.dim]
             /\ question.dim \notin Node => e.locks = {question.dim}
  BY AnswerWrites
<1>2. /\ e.dim \in Node => /\ State'.ortho = State.ortho
                           /\ State'.chain = Append(State.chain, e.dim)
      /\ e.dim \notin Node => /\ State'.chain = State.chain
                              /\ State'.ortho = State.ortho \cup e.locks
  BY <1>1, AnswerMoves
<1>3. log \in Seq(Entry) /\ Len(log) \in Nat /\ State.chain \in Seq(Node)
      /\ question.dim \in Node \cup Ortho
  BY DEF ConvergeInv, TypeOK, States, Question
<1>4. /\ Len(log') = Len(log) + 1
      /\ \A i \in DOMAIN log : i \in DOMAIN log' /\ log'[i] = log[i]
      /\ Len(log') \in DOMAIN log' /\ log'[Len(log')] = e
  BY <1>1, <1>3
<1> SUFFICES ASSUME Alone' PROVE AloneInv(p)'
  BY DEF AloneInv
<1>5. Alone /\ question.source = "local" /\ phase = "asked"
  <2>1. Alone
    BY <1>4 DEF Alone
  <2>2. e.source = "local"
    BY <1>4 DEF Alone
  <2> QED BY <1>1, <2>1, <2>2 DEF Answer
<1>6. /\ phase' # "asked"
      /\ ~question.stop => phase' # "closed"
  BY DEF Answer
<1>7. CASE Len(log) = 0
  <2>1. /\ State.chain = <<>> /\ State.ortho = {} /\ question.dim = Form
        /\ ~question.stop
    BY <1>5, <1>7 DEF AloneInv, Waiting
  <2>2. e.dim \in Main[Form] /\ e.dim \in Node
    BY <1>1, <1>5, <2>1, TreeAssumption
  <2>3. Len(State'.chain) = 1 /\ State'.chain[1] = e.dim /\ State'.ortho = {}
    <3>1. State'.chain = Append(<<>>, e.dim) /\ State'.ortho = {}
      BY <1>2, <2>1, <2>2
    <3>2. Append(<<>>, e.dim) = <<e.dim>>
      OBVIOUS
    <3> QED BY <3>1, <3>2
  <2>4. Len(log') = 1 /\ log'[1] = e
    BY <1>4, <1>7
  <2> QED BY <1>6, <2>1, <2>2, <2>3, <2>4, OrthoAssumption
          DEF AloneInv, Waiting, Directed
<1>8. CASE Len(log) = 1
  <2>1. /\ log[1].dim \notin Ortho /\ Directed /\ State.ortho = {}
        /\ question.dim = Bank[p].dim /\ ~question.stop
    BY <1>5, <1>8 DEF AloneInv, Waiting
  <2>2. question.dim \notin Node
    BY <2>1 DEF TasteItems
  <2>3. e.dim \notin Node /\ e.locks = {question.dim}
    BY <1>1, <1>3, <1>5, <2>2
  <2>4. State'.chain = State.chain /\ State'.ortho = {Bank[p].dim}
    BY <1>2, <2>1, <2>3
  <2>5. Len(log') = 2 /\ log'[1] = log[1]
    BY <1>3, <1>4, <1>8
  <2> QED BY <1>6, <2>1, <2>4, <2>5 DEF AloneInv, Waiting, Directed
<1>9. CASE Len(log) = 2
  <2>1. /\ Directed /\ State.ortho = {Bank[p].dim}
        /\ question.dim = Tip(State.chain)
    BY <1>5, <1>9 DEF AloneInv, Waiting
  <2>2. Tip(State.chain) = State.chain[1] /\ State.chain # <<>>
    BY <2>1 DEF Directed, Tip
  <2>3. question.dim \in Node /\ question.dim \in Main[Form]
    BY <1>3, <2>1, <2>2, TipIsNode DEF Directed
  <2>4. e.dim \in Main[question.dim] /\ e.dim \in Node /\ Main[e.dim] = {}
    BY <1>1, <1>5, <2>3, TreeAssumption DEF TwoLevels, Children
  <2>5. State'.ortho = {Bank[p].dim} /\ State'.chain = Append(State.chain, e.dim)
    BY <1>2, <2>1, <2>4
  <2>6. State'.chain # <<>> /\ Tip(State'.chain) = e.dim
    BY <1>3, <2>4, <2>5 DEF Tip
  <2>7. ChainDone(State')
    BY <2>4, <2>6 DEF ChainDone
  <2>8. Bank[p].dim \in MustOrtho
    BY BankItems DEF TasteItems
  <2>9. MustLocked(State')
    BY <2>5, <2>8 DEF MustLocked
  <2>10. Len(log') = 3
    BY <1>4, <1>9
  <2> QED BY <1>6, <2>7, <2>9, <2>10 DEF AloneInv, ChainDone, MustLocked
<1>10. Len(log) \in {0, 1, 2}
  BY <1>5 DEF AloneInv
<1> QED BY <1>7, <1>8, <1>9, <1>10

LEMMA AloneFinish ==
  ASSUME AsksThree, TwoLevels, NEW p, ConvergeInv, AloneInv(p), Finish
  PROVE  AloneInv(p)'
<1>1. /\ log' = log /\ State' = State /\ phase' = "closed"
      /\ ShouldFinalize(State, Len(log))
  BY DEF Finish, State
<1> SUFFICES ASSUME Alone PROVE AloneInv(p)'
  BY <1>1 DEF AloneInv, Alone
<1>2. State \in States
  BY DEF ConvergeInv
<1>3. PICK n \in Nat : Len(log) = n
  BY DEF ConvergeInv, TypeOK
<1>4. ~(n < 3)
  <2> SUFFICES ASSUME n < 3 PROVE FALSE
    OBVIOUS
  <2>1. Len(log) # 3
    BY <1>3
  <2>2. State.chain = <<>> \/ Directed
    BY <2>1 DEF AloneInv
  <2>3. ~ChainDone(State)
    <3>1. CASE State.chain = <<>>
      BY <3>1 DEF ChainDone
    <3>2. CASE Directed
      BY <1>2, <3>2, FirstLevel DEF Directed
    <3> QED BY <2>2, <3>1, <3>2
  <2>4. Len(log) >= MaxAskSteps
    BY <1>1, <2>3 DEF ShouldFinalize
  <2>5. MaxAskSteps >= 3 /\ MaxAskSteps \in Nat
    BY OrthoAssumption DEF AsksThree
  <2> QED BY <1>3, <2>4, <2>5
<1>5. Len(log) = 3 /\ ChainDone(State) /\ MustLocked(State)
  <2>1. Len(log) # 0 /\ Len(log) # 1 /\ Len(log) # 2
    BY <1>3, <1>4
  <2> QED BY <2>1 DEF AloneInv
<1> QED BY <1>1, <1>5 DEF AloneInv

\* Without the LLM no session is closed unconverged, whatever the user answers,
\* with a bank in the order of LOCAL_BANK and a tree of two compulsory levels.
\* (AloneInv counts its questions, and stops at three: see LocalSessionsTakeFive.)
THEOREM BankConverges ==
  AsksThree /\ BankInOrder /\ TwoLevels => (Spec => []LocalSessionsConverge)
<1> SUFFICES ASSUME AsksThree, BankInOrder, TwoLevels
             PROVE  Spec => []LocalSessionsConverge
  OBVIOUS
<1>1. PICK p, q \in DOMAIN Bank : TasteItems(p, q)
  BY DEF BankInOrder, TasteItems
<1>2. Init => AloneInv(p)
  <2> SUFFICES ASSUME Init PROVE AloneInv(p)
    OBVIOUS
  <2>1. State.chain = <<>> /\ State.ortho = {}
    BY BuildEmpty DEF Init, State, Empty
  <2> QED BY <2>1 DEF Init, AloneInv, Waiting
<1>3. ConvergeInv /\ AloneInv(p) /\ [Next]_vars => AloneInv(p)'
  <2> SUFFICES ASSUME ConvergeInv, AloneInv(p), [Next]_vars PROVE AloneInv(p)'
    OBVIOUS
  <2>1. CASE AskLlm
    <3>1. /\ log' = log /\ phase' = "asked" /\ State' = State
          /\ question'.source = "llm"
      BY <2>1, LlmAsks DEF State
    <3>2. ~(ChainDone(State) /\ MustLocked(State))
      BY <2>1 DEF AskLlm, State, ShouldFinalize
    <3> QED BY <3>1, <3>2 DEF AloneInv, Alone, Waiting, Directed
  <2>2. CASE AskLocal
    BY <1>1, <2>2, AloneAsk
  <2>3. CASE Answer
    BY <1>1, <2>3, AloneAnswer
  <2>4. CASE Finish
    BY <2>4, AloneFinish
  <2>5. CASE UNCHANGED vars
    <3>1. log' = log /\ phase' = phase /\ question' = question /\ State' = State
      BY <2>5 DEF vars, State
    <3> QED BY <3>1 DEF AloneInv, Alone, Waiting, Directed
  <2> QED BY <2>1, <2>2, <2>3, <2>4, <2>5 DEF Next, Closed
<1>4. AloneInv(p) => LocalSessionsConverge
  BY DEF AloneInv, Alone, LocalSessionsConverge
<1> QED BY <1>2, <1>3, <1>4, ConvergeInvariant, PTL DEF Spec
=============================================================================
