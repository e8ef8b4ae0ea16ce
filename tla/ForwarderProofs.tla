--------------------------- MODULE ForwarderProofs ---------------------------
(***************************************************************************)
(* Theorems about Forwarder for every set of events and threads, every     *)
(* batch size and any number of rollbacks, failures and restarts.          *)
(***************************************************************************)
EXTENDS Forwarder, FiniteSetTheorems, TLAPS

\* Ids that are or were given out, and those given out for good or in a
\* transaction that was rolled back.
Known == CommittedRows \cup OpenRows \cup rolledBack
Settled == CommittedRows \cup rolledBack

\* The steps of one thread.
ThreadStep(f) == Start(f) \/ Proceed(f) \/ SendFails(f) \/ SaveFails(f)

----------------------------------------------------------------------------
(* The table.                                                              *)

\* What is visible is a finite set of rows.
LEMMA TableRows ==
  ASSUME TypeOK
  PROVE  /\ CommittedRows \cup OpenRows \subseteq Row
         /\ IsFiniteSet(CommittedRows \cup OpenRows)
<1> DEFINE C == [i \in 1 .. Len(committed) |->
                   [id |-> i, event |-> committed[i]]]
           O == [i \in 1 .. Len(open) |->
                   [id |-> Len(committed) + i, event |-> open[i]]]
<1>1. /\ DOMAIN committed = 1 .. Len(committed) /\ Len(committed) \in Nat
      /\ DOMAIN open = 1 .. Len(open) /\ Len(open) \in Nat
  BY DEF TypeOK
<1>2. CommittedRows \subseteq Row
  <2> SUFFICES ASSUME NEW i \in DOMAIN committed
               PROVE  [id |-> i, event |-> committed[i]] \in Row
    BY DEF CommittedRows
  <2>1. i \in Nat \ {0} /\ committed[i] \in Entry
    BY <1>1 DEF TypeOK
  <2> QED BY <2>1 DEF Row
<1>3. OpenRows \subseteq Row
  <2> SUFFICES ASSUME NEW i \in DOMAIN open
               PROVE  [id |-> Len(committed) + i, event |-> open[i]] \in Row
    BY DEF OpenRows
  <2>1. Len(committed) + i \in Nat \ {0} /\ open[i] \in Entry
    BY <1>1 DEF TypeOK
  <2> QED BY <2>1 DEF Row
<1>4. IsFiniteSet(CommittedRows)
  <2>1. C \in Surjection(1 .. Len(committed), CommittedRows)
    BY <1>1 DEF Surjection, CommittedRows
  <2> QED BY <1>1, <2>1, FS_Interval, FS_Surjection
<1>5. IsFiniteSet(OpenRows)
  <2>1. O \in Surjection(1 .. Len(open), OpenRows)
    BY <1>1 DEF Surjection, OpenRows
  <2> QED BY <1>1, <2>1, FS_Interval, FS_Surjection
<1> QED BY <1>2, <1>3, <1>4, <1>5, FS_Union

\* Every id up to the last one given out is that of a visible row or a gap.
LEMMA EveryIdVisible ==
  ASSUME TypeOK, NEW r \in CommittedRows \cup OpenRows, NEW i \in 1 .. r.id
  PROVE  \E s \in CommittedRows \cup OpenRows : s.id = i
<1>1. /\ DOMAIN committed = 1 .. Len(committed) /\ Len(committed) \in Nat
      /\ DOMAIN open = 1 .. Len(open) /\ Len(open) \in Nat
  BY DEF TypeOK
<1>2. r.id \in Nat /\ r.id <= Len(committed) + Len(open)
  <2>1. CASE r \in CommittedRows
    <3>1. PICK k \in DOMAIN committed : r = [id |-> k, event |-> committed[k]]
      BY <2>1 DEF CommittedRows
    <3> QED BY <1>1, <3>1
  <2>2. CASE r \in OpenRows
    <3>1. PICK k \in DOMAIN open :
            r = [id |-> Len(committed) + k, event |-> open[k]]
      BY <2>2 DEF OpenRows
    <3> QED BY <1>1, <3>1
  <2> QED BY <2>1, <2>2
<1>3. CASE i <= Len(committed)
  <2>1. i \in DOMAIN committed
    BY <1>1, <1>2, <1>3
  <2>2. [id |-> i, event |-> committed[i]] \in CommittedRows
    BY <2>1 DEF CommittedRows
  <2> QED BY <2>2
<1>4. CASE i > Len(committed)
  <2> DEFINE k == i - Len(committed)
  <2>1. k \in DOMAIN open /\ Len(committed) + k = i
    BY <1>1, <1>2, <1>4
  <2>2. [id |-> Len(committed) + k, event |-> open[k]] \in OpenRows
    BY <2>1 DEF OpenRows
  <2> QED BY <2>1, <2>2
<1> QED BY <1>1, <1>2, <1>3, <1>4

\* A batch is a finite set of at most Batch visible rows after the cursor
\* the thread read, and leaves out none before its last one.
LEMMA FetchedRows ==
  ASSUME TypeOK, NEW f \in Thread, NEW b \in Fetched(f)
  PROVE  /\ b \subseteq Row /\ IsFiniteSet(b) /\ Cardinality(b) <= Batch
         /\ \A r \in b : r.id > base[f]
         /\ b \subseteq CommittedRows \cup OpenRows
         /\ \A r \in b, s \in CommittedRows \cup OpenRows :
              s.id < r.id => s \in b \/ s.event = NoEvent \/ s.id <= base[f]
<1> DEFINE all == RowsFrom(base[f] + 1)
<1>1. /\ b \subseteq all /\ Cardinality(b) <= Batch
      /\ \A r \in b, s \in all \ b : r.id < s.id
  BY DEF Fetched, Firsts
<1>2. all \subseteq CommittedRows \cup OpenRows
  BY DEF RowsFrom
<1>3. b \subseteq Row /\ IsFiniteSet(b)
  BY <1>1, <1>2, TableRows, FS_Subset
<1>4. ASSUME NEW r \in b, NEW s \in CommittedRows \cup OpenRows, s.id < r.id,
             s \notin b, s.event # NoEvent, ~(s.id <= base[f])
      PROVE  FALSE
  <2>1. r.id \in Nat /\ s.id \in Nat /\ base[f] \in Nat
    BY <1>3, TableRows DEF Row, TypeOK
  <2>2. s \in all
    BY <1>4, <2>1 DEF RowsFrom
  <2>3. r.id < s.id
    BY <1>1, <1>4, <2>2
  <2> QED BY <1>4, <2>1, <2>3
<1>5. \A r \in b : r.id > base[f]
  <2>1. \A r \in b : r.id \in Nat /\ r.id >= base[f] + 1
    BY <1>1, <1>3 DEF RowsFrom, Row
  <2>2. base[f] \in Nat
    BY DEF TypeOK
  <2> QED BY <2>1, <2>2
<1> QED BY <1>1, <1>2, <1>3, <1>4, <1>5

\* Ids stay known, and settled, whatever happens.
LEMMA RowsGrow ==
  ASSUME TypeOK, [Next]_vars
  PROVE  Known \subseteq Known' /\ Settled \subseteq Settled'
<1> USE DEF Known, Settled
<1>1. CASE UNCHANGED <<committed, open, rolledBack>>
  BY <1>1 DEF CommittedRows, OpenRows
<1>2. ASSUME NEW e \in Entry, open' = Append(open, e),
             UNCHANGED <<committed, rolledBack>>
      PROVE  Known \subseteq Known' /\ Settled \subseteq Settled'
  <2>1. \A i \in DOMAIN open : i \in DOMAIN open' /\ open'[i] = open[i]
    BY <1>2 DEF TypeOK
  <2>2. OpenRows \subseteq OpenRows'
    BY <1>2, <2>1 DEF OpenRows
  <2> QED BY <1>2, <2>2 DEF CommittedRows
<1>3. CASE Commit
  <2>1. /\ committed' = committed \o open /\ rolledBack' = rolledBack
        /\ committed \in Seq(Entry) /\ open \in Seq(Entry)
    BY <1>3 DEF Commit, Visible, TypeOK
  <2>2. \A i \in DOMAIN committed :
          i \in DOMAIN committed' /\ committed'[i] = committed[i]
    BY <2>1
  <2>3. \A i \in DOMAIN open :
          /\ Len(committed) + i \in DOMAIN committed'
          /\ committed'[Len(committed) + i] = open[i]
    BY <2>1
  <2>4. CommittedRows \subseteq CommittedRows'
    BY <2>2 DEF CommittedRows
  <2>5. OpenRows \subseteq CommittedRows'
    BY <2>3 DEF OpenRows, CommittedRows
  <2> QED BY <2>1, <2>4, <2>5
<1>4. CASE Rollback \/ Crash
  <2>1. committed' = committed /\ rolledBack' = rolledBack \cup OpenRows
    BY <1>4 DEF Rollback, Crash
  <2> QED BY <2>1 DEF CommittedRows
<1>5. ASSUME NEW f \in Thread, ThreadStep(f)
      PROVE  UNCHANGED <<committed, open, rolledBack>>
  BY <1>5 DEF ThreadStep, Start, Proceed, Select, Send, SentAll, Save,
              SendFails, SaveFails
<1>6. CASE UNCHANGED vars
  BY <1>1, <1>6 DEF vars
<1>7. ASSUME NEW e \in Event, Insert(e)
      PROVE  Known \subseteq Known' /\ Settled \subseteq Settled'
  BY <1>2, <1>7 DEF Insert, Entry
<1>8. CASE InsertAgain
  BY <1>2, <1>8 DEF InsertAgain, Entry
<1> QED BY <1>1, <1>3, <1>4, <1>5, <1>6, <1>7, <1>8 DEF Next, ThreadStep

----------------------------------------------------------------------------
(* Types.                                                                  *)

\* What a thread holds.
ThreadsTyped ==
  /\ pc \in [Thread -> Stage]
  /\ base \in [Thread -> Nat]
  /\ todo \in [Thread -> SUBSET Row]
  /\ last \in [Thread -> Nat]
  /\ overlapped \in BOOLEAN
  /\ \A f \in Thread : /\ IsFiniteSet(todo[f]) /\ Cardinality(todo[f]) <= Batch
                       /\ AfterBase(f)

\* A thread that holds no row has the types.
LEMMA NothingTyped == IsFiniteSet({}) /\ Cardinality({}) <= Batch
BY FS_EmptySet, ForwarderAssumption

\* A stopped thread has the types of a fresh one.
LEMMA StopTyped ==
  ASSUME TypeOK, NEW f \in Thread, Stop(f)
  PROVE  ThreadsTyped'
<1>1. /\ pc' \in [Thread -> Stage] /\ base' \in [Thread -> Nat]
      /\ todo' \in [Thread -> SUBSET Row] /\ last' \in [Thread -> Nat]
      /\ overlapped' \in BOOLEAN
  BY DEF Stop, TypeOK, Stage
<1>2. ASSUME NEW g \in Thread
      PROVE  IsFiniteSet(todo'[g]) /\ Cardinality(todo'[g]) <= Batch /\ AfterBase(g)'
  BY NothingTyped DEF Stop, TypeOK, AfterBase
<1> QED BY <1>1, <1>2 DEF ThreadsTyped

\* The initial state has the types.
LEMMA InitTyped == Init => TypeOK
<1>1. Init => overlapped \in BOOLEAN
  BY DEF Init
<1> QED BY <1>1, NothingTyped DEF Init, TypeOK, Stage, AfterBase

\* Every transaction step and a restart keep the types.
LEMMA TransactionTyped ==
  ASSUME TypeOK,
         \/ \E e \in Event : Insert(e)
         \/ InsertAgain \/ Commit \/ Rollback \/ Crash
  PROVE  TypeOK'
<1>1. ASSUME NEW e \in Event, Insert(e) PROVE TypeOK'
  BY <1>1 DEF Insert, TypeOK, AfterBase, threads, bounds, Entry
<1>2. CASE InsertAgain
  BY <1>2 DEF InsertAgain, TypeOK, AfterBase, threads, Entry
<1>3. CASE Commit
  BY <1>3 DEF Commit, Visible, TypeOK, AfterBase, threads, bounds
<1>4. CASE Rollback
  BY <1>4, TableRows DEF Rollback, TypeOK, AfterBase, threads
<1>5. CASE Crash
  <2>1. /\ pc' \in [Thread -> Stage] /\ base' \in [Thread -> Nat]
        /\ todo' \in [Thread -> SUBSET Row] /\ last' \in [Thread -> Nat]
    BY <1>5 DEF Crash, Stage
  <2>2. \A f \in Thread : todo'[f] = {} /\ AfterBase(f)'
    BY <1>5 DEF Crash, AfterBase
  <2>3. open' \in Seq(Entry) /\ rolledBack' \subseteq Row
         /\ failures' \in Nat
    BY <1>5, TableRows DEF Crash, TypeOK
  <2> QED BY <1>5, <2>1, <2>2, <2>3, NothingTyped DEF Crash, TypeOK
<1> QED BY <1>1, <1>2, <1>3, <1>4, <1>5

\* Every step of a forwarding thread keeps the types.
LEMMA ThreadTyped ==
  ASSUME TypeOK, NEW f \in Thread, ThreadStep(f)
  PROVE  TypeOK'
<1>1. CASE Start(f)
  BY <1>1 DEF Start, TypeOK, AfterBase, Stage, bounds
<1>2. CASE Select(f)
  <2>1. PICK b \in Fetched(f) :
          IF b = {} THEN Stop(f)
          ELSE /\ todo' = [todo EXCEPT ![f] = b]
               /\ pc' = [pc EXCEPT ![f] = "send"]
               /\ UNCHANGED <<base, last, overlapped>>
    BY <1>2 DEF Select
  <2>2. ThreadsTyped'
    <3>1. CASE b = {}
      BY <2>1, <3>1, StopTyped
    <3>2. CASE b # {}
      <4>1. /\ pc' \in [Thread -> Stage] /\ base' \in [Thread -> Nat]
            /\ todo' \in [Thread -> SUBSET Row] /\ last' \in [Thread -> Nat]
            /\ overlapped' \in BOOLEAN
        BY <2>1, <3>2, FetchedRows DEF TypeOK, Stage
      <4>2. ASSUME NEW g \in Thread
            PROVE  /\ IsFiniteSet(todo'[g]) /\ Cardinality(todo'[g]) <= Batch
                   /\ AfterBase(g)'
        BY <2>1, <3>2, FetchedRows DEF TypeOK, AfterBase
      <4> QED BY <4>1, <4>2 DEF ThreadsTyped
    <3> QED BY <3>1, <3>2
  <2> QED BY <1>2, <2>2 DEF Select, TypeOK, ThreadsTyped, bounds
<1>3. CASE Send(f)
  <2>1. PICK r \in todo[f] : /\ delivered' = delivered \cup {r}
                             /\ todo' = [todo EXCEPT ![f] = @ \ {r}]
                             /\ last' = [last EXCEPT ![f] = r.id]
    BY <1>3 DEF Send
  <2>2. r \in Row /\ r.id \in Nat
    BY DEF TypeOK, Row
  <2>3. IsFiniteSet(todo[f] \ {r}) /\ Cardinality(todo[f] \ {r}) <= Batch
    <3>1. /\ IsFiniteSet(todo[f] \ {r}) /\ Cardinality(todo[f] \ {r}) \in Nat
          /\ Cardinality(todo[f] \ {r}) <= Cardinality(todo[f])
          /\ Cardinality(todo[f]) \in Nat
      BY FS_Subset, FS_CardinalityType DEF TypeOK
    <3> QED BY <3>1, ForwarderAssumption DEF TypeOK
  <2>4. \A g \in Thread : IsFiniteSet(todo'[g]) /\ Cardinality(todo'[g]) <= Batch
    BY <2>1, <2>3 DEF TypeOK
  <2>5. \A g \in Thread : AfterBase(g)'
    BY <1>3, <2>1 DEF Send, TypeOK, AfterBase
  <2> QED BY <1>3, <2>1, <2>2, <2>4, <2>5 DEF Send, TypeOK, bounds
<1>4. CASE SendFails(f)
  <2>1. delivered' \subseteq Row
    BY <1>4 DEF SendFails, TypeOK
  <2>2. \A g \in Thread : AfterBase(g)'
    BY <1>4 DEF SendFails, TypeOK, AfterBase
  <2> QED BY <1>4, <2>1, <2>2 DEF SendFails, TypeOK, Stage
<1>5. CASE SentAll(f)
  BY <1>5 DEF SentAll, TypeOK, AfterBase, Stage, bounds
<1>6. CASE Save(f)
  <2>1. cursor' \in Nat
    BY <1>6 DEF Save, LastOk, TypeOK
  <2> QED BY <1>6, <2>1, StopTyped DEF Save, TypeOK, ThreadsTyped, bounds
<1>7. CASE SaveFails(f)
  BY <1>7, StopTyped DEF SaveFails, TypeOK, ThreadsTyped
<1> QED BY <1>1, <1>2, <1>3, <1>4, <1>5, <1>6, <1>7 DEF ThreadStep, Proceed

\* Every variable keeps its type.
THEOREM TypeCorrect == Spec => []TypeOK
<1>1. TypeOK /\ [Next]_vars => TypeOK'
  <2> SUFFICES ASSUME TypeOK, [Next]_vars PROVE TypeOK'
    OBVIOUS
  <2>1. CASE UNCHANGED vars
    BY <2>1 DEF TypeOK, AfterBase, vars
  <2> QED BY <2>1, TransactionTyped, ThreadTyped DEF Next, ThreadStep
<1> QED BY <1>1, InitTyped, PTL DEF Spec

----------------------------------------------------------------------------
(* What the cursor stands for.  CursorCovers speaks of the cursor; to be   *)
(* inductive it must hold of every cursor a thread read and will go on     *)
(* from, and of the rows it selected and sent since.                       *)

\* The id i is a gap, or Umami has a row with it, and that gap or row is
\* one of ids.
Handled(i, ids) ==
  \E r \in ids : r.id = i /\ (r.event = NoEvent \/ r \in delivered)

Covers(n) == \A i \in 1 .. n : Handled(i, Settled)

\* What a thread has behind it is handled, and nothing lies before the rows
\* it still holds but what is handled or held too.
BatchOk(f) ==
  /\ Covers(base[f])
  /\ \A i \in 1 .. last[f] : Handled(i, Known)
  /\ todo[f] \subseteq Known
  /\ \A r \in todo[f] : \A i \in 1 .. r.id :
       Handled(i, Known) \/ \E s \in todo[f] : s.id = i
  /\ pc[f] \in {"idle", "select"} => todo[f] = {} /\ last[f] = 0

ForwarderInv == CursorCovers /\ \A f \in Thread : BatchOk(f)

\* The property, said of the cursor.
LEMMA CursorIsCovered == CursorCovers <=> Covers(cursor)
BY DEF CursorCovers, Covers, Handled, Settled

\* Umami forgets nothing.
LEMMA DeliveredGrows ==
  ASSUME [Next]_vars
  PROVE  delivered \subseteq delivered'
<1>1. CASE UNCHANGED vars
  BY <1>1 DEF vars
<1>2. ASSUME NEW f \in Thread, ThreadStep(f)
      PROVE  delivered \subseteq delivered'
  BY <1>2 DEF ThreadStep, Start, Proceed, Select, Send, SentAll, Save,
              SendFails, SaveFails
<1>3. ASSUME \/ \E e \in Event : Insert(e)
             \/ InsertAgain \/ Commit \/ Rollback \/ Crash
      PROVE  delivered \subseteq delivered'
  BY <1>3 DEF Insert, InsertAgain, Commit, Rollback, Crash
<1> QED BY <1>1, <1>2, <1>3 DEF Next, ThreadStep

\* What is handled stays handled.
LEMMA HandledKept ==
  ASSUME TypeOK, [Next]_vars, NEW i
  PROVE  /\ Handled(i, Known) => Handled(i, Known)'
         /\ Handled(i, Settled) => Handled(i, Settled)'
BY DeliveredGrows, RowsGrow DEF Handled

\* What is covered stays covered.
LEMMA CoversKept ==
  ASSUME TypeOK, [Next]_vars
  PROVE  /\ \A f \in Thread : BatchOk(f) => \A i \in 1 .. base[f] :
              Handled(i, Settled)'
         /\ CursorCovers => \A i \in 1 .. cursor : Handled(i, Settled)'
BY HandledKept, CursorIsCovered DEF Covers, BatchOk

\* A thread that does not move keeps its batch in order.
LEMMA BatchKept ==
  ASSUME TypeOK, [Next]_vars, NEW f \in Thread, BatchOk(f),
         pc'[f] = pc[f], base'[f] = base[f], todo'[f] = todo[f],
         last'[f] = last[f]
  PROVE  BatchOk(f)'
<1>1. Covers(base[f])'
  BY CoversKept DEF Covers
<1>2. \A i \in 1 .. last[f] : Handled(i, Known)'
  BY HandledKept DEF BatchOk
<1>3. todo[f] \subseteq Known'
  BY RowsGrow DEF BatchOk
<1>4. \A r \in todo[f] : \A i \in 1 .. r.id :
        Handled(i, Known)' \/ \E s \in todo[f] : s.id = i
  BY HandledKept DEF BatchOk
<1> QED BY <1>1, <1>2, <1>3, <1>4 DEF BatchOk

\* A thread that stops holds nothing.
LEMMA BatchStopped ==
  ASSUME NEW f \in Thread, pc'[f] = "idle", base'[f] = 0, todo'[f] = {},
         last'[f] = 0
  PROVE  BatchOk(f)'
BY DEF BatchOk, Covers

\* A stopped thread is in order, and the others are as they were.
LEMMA StopKeeps ==
  ASSUME TypeOK, [Next]_vars, NEW f \in Thread, Stop(f),
         \A g \in Thread : BatchOk(g)
  PROVE  \A g \in Thread : BatchOk(g)'
<1> SUFFICES ASSUME NEW g \in Thread PROVE BatchOk(g)'
  OBVIOUS
<1>1. CASE g = f
  BY <1>1, BatchStopped DEF Stop, TypeOK
<1>2. CASE g # f
  BY <1>2, BatchKept DEF Stop, TypeOK
<1> QED BY <1>1, <1>2

\* A step that leaves the cursor alone leaves it covered.
LEMMA CursorKept ==
  ASSUME TypeOK, CursorCovers, [Next]_vars, cursor' = cursor
  PROVE  CursorCovers'
<1>1. \A i \in 1 .. cursor : Handled(i, Settled)'
  BY CoversKept
<1> QED BY <1>1 DEF CursorCovers, Handled, Settled

\* The rows a thread selects: before each there is nothing but what the
\* cursor covers, gaps, and other rows it selected.
LEMMA SelectedInOrder ==
  ASSUME TypeOK, NEW f \in Thread, BatchOk(f), NEW b \in Fetched(f),
         NEW r \in b, NEW i \in 1 .. r.id
  PROVE  Handled(i, Known) \/ \E s \in b : s.id = i
<1>1. /\ r \in CommittedRows \cup OpenRows /\ r.id \in Nat
      /\ base[f] \in Nat /\ i \in Nat
  BY FetchedRows DEF Row, TypeOK
<1>2. CASE i <= base[f]
  BY <1>1, <1>2 DEF BatchOk, Covers, Handled, Settled, Known
<1>3. CASE i > base[f]
  <2>1. PICK s \in CommittedRows \cup OpenRows : s.id = i
    BY <1>1, EveryIdVisible
  <2>2. CASE s.id = r.id
    BY <2>1, <2>2
  <2>3. CASE s.id < r.id
    <3>1. s \in b \/ s.event = NoEvent
      BY <1>1, <1>3, <2>1, <2>3, FetchedRows
    <3> QED BY <2>1, <3>1 DEF Handled, Known
  <2> QED BY <1>1, <2>1, <2>2, <2>3
<1> QED BY <1>1, <1>2, <1>3

\* Selecting keeps the invariant.
LEMMA SelectCovers ==
  ASSUME TypeOK, ForwarderInv, [Next]_vars, NEW f \in Thread, Select(f)
  PROVE  ForwarderInv'
<1>1. \A g \in Thread : BatchOk(g)
  BY DEF ForwarderInv
<1>2. PICK b \in Fetched(f) :
        IF b = {} THEN Stop(f)
        ELSE /\ todo' = [todo EXCEPT ![f] = b]
             /\ pc' = [pc EXCEPT ![f] = "send"]
             /\ UNCHANGED <<base, last, overlapped>>
  BY DEF Select
<1>3. CursorCovers'
  BY CursorKept DEF Select, ForwarderInv
<1>4. CASE b = {}
  BY <1>1, <1>2, <1>3, <1>4, StopKeeps DEF ForwarderInv
<1>5. CASE b # {}
  <2>1. /\ todo'[f] = b /\ pc'[f] = "send"
        /\ base'[f] = base[f] /\ last'[f] = last[f]
    BY <1>2, <1>5 DEF TypeOK
  <2>2. BatchOk(f)'
    <3>1. Covers(base[f])'
      BY <1>1, <2>1, CoversKept DEF Covers
    <3>2. \A i \in 1 .. last[f] : Handled(i, Known)'
      BY <1>1, HandledKept DEF BatchOk
    <3>3. b \subseteq Known'
      BY FetchedRows, RowsGrow DEF Known
    <3>4. \A r \in b : \A i \in 1 .. r.id :
            Handled(i, Known)' \/ \E s \in b : s.id = i
      BY <1>1, SelectedInOrder, HandledKept
    <3> QED BY <2>1, <3>1, <3>2, <3>3, <3>4 DEF BatchOk
  <2>3. ASSUME NEW g \in Thread, g # f PROVE BatchOk(g)'
    BY <1>1, <1>2, <1>5, <2>3, BatchKept DEF TypeOK
  <2> QED BY <1>3, <2>2, <2>3 DEF ForwarderInv
<1> QED BY <1>4, <1>5

\* Sending the first of the rows keeps the invariant.
LEMMA SendCovers ==
  ASSUME TypeOK, ForwarderInv, [Next]_vars, NEW f \in Thread, Send(f)
  PROVE  ForwarderInv'
<1>1. \A g \in Thread : BatchOk(g)
  BY DEF ForwarderInv
<1>2. PICK r \in todo[f] : /\ \A s \in todo[f] : r.id <= s.id
                           /\ delivered' = delivered \cup {r}
                           /\ todo' = [todo EXCEPT ![f] = @ \ {r}]
                           /\ last' = [last EXCEPT ![f] = r.id]
  BY DEF Send, IsNext
<1>3. /\ todo'[f] = todo[f] \ {r} /\ last'[f] = r.id
      /\ base'[f] = base[f] /\ pc'[f] = "send" /\ r \in Known /\ r \in Known'
      /\ r.id \in Nat /\ \A s \in todo[f] : s.id \in Nat
  BY <1>1, <1>2, RowsGrow DEF Send, TypeOK, BatchOk, Row
<1>4. Handled(r.id, Known)'
  BY <1>2, <1>3 DEF Handled
<1>5. BatchOk(f)'
  <2>1. Covers(base[f])'
    BY <1>1, <1>3, CoversKept DEF Covers
  <2>2. ASSUME NEW i \in 1 .. r.id PROVE Handled(i, Known)'
    <3>1. Handled(i, Known) \/ \E s \in todo[f] : s.id = i
      BY <1>1 DEF BatchOk
    <3>2. ASSUME NEW s \in todo[f], s.id = i PROVE i = r.id
      BY <1>2, <1>3, <3>2
    <3> QED BY <1>4, <3>1, <3>2, HandledKept
  <2>3. todo[f] \ {r} \subseteq Known'
    BY <1>1, RowsGrow DEF BatchOk
  <2>4. ASSUME NEW t \in todo[f] \ {r}, NEW i \in 1 .. t.id
        PROVE  Handled(i, Known)' \/ \E s \in todo[f] \ {r} : s.id = i
    <3>1. Handled(i, Known) \/ \E s \in todo[f] : s.id = i
      BY <1>1 DEF BatchOk
    <3> QED BY <1>4, <3>1, HandledKept
  <2> QED BY <1>3, <2>1, <2>2, <2>3, <2>4 DEF BatchOk
<1>6. ASSUME NEW g \in Thread, g # f PROVE BatchOk(g)'
  BY <1>1, <1>2, <1>6, BatchKept DEF Send, TypeOK
<1>7. CursorCovers'
  BY CursorKept DEF Send, ForwarderInv
<1> QED BY <1>5, <1>6, <1>7 DEF ForwarderInv

\* The cursor a thread writes back covers: no transaction is under way then,
\* so what is known is settled.
LEMMA SaveCovers ==
  ASSUME TypeOK, ForwarderInv, [Next]_vars, NEW f \in Thread, Save(f)
  PROVE  ForwarderInv'
<1>1. \A g \in Thread : BatchOk(g)
  BY DEF ForwarderInv
<1>2. CursorCovers'
  <2>1. CASE LastOk(f) > base[f]
    <3>1. open = <<>> /\ cursor' = last[f]
      BY <2>1 DEF Save, LastOk
    <3>2. Known = Settled
      BY <3>1 DEF Known, Settled, OpenRows
    <3>3. \A i \in 1 .. last[f] : Handled(i, Settled)'
      BY <1>1, <3>2, HandledKept DEF BatchOk
    <3> QED BY <3>1, <3>3 DEF CursorCovers, Handled, Settled
  <2>2. CASE ~(LastOk(f) > base[f])
    BY <2>2, CursorKept DEF Save, ForwarderInv
  <2> QED BY <2>1, <2>2
<1> QED BY <1>1, <1>2, StopKeeps DEF Save, ForwarderInv

\* Every step of a forwarding thread keeps the invariant.
LEMMA ThreadCovers ==
  ASSUME TypeOK, ForwarderInv, [Next]_vars, NEW f \in Thread, ThreadStep(f)
  PROVE  ForwarderInv'
<1>1. \A g \in Thread : BatchOk(g)
  BY DEF ForwarderInv
<1>2. CASE Start(f)
  <2>1. CursorCovers'
    BY <1>2, CursorKept DEF Start, ForwarderInv
  <2>2. BatchOk(f)'
    <3>1. /\ base'[f] = cursor /\ todo'[f] = {} /\ last'[f] = 0
      BY <1>1, <1>2 DEF Start, BatchOk, TypeOK
    <3>2. Covers(base[f])'
      BY <3>1, CoversKept DEF Covers, ForwarderInv
    <3> QED BY <3>1, <3>2 DEF BatchOk
  <2>3. ASSUME NEW g \in Thread, g # f PROVE BatchOk(g)'
    BY <1>1, <1>2, <2>3, BatchKept DEF Start, TypeOK
  <2> QED BY <2>1, <2>2, <2>3 DEF ForwarderInv
<1>3. CASE SentAll(f) \/ SendFails(f)
  <2>1. /\ cursor' = cursor /\ UNCHANGED <<base, todo, last>>
        /\ pc' = [pc EXCEPT ![f] = "save"] /\ pc[f] = "send"
    BY <1>3 DEF SentAll, SendFails
  <2>2. CursorCovers'
    BY <2>1, CursorKept DEF ForwarderInv
  <2>3. BatchOk(f)'
    <3>1. Covers(base[f])' /\ pc'[f] = "save"
      BY <1>1, <2>1, CoversKept DEF Covers, TypeOK
    <3>2. \A i \in 1 .. last[f] : Handled(i, Known)'
      BY <1>1, HandledKept DEF BatchOk
    <3>3. todo[f] \subseteq Known'
      BY <1>1, RowsGrow DEF BatchOk
    <3>4. \A r \in todo[f] : \A i \in 1 .. r.id :
            Handled(i, Known)' \/ \E s \in todo[f] : s.id = i
      BY <1>1, HandledKept DEF BatchOk
    <3> QED BY <2>1, <3>1, <3>2, <3>3, <3>4 DEF BatchOk
  <2>4. ASSUME NEW g \in Thread, g # f PROVE BatchOk(g)'
    BY <1>1, <2>1, <2>4, BatchKept DEF TypeOK
  <2> QED BY <2>2, <2>3, <2>4 DEF ForwarderInv
<1>4. CASE SaveFails(f)
  BY <1>1, <1>4, CursorKept, StopKeeps DEF SaveFails, ForwarderInv
<1> QED BY <1>2, <1>3, <1>4, SelectCovers, SendCovers, SaveCovers
        DEF ThreadStep, Proceed

\* The invariant holds in every behaviour.
THEOREM ForwarderInvariant == Spec => []ForwarderInv
<1>1. Init => ForwarderInv
  BY DEF Init, ForwarderInv, CursorCovers, BatchOk, Covers
<1>2. TypeOK /\ ForwarderInv /\ [Next]_vars => ForwarderInv'
  <2> SUFFICES ASSUME TypeOK, ForwarderInv, [Next]_vars PROVE ForwarderInv'
    OBVIOUS
  <2>1. ASSUME \/ UNCHANGED vars \/ InsertAgain \/ Commit \/ Rollback
               \/ \E e \in Event : Insert(e)
        PROVE  ForwarderInv'
    <3>1. UNCHANGED <<cursor, threads>>
      BY <2>1 DEF vars, InsertAgain, Commit, Rollback, Insert, threads
    <3> QED BY <3>1, CursorKept, BatchKept DEF ForwarderInv, threads
  <2>2. CASE Crash
    <3>1. CursorCovers'
      BY <2>2, CursorKept DEF Crash, ForwarderInv
    <3>2. \A f \in Thread : BatchOk(f)'
      BY <2>2, BatchStopped DEF Crash
    <3> QED BY <3>1, <3>2 DEF ForwarderInv
  <2>3. ASSUME NEW f \in Thread, ThreadStep(f) PROVE ForwarderInv'
    BY <2>3, ThreadCovers
  <2> QED BY <2>1, <2>2, <2>3 DEF Next, ThreadStep
<1> QED BY <1>1, <1>2, TypeCorrect, PTL DEF Spec

\* The cursor stands only for ids Umami received or nobody has, for any
\* number of overlapping threads, rollbacks, failures and restarts.
THEOREM CursorAlwaysCovers == Spec => []CursorCovers
<1>1. ForwarderInv => CursorCovers
  BY DEF ForwarderInv
<1> QED BY <1>1, ForwarderInvariant, PTL

----------------------------------------------------------------------------
(* What is sent twice.  As long as no threads have overlapped and nothing  *)
(* failed, the one thread under way goes on from the cursor, holds rows    *)
(* with ids of their own beyond all it sent, and nothing was delivered     *)
(* that is not behind the cursor or behind that thread.                    *)

Alone == \A f, g \in Thread : pc[f] # "idle" /\ pc[g] # "idle" => f = g

Ahead(f) ==
  /\ pc[f] # "idle" => base[f] = cursor
  /\ \A r \in todo[f] : /\ r.id > cursor /\ r.id > last[f]
                        /\ \A s \in todo[f] : s.id = r.id => s = r

Behind == \A r \in delivered :
            r.id <= cursor \/ \E f \in Thread : r.id <= last[f]

OnceInv ==
  ~overlapped /\ failures = 0 =>
    Alone /\ (\A f \in Thread : Ahead(f)) /\ Behind

\* Two visible rows have different ids.
LEMMA IdsDiffer ==
  ASSUME TypeOK, NEW r \in CommittedRows \cup OpenRows,
         NEW s \in CommittedRows \cup OpenRows, r.id = s.id
  PROVE  r = s
<1>1. /\ DOMAIN committed = 1 .. Len(committed) /\ Len(committed) \in Nat
      /\ DOMAIN open = 1 .. Len(open) /\ Len(open) \in Nat
  BY DEF TypeOK
<1>2. ASSUME NEW x \in CommittedRows
      PROVE  x.id <= Len(committed) /\ x = [id |-> x.id, event |-> committed[x.id]]
  BY <1>1 DEF CommittedRows
<1>3. ASSUME NEW x \in OpenRows
      PROVE  /\ x.id > Len(committed)
             /\ x = [id |-> x.id, event |-> open[x.id - Len(committed)]]
  <2>1. PICK i \in DOMAIN open : x = [id |-> Len(committed) + i, event |-> open[i]]
    BY DEF OpenRows
  <2>2. x.id = Len(committed) + i /\ x.event = open[i] /\ i \in Nat \ {0}
    BY <1>1, <2>1
  <2>3. x.id - Len(committed) = i /\ x.id > Len(committed)
    BY <1>1, <2>2
  <2> QED BY <2>1, <2>2, <2>3
<1>4. r.id \in Nat /\ s.id \in Nat
  BY TableRows DEF Row
<1>5. CASE r \in CommittedRows /\ s \in CommittedRows
  BY <1>2, <1>5
<1>6. CASE r \in OpenRows /\ s \in OpenRows
  BY <1>3, <1>6
<1>7. ~(r \in CommittedRows /\ s \in OpenRows)
      /\ ~(r \in OpenRows /\ s \in CommittedRows)
  BY <1>1, <1>2, <1>3, <1>4
<1> QED BY <1>5, <1>6, <1>7

\* The steps that leave the forwarding alone.
LEMMA OnceKept ==
  ASSUME OnceInv, UNCHANGED <<cursor, delivered, threads, failures>>
  PROVE  OnceInv'
BY DEF OnceInv, Alone, Ahead, Behind, threads

\* A thread of its own is started on the cursor.
LEMMA StartOnce ==
  ASSUME TypeOK, ForwarderInv, OnceInv, NEW f \in Thread, Start(f)
  PROVE  OnceInv'
<1> SUFFICES ASSUME ~overlapped', failures' = 0
             PROVE  Alone' /\ (\A g \in Thread : Ahead(g)') /\ Behind'
  BY DEF OnceInv
<1>1. /\ ~overlapped /\ failures = 0 /\ \A g \in Thread : pc[g] = "idle"
      /\ UNCHANGED <<cursor, delivered, todo, last>>
  BY DEF Start, bounds, TypeOK
<1>2. /\ pc'[f] = "select" /\ base'[f] = cursor
      /\ \A g \in Thread \ {f} : pc'[g] = "idle"
  BY <1>1 DEF Start, TypeOK
<1>3. \A g \in Thread : todo[g] = {}
  BY <1>1 DEF ForwarderInv, BatchOk
<1>4. Alone'
  BY <1>2 DEF Alone
<1>5. \A g \in Thread : Ahead(g)'
  BY <1>1, <1>2, <1>3 DEF Ahead
<1>6. Behind'
  BY <1>1 DEF OnceInv, Behind
<1> QED BY <1>4, <1>5, <1>6

\* It selects rows beyond the cursor.
LEMMA SelectOnce ==
  ASSUME TypeOK, ForwarderInv, OnceInv, NEW f \in Thread, Select(f)
  PROVE  OnceInv'
<1> SUFFICES ASSUME ~overlapped', failures' = 0
             PROVE  Alone' /\ (\A g \in Thread : Ahead(g)') /\ Behind'
  BY DEF OnceInv
<1>1. PICK b \in Fetched(f) :
        IF b = {} THEN Stop(f)
        ELSE /\ todo' = [todo EXCEPT ![f] = b]
             /\ pc' = [pc EXCEPT ![f] = "send"]
             /\ UNCHANGED <<base, last, overlapped>>
  BY DEF Select
<1>2. ~overlapped /\ failures = 0 /\ UNCHANGED <<cursor, delivered>>
      /\ pc[f] = "select"
  BY <1>1 DEF Select, bounds, Stop
<1>3. Alone /\ (\A g \in Thread : Ahead(g)) /\ Behind
  BY <1>2 DEF OnceInv
<1>4. todo[f] = {} /\ last[f] = 0 /\ base[f] = cursor /\ cursor \in Nat
  BY <1>2, <1>3 DEF ForwarderInv, BatchOk, Ahead, TypeOK
<1>5. /\ \A g \in Thread \ {f} : /\ pc'[g] = pc[g] /\ base'[g] = base[g]
                                 /\ todo'[g] = todo[g] /\ last'[g] = last[g]
      /\ last'[f] = 0
  BY <1>1, <1>4 DEF Stop, TypeOK
<1>6. Alone'
  BY <1>2, <1>3, <1>5 DEF Alone
<1>7. \A r \in b : /\ r.id > cursor /\ r.id \in Nat
                   /\ \A s \in b : s.id = r.id => s = r
  <2>1. b \subseteq CommittedRows \cup OpenRows
    BY FetchedRows
  <2>2. b \subseteq RowsFrom(cursor + 1)
    BY <1>4 DEF Fetched, Firsts
  <2> QED BY <1>4, <2>1, <2>2, IdsDiffer, TableRows DEF RowsFrom, Row
<1>8. Ahead(f)'
  <2>1. todo'[f] = b
    BY <1>1 DEF Stop, TypeOK
  <2>2. pc'[f] # "idle" => base'[f] = cursor
    BY <1>1, <1>4 DEF Stop, TypeOK
  <2>3. \A r \in b : r.id > 0
    BY <1>4, <1>7
  <2> QED BY <1>2, <1>5, <1>7, <2>1, <2>2, <2>3 DEF Ahead
<1>9. \A g \in Thread \ {f} : Ahead(g)'
  BY <1>2, <1>3, <1>5 DEF Ahead
<1>10. Behind'
  <2>1. \A g \in Thread : last'[g] = last[g]
    BY <1>4, <1>5
  <2> QED BY <1>2, <1>3, <2>1 DEF Behind
<1> QED BY <1>6, <1>8, <1>9, <1>10

\* It sends the first of them and is beyond it.
LEMMA SendOnce ==
  ASSUME TypeOK, ForwarderInv, OnceInv, NEW f \in Thread, Send(f)
  PROVE  OnceInv'
<1> SUFFICES ASSUME ~overlapped, failures = 0
             PROVE  Alone' /\ (\A g \in Thread : Ahead(g)') /\ Behind'
  BY DEF OnceInv, Send, bounds
<1>1. PICK r \in todo[f] : /\ \A s \in todo[f] : r.id <= s.id
                           /\ delivered' = delivered \cup {r}
                           /\ todo' = [todo EXCEPT ![f] = @ \ {r}]
                           /\ last' = [last EXCEPT ![f] = r.id]
  BY DEF Send, IsNext
<1>2. Alone /\ (\A g \in Thread : Ahead(g)) /\ Behind
  BY DEF OnceInv
<1>3. UNCHANGED <<pc, base, cursor>>
  BY DEF Send
<1>4. /\ todo'[f] = todo[f] \ {r} /\ last'[f] = r.id /\ r.id \in Nat
      /\ last[f] \in Nat
      /\ \A g \in Thread \ {f} : todo'[g] = todo[g] /\ last'[g] = last[g]
      /\ \A s \in todo[f] : s.id \in Nat
      /\ \A s \in delivered : s.id \in Nat
  BY <1>1 DEF TypeOK, Row
<1>5. Alone'
  BY <1>2, <1>3 DEF Alone
<1>6. Ahead(f)'
  BY <1>1, <1>2, <1>3, <1>4 DEF Ahead
<1>7. \A g \in Thread \ {f} : Ahead(g)'
  BY <1>2, <1>3, <1>4 DEF Ahead
<1>8. Behind'
  <2>1. last[f] <= last'[f]
    BY <1>2, <1>4 DEF Ahead
  <2>2. ASSUME NEW s \in delivered
        PROVE  s.id <= cursor \/ \E g \in Thread : s.id <= last'[g]
    <3>1. CASE s.id <= last[f]
      BY <1>4, <2>1, <3>1
    <3> QED BY <1>2, <1>4, <3>1 DEF Behind
  <2>3. \E g \in Thread : r.id <= last'[g]
    BY <1>4
  <2> QED BY <1>1, <1>3, <2>2, <2>3 DEF Behind
<1> QED BY <1>5, <1>6, <1>7, <1>8

\* At its end the cursor takes its place.
LEMMA SaveOnce ==
  ASSUME TypeOK, ForwarderInv, OnceInv, NEW f \in Thread, Save(f)
  PROVE  OnceInv'
<1> SUFFICES ASSUME ~overlapped, failures = 0
             PROVE  Alone' /\ (\A g \in Thread : Ahead(g)') /\ Behind'
  BY DEF OnceInv, Save, Stop, bounds
<1>1. Alone /\ (\A g \in Thread : Ahead(g)) /\ Behind
  BY DEF OnceInv
<1>2. \A g \in Thread \ {f} : pc[g] = "idle" /\ todo[g] = {} /\ last[g] = 0
  BY <1>1 DEF Save, Alone, ForwarderInv, BatchOk
<1>3. \A g \in Thread : pc'[g] = "idle" /\ todo'[g] = {}
  BY <1>2 DEF Save, Stop, TypeOK
<1>4. base[f] = cursor /\ cursor \in Nat /\ last[f] \in Nat
      /\ delivered' = delivered /\ \A r \in delivered : r.id \in Nat \ {0}
  BY <1>1 DEF Save, Ahead, TypeOK, Row
<1>5. \A r \in delivered : r.id <= cursor \/ r.id <= last[f]
  <2>1. \A r \in delivered, g \in Thread \ {f} : ~(r.id <= last[g])
    BY <1>2, <1>4
  <2> QED BY <1>1, <2>1 DEF Behind
<1>6. cursor' \in Nat /\ cursor <= cursor' /\ last[f] <= cursor'
  BY <1>4 DEF Save, LastOk
<1>7. Behind'
  BY <1>4, <1>5, <1>6 DEF Behind
<1> QED BY <1>3, <1>7 DEF Alone, Ahead

\* The invariant holds in every behaviour.
THEOREM OnceInvariant == Spec => []OnceInv
<1>1. Init => OnceInv
  BY DEF Init, OnceInv, Alone, Ahead, Behind
<1>2. TypeOK /\ ForwarderInv /\ OnceInv /\ [Next]_vars => OnceInv'
  <2> SUFFICES ASSUME TypeOK, ForwarderInv, OnceInv, [Next]_vars
               PROVE  OnceInv'
    OBVIOUS
  <2>1. CASE \/ UNCHANGED vars \/ InsertAgain \/ Commit \/ Rollback
             \/ \E e \in Event : Insert(e)
    <3>1. UNCHANGED <<cursor, delivered, threads, failures>>
      BY <2>1 DEF vars, InsertAgain, Commit, Rollback, Insert, threads, bounds
    <3> QED BY <3>1, OnceKept
  <2>2. ASSUME NEW f \in Thread, Crash \/ SendFails(f) \/ SaveFails(f)
        PROVE  OnceInv'
    BY <2>2 DEF Crash, SendFails, SaveFails, OnceInv, TypeOK
  <2>3. ASSUME NEW f \in Thread, SentAll(f) PROVE OnceInv'
    <3>1. /\ UNCHANGED <<cursor, delivered, base, todo, last, overlapped, failures>>
          /\ pc[f] = "send" /\ pc' = [pc EXCEPT ![f] = "save"]
      BY <2>3 DEF SentAll, bounds
    <3>2. \A g \in Thread : pc'[g] # "idle" <=> pc[g] # "idle"
      BY <3>1 DEF TypeOK
    <3> QED BY <3>1, <3>2 DEF OnceInv, Alone, Ahead, Behind
  <2>4. CASE Crash
    BY <2>4 DEF Crash, OnceInv, TypeOK
  <2> QED BY <2>1, <2>2, <2>3, <2>4, StartOnce, SelectOnce, SendOnce, SaveOnce
          DEF Next, Proceed
<1> QED BY <1>1, <1>2, TypeCorrect, ForwarderInvariant, PTL DEF Spec

\* Without overlap and failures no row is sent twice, whatever is rolled back
\* and however often threads are started.
THEOREM RowsAreSentOnce == Spec => SendsOnce
<1> DEFINE Once == \A f \in Thread :
                     pc'[f] = "send" /\ ~overlapped /\ failures = 0 =>
                       \A r \in todo[f] \ todo'[f] : r \notin delivered
<1>1. TypeOK /\ ForwarderInv /\ OnceInv => \A f \in Thread :
        ~overlapped /\ failures = 0 => \A r \in todo[f] : r \notin delivered
  <2> SUFFICES ASSUME TypeOK, ForwarderInv, OnceInv, ~overlapped, failures = 0,
                      NEW f \in Thread, NEW r \in todo[f], r \in delivered
               PROVE  FALSE
    OBVIOUS
  <2>1. Alone /\ Ahead(f) /\ Behind
    BY DEF OnceInv
  <2>2. r.id \in Nat \ {0} /\ cursor \in Nat /\ last[f] \in Nat
    BY DEF TypeOK, Row
  <2>3. PICK g \in Thread : r.id <= last[g]
    BY <2>1, <2>2 DEF Ahead, Behind
  <2>4. pc[f] # "idle"
    BY DEF ForwarderInv, BatchOk
  <2>5. g # f => last[g] = 0
    BY <2>1, <2>4 DEF Alone, ForwarderInv, BatchOk
  <2> QED BY <2>1, <2>2, <2>3, <2>5 DEF Ahead
<1>2. TypeOK /\ ForwarderInv /\ OnceInv /\ [Next]_vars => [Once]_vars
  BY <1>1
<1> QED BY <1>2, TypeCorrect, ForwarderInvariant, OnceInvariant, PTL
        DEF Spec, SendsOnce
=============================================================================
