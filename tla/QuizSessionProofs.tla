------------------------- MODULE QuizSessionProofs -------------------------
(***************************************************************************)
(* Theorems about QuizSession for every set of workers and dishes and      *)
(* every swap limit, with their proofs.                                    *)
(***************************************************************************)
EXTENDS QuizSession, FiniteSetTheorems, SequenceTheorems, TLAPS

\* Answering a request keeps the types of what Respond changes.
LEMMA RespondTyped ==
  ASSUME TypeOK, NEW w \in Worker, NEW r \in Response, Respond(w, r)
  PROVE  /\ pc' \in [Worker -> Stage]
         /\ snap' \in [Worker -> Snapshot]
         /\ reply' \in [Worker -> Response]
         /\ raced' \subseteq Carrying
         /\ failures' \in Nat
BY DEF TypeOK, Respond, Stage, Snapshot, Blank, Entry, Source, NoCount

\* Moving on to a stage keeps the types of what Goto changes.
LEMMA GotoTyped ==
  ASSUME TypeOK, NEW w \in Worker, NEW s \in Stage, Goto(w, s)
  PROVE  /\ pc' \in [Worker -> Stage]
         /\ reply' \in [Worker -> Response]
         /\ raced' \subseteq Carrying
         /\ failures' \in Nat
BY DEF TypeOK, Goto

\* Responses without a dish are responses.
LEMMA SayTyped ==
  \A kind \in ReplyKind :
    Say(kind) \in Response /\ \A n \in Int : SayLeft(kind, n) \in Response
BY DEF Say, SayLeft, Response, NoCount

\* Counting one more event keeps the type of the event counters.
LEMMA LoggedTyped ==
  ASSUME TypeOK, NEW type \in EventType
  PROVE  Logged(type) \in [EventType -> Nat]
BY DEF TypeOK, Logged

\* The defaults of a new row have the types of its columns.
LEMMA NewRowTyped == NewRow \in Row
BY DEF NewRow, Row, Entry

\* What a fresh worker carries, and its last response.
LEMMA FreshTyped == Blank \in Snapshot /\ Say("none") \in Response
BY SayTyped DEF Blank, Snapshot, NoCount, Entry, Source, ReplyKind

\* The initial state has the types.
LEMMA InitTyped == Init => TypeOK
<1> SUFFICES ASSUME Init PROVE TypeOK
  OBVIOUS
<1>1. recommendation \in Seq(Recommendation)
  BY DEF Init
<1>2. events \in [EventType -> Nat] /\ pc \in [Worker -> Stage]
  BY DEF Init, Stage
<1>3. snap \in [Worker -> Snapshot] /\ reply \in [Worker -> Response]
  BY FreshTyped DEF Init
<1> QED BY <1>1, <1>2, <1>3, NewRowTyped DEF Init, TypeOK

\* Every request's first stage keeps the types.
LEMMA BeginTyped ==
  ASSUME TypeOK, NEW w \in Worker, Begin(w)
  PROVE  TypeOK'
<1> USE SessionAssumption
<1>1. CASE StartCreate(w)
  BY <1>1, GotoTyped, NewRowTyped DEF StartCreate, Receive, TypeOK, Stage
<1>2. CASE NextRead(w)
  BY <1>2, GotoTyped, RespondTyped, SayTyped
     DEF NextRead, Receive, TypeOK, Stage, ReplyKind, tables
<1>3. CASE AnswerCheck(w)
  BY <1>3, GotoTyped, RespondTyped, SayTyped
     DEF AnswerCheck, Receive, TypeOK, Stage, ReplyKind, tables
<1>4. CASE FinalizeCheck(w)
  BY <1>4, GotoTyped, RespondTyped, SayTyped
     DEF FinalizeCheck, Receive, TypeOK, Stage, ReplyKind, tables
<1>5. CASE SwapCheck(w)
  BY <1>5, GotoTyped, RespondTyped, SayTyped
     DEF SwapCheck, Receive, TypeOK, Stage, ReplyKind, tables
<1>6. CASE Accept(w)
  <2>1. Logged("accept") \in [EventType -> Nat]
    BY LoggedTyped DEF EventType
  <2>2. Say("accepted") \in Response
    BY SayTyped DEF ReplyKind
  <2> QED BY <1>6, <2>1, <2>2, RespondTyped DEF Accept, Receive, TypeOK
<1>7. CASE Clear(w)
  <2>1. Say("cleared") \in Response
    BY SayTyped DEF ReplyKind
  <2> QED BY <1>7, <2>1, RespondTyped, NewRowTyped DEF Clear, Receive, TypeOK
<1> QED BY <1>1, <1>2, <1>3, <1>4, <1>5, <1>6, <1>7 DEF Begin

\* Every later stage of a handler keeps the types.
LEMMA ProceedTyped ==
  ASSUME TypeOK, NEW w \in Worker, Proceed(w)
  PROVE  TypeOK'
<1> USE SessionAssumption
<1>1. CASE StartReread(w)
  BY <1>1, GotoTyped, RespondTyped, SayTyped
     DEF StartReread, TypeOK, Stage, ReplyKind, tables
<1>2. CASE StartRegister(w)
  <2>1. Logged("session_start") \in [EventType -> Nat]
    BY LoggedTyped DEF EventType
  <2>2. Say("started") \in Response
    BY SayTyped DEF ReplyKind
  <2> QED BY <1>2, <2>1, <2>2, RespondTyped
          DEF StartRegister, TypeOK, Ensured
<1>3. CASE NextStash(w)
  <2>1. Say("question") \in Response
    BY SayTyped DEF ReplyKind
  <2>2. row' \in Row
    BY <1>3 DEF NextStash, TypeOK, Row
  <2> QED BY <1>3, <2>1, <2>2, RespondTyped DEF NextStash, TypeOK
<1>4. CASE AnswerRead(w)
  <2>1. CASE ~Found
    BY <1>4, <2>1, RespondTyped, SayTyped
       DEF AnswerRead, TypeOK, ReplyKind, tables
  <2>2. CASE Found
    <3> DEFINE read == [snap[w] EXCEPT
                          !.log = row.question_log,
                          !.step = row.step_index,
                          !.source = IF row.pending_q = "null"
                                     THEN "llm" ELSE row.pending_q]
    <3>1. read \in Snapshot
      BY DEF TypeOK, Snapshot, Row, Source
    <3>2. snap' = [snap EXCEPT ![w] = read] /\ UNCHANGED tables
      BY <1>4, <2>2 DEF AnswerRead
    <3>3. snap' \in [Worker -> Snapshot]
      BY <3>1, <3>2 DEF TypeOK
    <3> QED BY <1>4, <2>2, <3>3, GotoTyped
            DEF AnswerRead, TypeOK, Stage, tables
  <2> QED BY <2>1, <2>2
<1>5. CASE AnswerCommit(w)
  <2>1. row' \in Row
    <3> DEFINE longer == Append(snap[w].log, Answered(w))
    <3>1. Answered(w) \in Entry /\ snap[w].log \in Seq(Entry)
      BY DEF Answered, TypeOK, Snapshot, Entry
    <3>2. longer \in Seq(Entry)
      BY <3>1
    <3>3. CASE Found
      <4>1. row.step_index + 1 \in Nat /\ row \in Row
        BY DEF TypeOK, Row
      <4>2. row' = [row EXCEPT !.question_log = longer,
                               !.step_index = row.step_index + 1,
                               !.pending_q = "null"]
        BY <1>5, <3>3 DEF AnswerCommit, AnsweredRow
      <4> HIDE DEF longer
      <4> QED BY <3>2, <4>1, <4>2 DEF Row
    <3>4. CASE ~Found
      BY <1>5, <3>4 DEF AnswerCommit, TypeOK
    <3> QED BY <3>3, <3>4
  <2> QED BY <1>5, <2>1, GotoTyped DEF AnswerCommit, TypeOK, Stage
<1>6. CASE AnswerReread(w)
  BY <1>6, GotoTyped, RespondTyped, SayTyped
     DEF AnswerReread, TypeOK, Stage, ReplyKind, tables
<1>7. CASE AnswerEvent(w)
  <2>1. Logged("answer") \in [EventType -> Nat]
    BY LoggedTyped DEF EventType
  <2>2. Say("answered") \in Response
    BY SayTyped DEF ReplyKind
  <2> QED BY <1>7, <2>1, <2>2, RespondTyped DEF AnswerEvent, TypeOK
<1>8. CASE FinalizeRead(w)
  <2>1. CASE ~Found
    BY <1>8, <2>1, RespondTyped, SayTyped
       DEF FinalizeRead, TypeOK, ReplyKind, tables
  <2>2. CASE Found
    <3>1. snap' \in [Worker -> Snapshot]
      <4>1. \/ snap' = [snap EXCEPT ![w] = [@ EXCEPT !.dish = row.result]]
            \/ snap' = [snap EXCEPT ![w] = [@ EXCEPT !.log = row.question_log]]
        BY <1>8, <2>2 DEF FinalizeRead
      <4>2. /\ [snap[w] EXCEPT !.dish = row.result] \in Snapshot
            /\ [snap[w] EXCEPT !.log = row.question_log] \in Snapshot
        BY DEF TypeOK, Snapshot, Row
      <4> QED BY <4>1, <4>2 DEF TypeOK
    <3> QED BY <1>8, <2>2, <3>1, GotoTyped
            DEF FinalizeRead, TypeOK, Stage, tables
  <2> QED BY <2>1, <2>2
<1>9. CASE FinalizeCommit(w)
  <2>1. PICK d \in Dish :
          /\ row' = IF Found THEN [row EXCEPT !.state = "done", !.result = d]
                             ELSE row
          /\ recommendation' = Append(recommendation,
                                 [name |-> d, question_log |-> snap[w].log])
          /\ snap' = [snap EXCEPT ![w].dish = d]
    BY <1>9 DEF FinalizeCommit, Picks, Recommended
  <2>2. row' \in Row
    BY <2>1 DEF TypeOK, Row
  <2>3. recommendation' \in Seq(Recommendation)
    <3>1. [name |-> d, question_log |-> snap[w].log] \in Recommendation
      BY DEF TypeOK, Snapshot, Recommendation
    <3> QED BY <2>1, <3>1 DEF TypeOK
  <2>4. snap' \in [Worker -> Snapshot]
    BY <2>1 DEF TypeOK, Snapshot
  <2> QED BY <1>9, <2>2, <2>3, <2>4, GotoTyped
          DEF FinalizeCommit, TypeOK, Stage
<1>10. CASE FinalizeTally(w)
  <2> DEFINE left == IF Found THEN Remaining(row.swap_count) ELSE NoCount
  <2>1. left \in Int
    BY DEF TypeOK, Row, Remaining, NoCount
  <2>2. [snap[w] EXCEPT !.left = left] \in Snapshot
    BY <2>1 DEF TypeOK, Snapshot
  <2>3. snap' = [snap EXCEPT ![w] = [@ EXCEPT !.left = left]]
    BY <1>10 DEF FinalizeTally
  <2>4. snap' \in [Worker -> Snapshot]
    BY <2>2, <2>3 DEF TypeOK
  <2> QED BY <1>10, <2>4, GotoTyped DEF FinalizeTally, TypeOK, Stage, tables
<1>11. CASE FinalizeEvent(w)
  <2>1. events' \in [EventType -> Nat]
    BY <1>11 DEF FinalizeEvent, Served, TypeOK, EventType
  <2>2. [kind |-> "result", dish |-> snap[w].dish, left |-> snap[w].left]
           \in Response
    BY DEF TypeOK, Snapshot, Response, ReplyKind
  <2> QED BY <1>11, <2>1, <2>2, RespondTyped
          DEF FinalizeEvent, TypeOK, Ensured
<1>12. CASE Swapped(w)
  <2>1. Logged("swap") \in [EventType -> Nat]
    BY LoggedTyped DEF EventType
  <2>2. row' \in Row
    <3>1. row.swap_count + 1 \in Nat /\ row \in Row
      BY DEF TypeOK, Row
    <3>2. row' = [row EXCEPT !.result = NoDish, !.state = "answering",
                             !.swap_count = row.swap_count + 1]
      BY <1>12 DEF Swapped, SwappedRow
    <3> QED BY <3>1, <3>2 DEF Row
  <2>3. MaxSwaps - (row.swap_count + 1) \in Int
    BY DEF TypeOK, Row
  <2>4. SayLeft("swapped", MaxSwaps - (row.swap_count + 1)) \in Response
    BY <2>3, SayTyped DEF ReplyKind
  <2> QED BY <1>12, <2>1, <2>2, <2>4, RespondTyped DEF Swapped, TypeOK
<1>13. CASE SwapPending(w)
  <2>1. SayLeft("pending", MaxSwaps) \in Response
    BY SayTyped DEF ReplyKind
  <2> QED BY <1>13, <2>1, RespondTyped DEF SwapPending, TypeOK, tables
<1>14. CASE SwapRefused(w)
  BY <1>14, GotoTyped DEF SwapRefused, TypeOK, Stage, tables
<1>15. CASE SwapExhausted(w)
  <2>1. Logged("swap_exhausted") \in [EventType -> Nat]
    BY LoggedTyped DEF EventType
  <2>2. SayLeft("exhausted", 0) \in Response
    BY SayTyped DEF ReplyKind
  <2> QED BY <1>15, <2>1, <2>2, RespondTyped DEF SwapExhausted, TypeOK
<1> QED BY <1>1, <1>2, <1>3, <1>4, <1>5, <1>6, <1>7, <1>8, <1>9, <1>10,
           <1>11, <1>12, <1>13, <1>14, <1>15 DEF Proceed

\* Losing a request keeps the types.
LEMMA LoseTyped ==
  ASSUME TypeOK, NEW w \in Worker, Lose(w)
  PROVE  TypeOK'
<1>1. Say("lost") \in Response
  BY SayTyped DEF ReplyKind
<1>2. /\ pc' \in [Worker -> Stage]
      /\ snap' \in [Worker -> Snapshot]
      /\ reply' \in [Worker -> Response]
  BY <1>1, FreshTyped DEF Lose, TypeOK, Stage
<1> QED BY <1>2 DEF Lose, TypeOK, tables

\* Every variable keeps its type, whatever the requests and failures.
THEOREM TypeCorrect == Spec => []TypeOK
<1>1. TypeOK /\ [Next]_vars => TypeOK'
  <2> SUFFICES ASSUME TypeOK, [Next]_vars PROVE TypeOK'
    OBVIOUS
  <2>1. CASE UNCHANGED vars
    BY <2>1 DEF TypeOK, vars
  <2>2. CASE Rest
    BY <2>2 DEF Rest, TypeOK, vars
  <2>3. ASSUME NEW w \in Worker, Begin(w) \/ Proceed(w) \/ Lose(w)
        PROVE  TypeOK'
    BY <2>3, BeginTyped, ProceedTyped, LoseTyped
  <2> QED BY <2>1, <2>2, <2>3 DEF Next
<1> QED BY <1>1, InitTyped, PTL DEF Spec

----------------------------------------------------------------------------
(* The rounds of a session.  SwapBudget, ResultOnRecord and                *)
(* EveryRoundRecommended speak of a row that is present; what makes them   *)
(* inductive is that a row that is not there yet starts from its defaults  *)
(* and from an empty count of swap events.                                 *)

RoundsInv ==
  /\ exists # "present" => row = NewRow
  /\ exists = "absent" => events["swap"] = 0
  /\ SwapBudget
  /\ ResultOnRecord
  /\ EveryRoundRecommended

\* A step that leaves the row, the recommendations and the count of swap
\* events alone cannot break the invariant.
LEMMA RoundsUntouched ==
  ASSUME TypeOK, RoundsInv, UNCHANGED <<exists, row, recommendation>>,
         events'["swap"] = events["swap"]
  PROVE  RoundsInv'
BY DEF RoundsInv, SwapBudget, ResultOnRecord, EveryRoundRecommended,
       DecidedRounds, Found

\* An event of another type leaves the count of swap events alone.
LEMMA OtherEvent ==
  ASSUME TypeOK, NEW type \in EventType \ {"swap"}, events' = Logged(type)
  PROVE  events'["swap"] = events["swap"]
BY DEF TypeOK, Logged, EventType

\* No request's first stage breaks the invariant.
LEMMA BeginRounds ==
  ASSUME TypeOK, RoundsInv, NEW w \in Worker, Begin(w)
  PROVE  RoundsInv'
<1>1. CASE StartCreate(w)
  <2>1. /\ exists = "absent" /\ exists' = "present"
        /\ row' = NewRow /\ UNCHANGED <<recommendation, events>>
    BY <1>1 DEF StartCreate
  <2>2. Len(recommendation) \in Nat
    BY DEF TypeOK
  <2> QED BY <2>1, <2>2, SessionAssumption
          DEF RoundsInv, SwapBudget, ResultOnRecord, EveryRoundRecommended,
              DecidedRounds, Found, NewRow
<1>2. CASE NextRead(w) \/ AnswerCheck(w) \/ FinalizeCheck(w) \/ SwapCheck(w)
  BY <1>2, RoundsUntouched
     DEF NextRead, AnswerCheck, FinalizeCheck, SwapCheck, tables
<1>3. CASE Accept(w)
  <2>1. events'["swap"] = events["swap"]
    BY <1>3, OtherEvent DEF Accept, EventType
  <2> QED BY <1>3, <2>1, RoundsUntouched DEF Accept
<1>4. CASE Clear(w)
  <2>1. exists' # "present" /\ row' = NewRow /\ UNCHANGED events
    BY <1>4 DEF Clear, Found
  <2>2. exists' = "absent" => exists = "absent"
    BY <1>4 DEF Clear
  <2> QED BY <2>1, <2>2
          DEF RoundsInv, SwapBudget, ResultOnRecord, EveryRoundRecommended,
              Found
<1> QED BY <1>1, <1>2, <1>3, <1>4 DEF Begin

\* A finalize that commits decides the current round, or decides it again.
LEMMA FinalizeCommitRounds ==
  ASSUME TypeOK, RoundsInv, NEW w \in Worker, FinalizeCommit(w)
  PROVE  RoundsInv'
<1>1. PICK d \in Dish :
        /\ row' = IF Found THEN [row EXCEPT !.state = "done", !.result = d]
                           ELSE row
        /\ recommendation' = Append(recommendation,
                               [name |-> d, question_log |-> snap[w].log])
  BY DEF FinalizeCommit, Picks, Recommended
<1>2. UNCHANGED <<exists, events>>
  BY DEF FinalizeCommit
<1>3. CASE ~Found
  BY <1>1, <1>2, <1>3
     DEF RoundsInv, SwapBudget, ResultOnRecord, EveryRoundRecommended, Found
<1>4. CASE Found
  <2>1. /\ row'.state = "done" /\ row'.result = d
        /\ row'.swap_count = row.swap_count
    BY <1>1, <1>4 DEF TypeOK, Row
  <2>2. /\ Len(recommendation') = Len(recommendation) + 1
        /\ recommendation'[Len(recommendation')].name = d
        /\ recommendation' # <<>>
    BY <1>1 DEF TypeOK
  <2>3. row.swap_count \in Nat /\ Len(recommendation) \in Nat /\ d # NoDish
    BY SessionAssumption DEF TypeOK, Row
  <2>4. Len(recommendation) >= row.swap_count
    BY <1>4, <2>3 DEF RoundsInv, EveryRoundRecommended, DecidedRounds
  <2>5. SwapBudget'
    BY <1>2, <1>4, <2>1 DEF RoundsInv, SwapBudget, Found
  <2>6. ResultOnRecord'
    BY <2>1, <2>2, <2>3 DEF ResultOnRecord
  <2>7. EveryRoundRecommended'
    BY <2>1, <2>2, <2>3, <2>4 DEF EveryRoundRecommended, DecidedRounds
  <2>8. exists' = "present"
    BY <1>2, <1>4 DEF Found
  <2> QED BY <2>5, <2>6, <2>7, <2>8 DEF RoundsInv
<1> QED BY <1>3, <1>4

\* A swap takes back a decided round that is on record, and leaves one more
\* swap event than before.
LEMMA SwappedRounds ==
  ASSUME TypeOK, RoundsInv, NEW w \in Worker, Swapped(w)
  PROVE  RoundsInv'
<1>1. /\ Found /\ row.state = "done" /\ row.swap_count < MaxSwaps
      /\ UNCHANGED <<exists, recommendation>>
      /\ row' = [row EXCEPT !.result = NoDish, !.state = "answering",
                            !.swap_count = row.swap_count + 1]
      /\ events' = Logged("swap")
  BY DEF Swapped, SwappedRow, Swappable
<1>2. /\ row'.state = "answering" /\ row'.result = NoDish
      /\ row'.swap_count = row.swap_count + 1
  BY <1>1 DEF TypeOK, Row
<1>3. events'["swap"] = events["swap"] + 1
  BY <1>1 DEF TypeOK, Logged, EventType
<1>4. row.swap_count \in Nat /\ Len(recommendation) \in Nat
  BY DEF TypeOK, Row
<1>5. SwapBudget'
  BY <1>1, <1>2, <1>3, <1>4, SessionAssumption DEF RoundsInv, SwapBudget
<1>6. ResultOnRecord'
  BY <1>2 DEF ResultOnRecord
<1>7. EveryRoundRecommended'
  BY <1>1, <1>2, <1>4 DEF RoundsInv, EveryRoundRecommended, DecidedRounds
<1>8. exists' = "present"
  BY <1>1 DEF Found
<1> QED BY <1>5, <1>6, <1>7, <1>8 DEF RoundsInv

\* An update of the row that keeps its state, result and swap_count.
LEMMA RoundsKept ==
  ASSUME TypeOK, RoundsInv, UNCHANGED <<exists, recommendation, events>>,
         \/ row' = row
         \/ Found /\ row'.state = row.state /\ row'.result = row.result
                  /\ row'.swap_count = row.swap_count
  PROVE  RoundsInv'
BY DEF RoundsInv, SwapBudget, ResultOnRecord, EveryRoundRecommended,
       DecidedRounds, Found

\* No later stage of a handler breaks the invariant.
LEMMA ProceedRounds ==
  ASSUME TypeOK, RoundsInv, NEW w \in Worker, Proceed(w)
  PROVE  RoundsInv'
<1>1. CASE StartReread(w) \/ AnswerRead(w) \/ AnswerReread(w)
           \/ FinalizeRead(w) \/ FinalizeTally(w) \/ SwapPending(w)
           \/ SwapRefused(w)
  BY <1>1, RoundsUntouched
     DEF StartReread, AnswerRead, AnswerReread, FinalizeRead, FinalizeTally,
         SwapPending, SwapRefused, tables
<1>2. CASE StartRegister(w) \/ AnswerEvent(w) \/ SwapExhausted(w)
  <2>1. events'["swap"] = events["swap"]
    BY <1>2, OtherEvent
       DEF StartRegister, AnswerEvent, SwapExhausted, EventType
  <2> QED BY <1>2, <2>1, RoundsUntouched
          DEF StartRegister, AnswerEvent, SwapExhausted
<1>3. CASE FinalizeEvent(w)
  <2>1. events'["swap"] = events["swap"]
    BY <1>3 DEF FinalizeEvent, Served, TypeOK, EventType
  <2> QED BY <1>3, <2>1, RoundsUntouched DEF FinalizeEvent
<1>4. CASE NextStash(w)
  BY <1>4, RoundsKept DEF NextStash, TypeOK, Row
<1>5. CASE AnswerCommit(w)
  BY <1>5, RoundsKept DEF AnswerCommit, AnsweredRow, TypeOK, Row
<1>6. CASE FinalizeCommit(w)
  BY <1>6, FinalizeCommitRounds
<1>7. CASE Swapped(w)
  BY <1>7, SwappedRounds
<1> QED BY <1>1, <1>2, <1>3, <1>4, <1>5, <1>6, <1>7 DEF Proceed

\* RoundsInv holds of every reachable state.
THEOREM RoundsInvariant == Spec => []RoundsInv
<1>1. Init => RoundsInv
  <2> SUFFICES ASSUME Init PROVE RoundsInv
    OBVIOUS
  <2> QED BY DEF Init, RoundsInv, SwapBudget, ResultOnRecord,
                 EveryRoundRecommended, Found, EventType
<1>2. TypeOK /\ RoundsInv /\ [Next]_vars => RoundsInv'
  <2> SUFFICES ASSUME TypeOK, RoundsInv, [Next]_vars PROVE RoundsInv'
    OBVIOUS
  <2>1. CASE UNCHANGED vars \/ Rest
    BY <2>1, RoundsUntouched DEF vars, Rest
  <2>2. ASSUME NEW w \in Worker, Begin(w) \/ Proceed(w) PROVE RoundsInv'
    BY <2>2, BeginRounds, ProceedRounds
  <2>3. ASSUME NEW w \in Worker, Lose(w) PROVE RoundsInv'
    BY <2>3, RoundsUntouched DEF Lose, tables
  <2> QED BY <2>1, <2>2, <2>3 DEF Next
<1> QED BY <1>1, <1>2, TypeCorrect, PTL DEF Spec

\* The swap budget, for every number of racing swaps and every limit.
THEOREM SwapBudgetHolds == Spec => []SwapBudget
<1>1. RoundsInv => SwapBudget
  BY DEF RoundsInv
<1> QED BY <1>1, RoundsInvariant, PTL

\* A done session serves its newest recommendation.
THEOREM ResultStaysOnRecord == Spec => []ResultOnRecord
<1>1. RoundsInv => ResultOnRecord
  BY DEF RoundsInv
<1> QED BY <1>1, RoundsInvariant, PTL

\* Every decided round left a recommendation.
THEOREM RoundsAreRecommended == Spec => []EveryRoundRecommended
<1>1. RoundsInv => EveryRoundRecommended
  BY DEF RoundsInv
<1> QED BY <1>1, RoundsInvariant, PTL

----------------------------------------------------------------------------
(* The session implements the rounds of DishRounds.                        *)

\* A step that leaves the row's result and swap_count and its existence
\* alone is a stutter of the rounds.
LEMMA RoundsStutter ==
  ASSUME exists' = exists, row'.swap_count = row.swap_count,
         row'.result = row.result
  PROVE  UNCHANGED Rounds!vars
BY DEF Rounds!vars, Phase

\* The actions that change the rounds are those that open a session, decide
\* a round, swap and clear; each is the abstract action of that name.
LEMMA BeginRefines ==
  ASSUME TypeOK, RoundsInv, NEW w \in Worker, Begin(w)
  PROVE  Rounds!LooseNext \/ UNCHANGED Rounds!vars
<1>1. CASE StartCreate(w)
  <2>1. exists = "absent" /\ exists' = "present" /\ row' = row
    BY <1>1 DEF StartCreate, RoundsInv
  <2>2. Rounds!Open
    BY <2>1 DEF Rounds!Open, Phase
  <2> QED BY <2>2 DEF Rounds!LooseNext, Rounds!SolidNext
<1>2. CASE NextRead(w) \/ AnswerCheck(w) \/ FinalizeCheck(w) \/ SwapCheck(w)
           \/ Accept(w)
  BY <1>2, RoundsStutter
     DEF NextRead, AnswerCheck, FinalizeCheck, SwapCheck, Accept, tables
<1>3. CASE Clear(w)
  <2>1. CASE Found
    <3>1. exists = "present" /\ exists' = "deleted" /\ row' = NewRow
      BY <1>3, <2>1 DEF Clear, Found
    <3>2. Rounds!Close
      BY <3>1 DEF Rounds!Close, Phase, NewRow
    <3> QED BY <3>2 DEF Rounds!LooseNext, Rounds!SolidNext
  <2>2. CASE ~Found
    <3>1. exists' = exists /\ row' = row
      BY <1>3, <2>2 DEF Clear, RoundsInv, Found
    <3> QED BY <3>1, RoundsStutter
  <2> QED BY <2>1, <2>2
<1> QED BY <1>1, <1>2, <1>3 DEF Begin

LEMMA FinalizeCommitRefines ==
  ASSUME TypeOK, NEW w \in Worker, FinalizeCommit(w)
  PROVE  Rounds!LooseNext \/ UNCHANGED Rounds!vars
<1>1. PICK d \in Dish :
        row' = IF Found THEN [row EXCEPT !.state = "done", !.result = d]
                        ELSE row
  BY DEF FinalizeCommit, Picks
<1>2. exists' = exists
  BY DEF FinalizeCommit
<1>3. CASE Found
  <2>1. row'.result = d /\ row'.swap_count = row.swap_count
    BY <1>1, <1>3 DEF TypeOK, Row
  <2>2. Phase = "open" /\ Phase' = "open"
    BY <1>2, <1>3 DEF Found, Phase
  <2>3. CASE row.result = NoDish
    <3>1. Rounds!Decide
      BY <2>1, <2>2, <2>3 DEF Rounds!Decide
    <3> QED BY <3>1 DEF Rounds!LooseNext, Rounds!SolidNext
  <2>4. CASE row.result # NoDish
    <3>1. Rounds!DecideAgain
      BY <2>1, <2>2, <2>4 DEF Rounds!DecideAgain
    <3> QED BY <3>1 DEF Rounds!LooseNext
  <2> QED BY <2>3, <2>4
<1>4. CASE ~Found
  BY <1>1, <1>2, <1>4, RoundsStutter
<1> QED BY <1>3, <1>4

LEMMA SwappedRefines ==
  ASSUME TypeOK, RoundsInv, NEW w \in Worker, Swapped(w)
  PROVE  Rounds!NextRound
<1>1. /\ Found /\ row.state = "done" /\ row.swap_count < MaxSwaps
      /\ exists' = exists
      /\ row' = [row EXCEPT !.result = NoDish, !.state = "answering",
                            !.swap_count = row.swap_count + 1]
  BY DEF Swapped, SwappedRow, Swappable
<1>2. row'.result = NoDish /\ row'.swap_count = row.swap_count + 1
  BY <1>1 DEF TypeOK, Row
<1>3. row.result # NoDish
  BY <1>1 DEF RoundsInv, ResultOnRecord
<1>4. Phase = "open" /\ Phase' = "open"
  BY <1>1 DEF Found, Phase
<1> QED BY <1>1, <1>2, <1>3, <1>4 DEF Rounds!NextRound

LEMMA ProceedRefines ==
  ASSUME TypeOK, RoundsInv, NEW w \in Worker, Proceed(w)
  PROVE  Rounds!LooseNext \/ UNCHANGED Rounds!vars
<1>1. CASE StartReread(w) \/ AnswerRead(w) \/ AnswerReread(w)
           \/ FinalizeRead(w) \/ FinalizeTally(w) \/ SwapPending(w)
           \/ SwapRefused(w) \/ StartRegister(w) \/ AnswerEvent(w)
           \/ SwapExhausted(w) \/ FinalizeEvent(w)
  BY <1>1, RoundsStutter
     DEF StartReread, AnswerRead, AnswerReread, FinalizeRead, FinalizeTally,
         SwapPending, SwapRefused, tables, StartRegister, AnswerEvent,
         SwapExhausted, FinalizeEvent
<1>2. CASE NextStash(w)
  BY <1>2, RoundsStutter DEF NextStash, TypeOK, Row
<1>3. CASE AnswerCommit(w)
  BY <1>3, RoundsStutter DEF AnswerCommit, AnsweredRow, TypeOK, Row
<1>4. CASE FinalizeCommit(w)
  BY <1>4, FinalizeCommitRefines
<1>5. CASE Swapped(w)
  BY <1>5, SwappedRefines DEF Rounds!LooseNext, Rounds!SolidNext
<1> QED BY <1>1, <1>2, <1>3, <1>4, <1>5 DEF Proceed

\* However requests interleave and fail, the session is a series of rounds
\* in which only a decided round is swapped away, at most MaxSwaps times.
THEOREM SessionImplementsRounds == Spec => LooseRounds
<1>1. Init => Rounds!Init
  BY DEF Init, Rounds!Init, Phase, NewRow
<1>2. TypeOK /\ RoundsInv /\ [Next]_vars
        => [Rounds!LooseNext]_(Rounds!vars)
  <2> SUFFICES ASSUME TypeOK, RoundsInv, [Next]_vars
               PROVE  Rounds!LooseNext \/ UNCHANGED Rounds!vars
    OBVIOUS
  <2>1. CASE UNCHANGED vars \/ Rest
    BY <2>1, RoundsStutter DEF vars, Rest
  <2>2. ASSUME NEW w \in Worker, Begin(w) \/ Proceed(w)
        PROVE  Rounds!LooseNext \/ UNCHANGED Rounds!vars
    BY <2>2, BeginRefines, ProceedRefines
  <2>3. ASSUME NEW w \in Worker, Lose(w)
        PROVE  UNCHANGED Rounds!vars
    BY <2>3, RoundsStutter DEF Lose, tables
  <2> QED BY <2>1, <2>2, <2>3 DEF Next
<1> QED BY <1>1, <1>2, TypeCorrect, RoundsInvariant, PTL
        DEF Spec, LooseRounds, Rounds!LooseSpec

----------------------------------------------------------------------------
(* Acceptance.                                                             *)

\* Once accepted, a session is accepted until its user's data is cleared.
THEOREM AcceptedStays == Spec => AcceptedSticks
<1> DEFINE Sticks == sessions = "accepted" => sessions' \in {"accepted", "none"}
<1>1. ASSUME [Next]_vars PROVE [Sticks]_vars
  <2>1. CASE UNCHANGED vars \/ Rest
    BY <2>1 DEF vars, Rest
  <2>2. ASSUME NEW w \in Worker, Begin(w) PROVE Sticks
    BY <2>2 DEF Begin, StartCreate, NextRead, AnswerCheck, FinalizeCheck,
                SwapCheck, Accept, Clear, tables
  <2>3. ASSUME NEW w \in Worker, Proceed(w) PROVE Sticks
    BY <2>3 DEF Proceed, StartReread, StartRegister, NextStash, AnswerRead,
                AnswerCommit, AnswerReread, AnswerEvent, FinalizeRead,
                FinalizeCommit, FinalizeTally, FinalizeEvent, Swapped,
                SwapPending, SwapRefused, SwapExhausted, tables, Ensured
  <2>4. ASSUME NEW w \in Worker, Lose(w) PROVE Sticks
    BY <2>4 DEF Lose, tables
  <2> QED BY <1>1, <2>1, <2>2, <2>3, <2>4 DEF Next
<1> QED BY <1>1, PTL DEF Spec, AcceptedSticks

----------------------------------------------------------------------------
(* Errors.                                                                 *)

\* Until the session is created there is nothing of it anywhere.
Unborn ==
  exists = "absent" =>
    /\ ~known
    /\ recommendation = <<>>
    /\ events = [e \in EventType |-> 0]
    /\ \A w \in Worker : pc[w] = "idle" /\ reply[w].dish = NoDish

BirthInv == Unborn /\ ErrorOnlyAfterClear

\* The steps of a handler whose row is there leave it there; it is never
\* created twice.
LEMMA StaysFound ==
  ASSUME NEW w \in Worker, Begin(w) \/ Proceed(w) \/ Lose(w),
         ~StartCreate(w), ~Clear(w)
  PROVE  exists' = exists
BY DEF Begin, NextRead, AnswerCheck, FinalizeCheck, SwapCheck, Accept,
       Proceed, StartReread, StartRegister, NextStash, AnswerRead,
       AnswerCommit, AnswerReread, AnswerEvent, FinalizeRead, FinalizeCommit,
       FinalizeTally, FinalizeEvent, Swapped, SwapPending, SwapRefused,
       SwapExhausted, Lose, tables

\* Only a request that finds no row, or a clear, touches a session that is
\* not there.
LEMMA UnbornKept ==
  ASSUME TypeOK, BirthInv, NEW w \in Worker, Begin(w) \/ Proceed(w) \/ Lose(w)
  PROVE  Unborn'
<1> SUFFICES ASSUME exists' = "absent"
             PROVE  /\ UNCHANGED <<known, recommendation, events>>
                    /\ \A v \in Worker : pc'[v] = "idle" /\ reply'[v].dish = NoDish
                    /\ exists = "absent"
  BY DEF Unborn, BirthInv
<1>1. ~StartCreate(w)
  BY DEF StartCreate
<1>2. exists = "absent"
  BY <1>1, StaysFound DEF Clear
<1>3. /\ ~known /\ recommendation = <<>>
      /\ \A v \in Worker : pc[v] = "idle" /\ reply[v].dish = NoDish
  BY <1>2 DEF BirthInv, Unborn
<1>4. Clear(w)
  <2>1. ~Proceed(w) /\ ~Lose(w)
    BY <1>3 DEF Proceed, StartReread, StartRegister, NextStash, AnswerRead,
       AnswerCommit, AnswerReread, AnswerEvent, FinalizeRead, FinalizeCommit,
       FinalizeTally, FinalizeEvent, Swapped, SwapPending, SwapRefused,
       SwapExhausted, Lose
  <2> QED BY <1>1, <1>3, <2>1 DEF Begin, NextRead, AnswerCheck, FinalizeCheck,
             SwapCheck, Accept
<1> QED BY <1>2, <1>3, <1>4 DEF Clear, Respond, Say, SayLeft, TypeOK

\* A handler that answers with an error had begun and found no row any more.
LEMMA ErrorsKept ==
  ASSUME TypeOK, BirthInv, NEW w \in Worker, Begin(w) \/ Proceed(w) \/ Lose(w)
  PROVE  ErrorOnlyAfterClear'
<1>1. \A v \in Worker \ {w} : reply'[v] = reply[v]
  BY DEF Begin, StartCreate, NextRead, AnswerCheck, FinalizeCheck, SwapCheck,
       Accept, Clear, Goto, Respond,
       Proceed, StartReread, StartRegister, NextStash, AnswerRead,
       AnswerCommit, AnswerReread, AnswerEvent, FinalizeRead, FinalizeCommit,
       FinalizeTally, FinalizeEvent, Swapped, SwapPending, SwapRefused,
       SwapExhausted, Lose, TypeOK
<1>2. exists = "deleted" => exists' = "deleted"
  BY StaysFound DEF StartCreate, Clear, Found
<1>3. reply'[w].kind = "error" => reply[w].kind = "error" \/ exists' = "deleted"
  <2>1. CASE Begin(w)
    <3>1. reply'[w] = reply[w] \/ reply'[w] \in
             {Say("not_found"), Say("done"), Say("accepted"), Say("cleared")}
      BY <2>1 DEF Begin, StartCreate, NextRead, AnswerCheck, FinalizeCheck,
           SwapCheck, Accept, Clear, Goto, Respond, TypeOK
    <3> QED BY <3>1 DEF Say, SayLeft
  <2>2. CASE StartReread(w) \/ AnswerRead(w) \/ AnswerReread(w) \/ FinalizeRead(w)
    <3>1. pc[w] # "idle" /\ exists' = exists
      BY <2>2 DEF StartReread, AnswerRead, AnswerReread, FinalizeRead, tables
    <3>2. exists \in {"present", "deleted"}
      BY <3>1 DEF BirthInv, Unborn, TypeOK
    <3>3. CASE Found
      BY <2>2, <3>3 DEF StartReread, AnswerRead, AnswerReread, FinalizeRead,
           Goto, TypeOK
    <3> QED BY <3>1, <3>2, <3>3 DEF Found
  <2>3. CASE StartRegister(w) \/ NextStash(w) \/ AnswerEvent(w)
             \/ SwapPending(w) \/ SwapExhausted(w)
    <3>1. reply'[w] \in {Say("started"), Say("question"), Say("answered"),
                         SayLeft("pending", MaxSwaps), SayLeft("exhausted", 0)}
      BY <2>3 DEF StartRegister, NextStash, AnswerEvent, SwapPending,
           SwapExhausted, Respond, TypeOK
    <3> QED BY <3>1 DEF Say, SayLeft
  <2>4. CASE AnswerCommit(w) \/ FinalizeCommit(w) \/ FinalizeTally(w)
             \/ SwapRefused(w)
    BY <2>4 DEF AnswerCommit, FinalizeCommit, FinalizeTally, SwapRefused, Goto
  <2>5. CASE FinalizeEvent(w) \/ Swapped(w)
    <3>1. reply'[w].kind \in {"result", "swapped"}
      BY <2>5 DEF FinalizeEvent, Swapped, SayLeft, Respond, TypeOK
    <3> QED BY <3>1
  <2>6. CASE Lose(w)
    BY <2>6 DEF Lose, Say, SayLeft, TypeOK
  <2> QED BY <2>1, <2>2, <2>3, <2>4, <2>5, <2>6 DEF Proceed
<1> QED BY <1>1, <1>2, <1>3 DEF BirthInv, ErrorOnlyAfterClear

\* BirthInv holds of every reachable state.
THEOREM BirthInvariant == Spec => []BirthInv
<1>1. Init => BirthInv
  BY DEF Init, BirthInv, Unborn, ErrorOnlyAfterClear, Say, SayLeft
<1>2. TypeOK /\ BirthInv /\ [Next]_vars => BirthInv'
  <2> SUFFICES ASSUME TypeOK, BirthInv, [Next]_vars PROVE BirthInv'
    OBVIOUS
  <2>1. CASE UNCHANGED vars \/ Rest
    BY <2>1 DEF vars, Rest, BirthInv, Unborn, ErrorOnlyAfterClear
  <2>2. ASSUME NEW w \in Worker, Begin(w) \/ Proceed(w) \/ Lose(w)
        PROVE  BirthInv'
    BY <2>2, UnbornKept, ErrorsKept DEF BirthInv
  <2> QED BY <2>1, <2>2 DEF Next
<1> QED BY <1>1, <1>2, TypeCorrect, PTL DEF Spec

\* A request is answered with an error only after the user's data was
\* cleared under it.
THEOREM ErrorsAreClears == Spec => []ErrorOnlyAfterClear
<1>1. BirthInv => ErrorOnlyAfterClear
  BY DEF BirthInv
<1> QED BY <1>1, BirthInvariant, PTL

----------------------------------------------------------------------------
(* What the clients were shown.                                            *)

OnRecord == {recommendation[i].name : i \in DOMAIN recommendation}

\* A dish is on record from the moment a handler has it in hand.
ShownInv ==
  Found => \A w \in Worker :
    /\ pc[w] \in {"finalize_tally", "finalize_event"} => snap[w].dish \in OnRecord
    /\ reply[w].dish # NoDish => reply[w].dish \in OnRecord

\* A step of w that takes no recommendation away, after which the dish w has
\* in hand and the one it showed are on record, leaves all dishes on record.
LEMMA ShownKept ==
  ASSUME TypeOK, ShownInv, NEW w \in Worker, Found' => Found,
         \A v \in Worker \ {w} : /\ pc'[v] = pc[v] /\ snap'[v] = snap[v]
                                 /\ reply'[v] = reply[v],
         OnRecord \subseteq OnRecord',
         Found => /\ pc'[w] \in {"finalize_tally", "finalize_event"}
                       => snap'[w].dish \in OnRecord'
                  /\ reply'[w].dish # NoDish => reply'[w].dish \in OnRecord'
  PROVE  ShownInv'
BY DEF ShownInv

\* The steps that leave the recommendations and the dish in hand.
LEMMA ShownStep ==
  ASSUME TypeOK, ShownInv, NEW w \in Worker, Found' => Found,
         UNCHANGED recommendation,
         \A v \in Worker \ {w} : /\ pc'[v] = pc[v] /\ snap'[v] = snap[v]
                                 /\ reply'[v] = reply[v],
         pc'[w] \notin {"finalize_tally", "finalize_event"},
         reply'[w].dish = NoDish \/ reply'[w] = reply[w]
  PROVE  ShownInv'
<1>1. OnRecord \subseteq OnRecord'
  BY DEF OnRecord
<1>2. Found /\ reply'[w].dish # NoDish => reply'[w].dish \in OnRecord'
  BY <1>1 DEF ShownInv
<1> QED BY <1>1, <1>2, ShownKept

\* Most responses show no dish.
LEMMA SayNoDish == \A kind : Say(kind).dish = NoDish
BY DEF Say, SayLeft

\* A worker's step is its own.
LEMMA OwnStep ==
  ASSUME TypeOK, NEW w \in Worker, Begin(w) \/ Proceed(w) \/ Lose(w)
  PROVE  \A v \in Worker \ {w} : /\ pc'[v] = pc[v] /\ snap'[v] = snap[v]
                                 /\ reply'[v] = reply[v]
BY DEF Begin, StartCreate, NextRead, AnswerCheck, FinalizeCheck, SwapCheck,
       Accept, Clear, Goto, Respond,
       Proceed, StartReread, StartRegister, NextStash, AnswerRead,
       AnswerCommit, AnswerReread, AnswerEvent, FinalizeRead, FinalizeCommit,
       FinalizeTally, FinalizeEvent, Swapped, SwapPending, SwapRefused,
       SwapExhausted, Lose, TypeOK

\* A request's first stage shows no dish and has none in hand.
LEMMA BeginShown ==
  ASSUME TypeOK, BirthInv, ShownInv, NEW w \in Worker, Begin(w)
  PROVE  ShownInv'
<1>1. CASE StartCreate(w)
  <2>1. \A v \in Worker : pc[v] = "idle" /\ reply[v].dish = NoDish
    BY <1>1 DEF StartCreate, BirthInv, Unborn
  <2>2. /\ pc' = [pc EXCEPT ![w] = "start_reread"] /\ reply' = reply
    BY <1>1 DEF StartCreate, Goto
  <2> QED BY <2>1, <2>2 DEF ShownInv, TypeOK
<1>2. CASE Clear(w)
  BY <1>2 DEF Clear, Found, ShownInv
<1>3. CASE NextRead(w) \/ AnswerCheck(w) \/ FinalizeCheck(w) \/ SwapCheck(w)
           \/ Accept(w)
  <2>1. Found' = Found /\ UNCHANGED recommendation
    BY <1>3 DEF NextRead, AnswerCheck, FinalizeCheck, SwapCheck, Accept,
         Found, tables
  <2>2. pc'[w] \notin {"finalize_tally", "finalize_event"}
    BY <1>3 DEF NextRead, AnswerCheck, FinalizeCheck, SwapCheck, Accept,
         Goto, Respond, TypeOK
  <2>3. reply'[w] = reply[w] \/ \E kind \in ReplyKind : reply'[w] = Say(kind)
    BY <1>3 DEF NextRead, AnswerCheck, FinalizeCheck, SwapCheck, Accept,
         Goto, Respond, TypeOK, ReplyKind
  <2>4. reply'[w].dish = NoDish \/ reply'[w] = reply[w]
    BY <2>3, SayNoDish
  <2> QED BY <2>1, <2>2, <2>4, OwnStep, ShownStep
<1> QED BY <1>1, <1>2, <1>3 DEF Begin

\* Of the later stages those of finalize have a dish in hand: the one the row
\* holds, which is its newest recommendation, or the one just recommended.
LEMMA ProceedShown ==
  ASSUME TypeOK, RoundsInv, ShownInv, NEW w \in Worker, Proceed(w)
  PROVE  ShownInv'
<1>1. exists' = exists
  BY StaysFound DEF Proceed, StartReread, StartRegister, NextStash, AnswerRead,
       AnswerCommit, AnswerReread, AnswerEvent, FinalizeRead, FinalizeCommit,
       FinalizeTally, FinalizeEvent, Swapped, SwapPending, SwapRefused,
       SwapExhausted, tables
<1>2. CASE StartReread(w) \/ AnswerRead(w) \/ AnswerReread(w)
           \/ StartRegister(w) \/ NextStash(w) \/ AnswerEvent(w)
           \/ AnswerCommit(w) \/ SwapRefused(w)
  <2>1. UNCHANGED recommendation
        /\ pc'[w] \notin {"finalize_tally", "finalize_event"}
    BY <1>2 DEF StartReread, AnswerRead, AnswerReread, StartRegister,
         NextStash, AnswerEvent, AnswerCommit, SwapRefused, Goto, Respond,
         tables, TypeOK
  <2>2. reply'[w] = reply[w] \/ \E kind \in ReplyKind : reply'[w] = Say(kind)
    BY <1>2 DEF StartReread, AnswerRead, AnswerReread, StartRegister,
         NextStash, AnswerEvent, AnswerCommit, SwapRefused, Goto, Respond,
         TypeOK, ReplyKind
  <2>3. reply'[w].dish = NoDish \/ reply'[w] = reply[w]
    BY <2>2, SayNoDish
  <2> QED BY <1>1, <2>1, <2>3, OwnStep, ShownStep DEF Found
<1>3. CASE Swapped(w) \/ SwapPending(w) \/ SwapExhausted(w)
  <2>1. UNCHANGED recommendation
        /\ pc'[w] \notin {"finalize_tally", "finalize_event"}
    BY <1>3 DEF Swapped, SwapPending, SwapExhausted, Respond, tables, TypeOK
  <2>2. reply'[w].dish = NoDish
    BY <1>3 DEF Swapped, SwapPending, SwapExhausted, Respond, SayLeft, TypeOK
  <2> QED BY <1>1, <2>1, <2>2, OwnStep, ShownStep DEF Found
<1>4. CASE FinalizeRead(w)
  <2>1. UNCHANGED recommendation
    BY <1>4 DEF FinalizeRead, tables
  <2>2. CASE Found /\ Solidified
    <3>1. /\ snap'[w].dish = row.result /\ reply'[w] = reply[w]
      BY <1>4, <2>2 DEF FinalizeRead, Goto, TypeOK, Snapshot
    <3>2. recommendation # <<>>
          /\ recommendation[Len(recommendation)].name = row.result
      BY <2>2 DEF RoundsInv, ResultOnRecord, Solidified
    <3>3. Len(recommendation) \in DOMAIN recommendation
      BY <3>2 DEF TypeOK
    <3>4. OnRecord \subseteq OnRecord'
      BY <2>1 DEF OnRecord
    <3>5. snap'[w].dish \in OnRecord'
      BY <2>1, <3>1, <3>2, <3>3 DEF OnRecord
    <3>6. reply'[w].dish # NoDish => reply'[w].dish \in OnRecord'
      BY <2>2, <3>1, <3>4 DEF ShownInv
    <3> QED BY <1>1, <1>4, <3>4, <3>5, <3>6, OwnStep, ShownKept
            DEF Found, Proceed
  <2>3. CASE ~(Found /\ Solidified)
    <3>1. pc'[w] \notin {"finalize_tally", "finalize_event"}
      BY <1>4, <2>3 DEF FinalizeRead, Goto, Respond, TypeOK
    <3>2. reply'[w] = reply[w] \/ reply'[w].dish = NoDish
      BY <1>4, <2>3 DEF FinalizeRead, Goto, Respond, TypeOK, Say, SayLeft
    <3> QED BY <1>1, <1>4, <2>1, <3>1, <3>2, OwnStep, ShownStep
            DEF Found, Proceed
  <2> QED BY <2>2, <2>3
<1>5. CASE FinalizeCommit(w)
  <2>1. PICK d \in Dish :
          /\ recommendation' = Append(recommendation,
                                 [name |-> d, question_log |-> snap[w].log])
          /\ snap' = [snap EXCEPT ![w].dish = d]
    BY <1>5 DEF FinalizeCommit, Picks, Recommended
  <2>2. snap'[w].dish = d /\ reply' = reply
    BY <1>5, <2>1 DEF FinalizeCommit, Goto, TypeOK, Snapshot
  <2>3. OnRecord \subseteq OnRecord'
    <3>1. \A i \in DOMAIN recommendation : i \in DOMAIN recommendation'
            /\ recommendation'[i] = recommendation[i]
      BY <2>1 DEF TypeOK
    <3> QED BY <3>1 DEF OnRecord
  <2>4. d \in OnRecord'
    <3>1. /\ Len(recommendation) + 1 \in DOMAIN recommendation'
          /\ recommendation'[Len(recommendation) + 1].name = d
      BY <2>1 DEF TypeOK
    <3> QED BY <3>1 DEF OnRecord
  <2>5. Found => (reply'[w].dish # NoDish => reply'[w].dish \in OnRecord')
    BY <2>2, <2>3 DEF ShownInv
  <2> QED BY <1>1, <2>2, <2>3, <2>4, <2>5, OwnStep, ShownKept DEF Found
<1>6. CASE FinalizeTally(w) \/ FinalizeEvent(w)
  <2>1. UNCHANGED recommendation
    BY <1>6 DEF FinalizeTally, FinalizeEvent, tables
  <2>2. OnRecord \subseteq OnRecord'
    BY <2>1 DEF OnRecord
  <2>3. Found => snap[w].dish \in OnRecord
    BY <1>6 DEF FinalizeTally, FinalizeEvent, ShownInv
  <2>4. CASE FinalizeTally(w)
    <3>1. snap'[w].dish = snap[w].dish /\ reply' = reply
      BY <2>4 DEF FinalizeTally, Goto, TypeOK, Snapshot
    <3>2. Found => (reply'[w].dish # NoDish => reply'[w].dish \in OnRecord')
      BY <2>2, <3>1 DEF ShownInv
    <3> QED BY <1>1, <2>2, <2>3, <3>1, <3>2, OwnStep, ShownKept DEF Found
  <2>5. CASE FinalizeEvent(w)
    <3>1. reply'[w].dish = snap[w].dish /\ pc'[w] = "idle"
      BY <2>5 DEF FinalizeEvent, Respond, TypeOK
    <3> QED BY <1>1, <2>2, <2>3, <3>1, OwnStep, ShownKept DEF Found
  <2> QED BY <1>6, <2>4, <2>5
<1> QED BY <1>2, <1>3, <1>4, <1>5, <1>6 DEF Proceed

\* A dish in a handler's hands is on record.
THEOREM ShownInvariant == Spec => []ShownInv
<1>1. Init => ShownInv
  BY DEF Init, ShownInv, Found
<1>2. TypeOK /\ RoundsInv /\ BirthInv /\ ShownInv /\ [Next]_vars => ShownInv'
  <2> SUFFICES ASSUME TypeOK, RoundsInv, BirthInv, ShownInv, [Next]_vars
               PROVE  ShownInv'
    OBVIOUS
  <2>1. CASE UNCHANGED vars \/ Rest
    BY <2>1 DEF vars, Rest, ShownInv, OnRecord, Found
  <2>2. ASSUME NEW w \in Worker, Begin(w) \/ Proceed(w) PROVE ShownInv'
    BY <2>2, BeginShown, ProceedShown
  <2>3. ASSUME NEW w \in Worker, Lose(w) PROVE ShownInv'
    <3>1. /\ UNCHANGED recommendation /\ Found' = Found
          /\ pc'[w] = "idle" /\ reply'[w].dish = NoDish
      BY <2>3 DEF Lose, tables, Found, Say, SayLeft, TypeOK
    <3> QED BY <2>3, <3>1, OwnStep, ShownStep
  <2> QED BY <2>1, <2>2, <2>3 DEF Next
<1> QED BY <1>1, <1>2, TypeCorrect, RoundsInvariant, BirthInvariant, PTL
        DEF Spec

\* However cached and fresh results, swaps and clears are interleaved, no
\* client was shown a dish its session has no recommendation of.
THEOREM ShownIsOnRecord == Spec => []ShownWasRecommended
<1>1. ShownInv => ShownWasRecommended
  BY DEF ShownInv, ShownWasRecommended, OnRecord
<1> QED BY <1>1, ShownInvariant, PTL

----------------------------------------------------------------------------
(* The event stream.                                                       *)

\* Between the commit of the tables and that of the event.
AnswerStages == {"answer_reread", "answer_event"}
ServeStages == {"finalize_tally", "finalize_event"}

\* The two trails, without what has no numbers in it.
TrailsInv == Found => AnswersTrail /\ ServedTrails

\* Sets of workers that agree but for one.
LEMMA OneApart ==
  ASSUME NEW B \in SUBSET Worker, NEW C \in SUBSET Worker, NEW w \in Worker,
         C \ {w} = B \ {w}
  PROVE  /\ Cardinality(B) \in Nat /\ Cardinality(C) \in Nat
         /\ Cardinality(C) = Cardinality(B) + (IF w \in C THEN 1 ELSE 0) - (IF w \in B THEN 1 ELSE 0)
<1> DEFINE R == B \ {w}
<1>1. IsFiniteSet(R) /\ Cardinality(R) \in Nat
  <2>1. R \in SUBSET Worker
    OBVIOUS
  <2> QED BY <2>1, SessionAssumption, FS_Subset, FS_CardinalityType
<1>2. Cardinality(R \cup {w}) = Cardinality(R) + 1
  BY <1>1, FS_AddElement
<1>3. /\ w \in B => Cardinality(B) = Cardinality(R \cup {w})
      /\ w \notin B => Cardinality(B) = Cardinality(R)
  <2>1. w \in B => B = R \cup {w}
    OBVIOUS
  <2>2. w \notin B => B = R
    OBVIOUS
  <2> QED BY <2>1, <2>2, Zenon
<1>4. /\ w \in C => Cardinality(C) = Cardinality(R \cup {w})
      /\ w \notin C => Cardinality(C) = Cardinality(R)
  <2>1. w \in C => C = R \cup {w}
    OBVIOUS
  <2>2. w \notin C => C = R
    OBVIOUS
  <2> QED BY <2>1, <2>2, Zenon
<1> HIDE DEF R
<1> QED BY <1>1, <1>2, <1>3, <1>4

\* A worker that goes on to a stage leaves its old one.
LEMMA Moved ==
  ASSUME TypeOK, NEW w \in Worker, \A v \in Worker \ {w} : pc'[v] = pc[v]
  PROVE  /\ Busy(AnswerStages) \in Nat /\ Busy(ServeStages) \in Nat
         /\ Busy(AnswerStages)' = Busy(AnswerStages)
              + (IF pc'[w] \in AnswerStages THEN 1 ELSE 0) - (IF pc[w] \in AnswerStages THEN 1 ELSE 0)
         /\ Busy(ServeStages)' = Busy(ServeStages)
              + (IF pc'[w] \in ServeStages THEN 1 ELSE 0) - (IF pc[w] \in ServeStages THEN 1 ELSE 0)
<1> DEFINE BA == {v \in Worker : pc[v] \in AnswerStages}
           CA == {v \in Worker : pc'[v] \in AnswerStages}
           BS == {v \in Worker : pc[v] \in ServeStages}
           CS == {v \in Worker : pc'[v] \in ServeStages}
<1>2. /\ w \in BA <=> pc[w] \in AnswerStages
      /\ w \in CA <=> pc'[w] \in AnswerStages
      /\ w \in BS <=> pc[w] \in ServeStages
      /\ w \in CS <=> pc'[w] \in ServeStages
  OBVIOUS
<1>3. /\ BA \in SUBSET Worker /\ CA \in SUBSET Worker /\ CA \ {w} = BA \ {w}
      /\ BS \in SUBSET Worker /\ CS \in SUBSET Worker /\ CS \ {w} = BS \ {w}
  OBVIOUS
<1>4. /\ Busy(AnswerStages) = Cardinality(BA) /\ Busy(AnswerStages)' = Cardinality(CA)
      /\ Busy(ServeStages) = Cardinality(BS) /\ Busy(ServeStages)' = Cardinality(CS)
  BY DEF Busy, AnswerStages, ServeStages
<1> HIDE DEF BA, CA, BS, CS
<1>5. /\ Cardinality(BA) \in Nat
      /\ Cardinality(CA) = Cardinality(BA) + (IF w \in CA THEN 1 ELSE 0) - (IF w \in BA THEN 1 ELSE 0)
  BY <1>3, OneApart
<1>6. /\ Cardinality(BS) \in Nat
      /\ Cardinality(CS) = Cardinality(BS) + (IF w \in CS THEN 1 ELSE 0) - (IF w \in BS THEN 1 ELSE 0)
  BY <1>3, OneApart
<1> QED BY <1>2, <1>4, <1>5, <1>6

\* What the two trails compare, as numbers.
LEMMA TrailNumbers ==
  ASSUME TypeOK
  PROVE  /\ events["answer"] \in Nat /\ events["result_served"] \in Nat
         /\ row.step_index \in Nat /\ Len(recommendation) \in Nat
         /\ failures \in Nat
BY DEF TypeOK, Row, EventType

\* A step that counts nothing and neither enters nor leaves the stages
\* between two commits.
LEMMA TrailsKept ==
  ASSUME TypeOK, TrailsInv, NEW w \in Worker, \A v \in Worker \ {w} : pc'[v] = pc[v],
         Found' => Found,
         UNCHANGED <<recommendation, failures>>,
         row'.step_index = row.step_index,
         events'["answer"] = events["answer"],
         events'["result_served"] = events["result_served"],
         pc'[w] \in AnswerStages <=> pc[w] \in AnswerStages,
         pc'[w] \in ServeStages <=> pc[w] \in ServeStages
  PROVE  TrailsInv'
<1>1. Busy(AnswerStages)' = Busy(AnswerStages)
  BY Moved
<1>2. Busy(ServeStages)' = Busy(ServeStages)
  BY Moved
<1> QED BY <1>1, <1>2
        DEF TrailsInv, AnswersTrail, ServedTrails, AnswerStages, ServeStages


\* The steps at which the tables or the events count something, and those at
\* which a request is lost.
Counting(w) == \/ StartCreate(w) \/ Clear(w) \/ AnswerCommit(w)
               \/ AnswerReread(w) \/ AnswerEvent(w) \/ FinalizeRead(w)
               \/ FinalizeCommit(w) \/ FinalizeEvent(w) \/ Lose(w)

\* The rest of the steps leave the trails as they are.
LEMMA SilentTrails ==
  ASSUME TypeOK, TrailsInv, NEW w \in Worker, Begin(w) \/ Proceed(w),
         ~Counting(w)
  PROVE  TrailsInv'
<1>1. Found' => Found
  BY StaysFound DEF Counting, Found
<1>2. CASE NextRead(w) \/ AnswerCheck(w) \/ FinalizeCheck(w) \/ SwapCheck(w)
           \/ StartReread(w) \/ AnswerRead(w) \/ SwapPending(w)
           \/ SwapRefused(w) \/ FinalizeTally(w)
  <2>1. UNCHANGED <<recommendation, failures, row, events>>
    BY <1>2 DEF NextRead, AnswerCheck, FinalizeCheck, SwapCheck, StartReread,
         AnswerRead, SwapPending, SwapRefused, FinalizeTally, Goto, Respond,
         tables
  <2>2. /\ pc'[w] \in AnswerStages <=> pc[w] \in AnswerStages
        /\ pc'[w] \in ServeStages <=> pc[w] \in ServeStages
    BY <1>2 DEF NextRead, AnswerCheck, FinalizeCheck, SwapCheck, StartReread,
         AnswerRead, SwapPending, SwapRefused, FinalizeTally, Goto, Respond,
         Receive, AnswerStages, ServeStages, TypeOK
  <2> QED BY <1>1, <2>1, <2>2, OwnStep, TrailsKept
<1>3. CASE Accept(w) \/ StartRegister(w) \/ NextStash(w) \/ Swapped(w)
           \/ SwapExhausted(w)
  <2>1. UNCHANGED <<recommendation, failures>>
    BY <1>3 DEF Accept, StartRegister, NextStash, Swapped, SwapExhausted,
         Respond
  <2>2. /\ events'["answer"] = events["answer"]
        /\ events'["result_served"] = events["result_served"]
    BY <1>3 DEF Accept, StartRegister, NextStash, Swapped, SwapExhausted,
         Logged, TypeOK, EventType
  <2>3. row'.step_index = row.step_index
    BY <1>3 DEF Accept, StartRegister, NextStash, Swapped, SwapExhausted,
         SwappedRow, TypeOK, Row
  <2>4. /\ pc'[w] \in AnswerStages <=> pc[w] \in AnswerStages
        /\ pc'[w] \in ServeStages <=> pc[w] \in ServeStages
    BY <1>3 DEF Accept, StartRegister, NextStash, Swapped, SwapExhausted,
         Respond, Receive, AnswerStages, ServeStages, TypeOK
  <2> QED BY <1>1, <2>1, <2>2, <2>3, <2>4, OwnStep, TrailsKept
<1> QED BY <1>2, <1>3 DEF Counting, Begin, Proceed

\* An answer counts in the row first and in the events afterwards; in between
\* its worker stands for it.
LEMMA AnswerTrails ==
  ASSUME TypeOK, TrailsInv, NEW w \in Worker,
         AnswerCommit(w) \/ AnswerReread(w) \/ AnswerEvent(w)
  PROVE  TrailsInv'
<1>0. Begin(w) \/ Proceed(w) \/ Lose(w)
  BY DEF Proceed
<1> USE DEF AnswerStages, ServeStages
<1>1. \A v \in Worker \ {w} : pc'[v] = pc[v]
  BY <1>0, OwnStep
<1>2. CASE AnswerCommit(w)
  <2>1. UNCHANGED <<exists, recommendation, failures, events>>
        /\ pc[w] = "answer_commit" /\ pc'[w] = "answer_reread"
    BY <1>2 DEF AnswerCommit, Goto, TypeOK
  <2>2. Found => row'.step_index = row.step_index + 1
    BY <1>2 DEF AnswerCommit, AnsweredRow, TypeOK, Row
  <2>3. /\ Busy(AnswerStages)' = Busy(AnswerStages) + 1
        /\ Busy(ServeStages)' = Busy(ServeStages)
    BY <1>1, <2>1, Moved
  <2>4. Found' = Found
    BY <2>1 DEF Found
  <2> QED BY <2>1, <2>2, <2>3, <2>4, Moved, TrailNumbers, <1>1
          DEF TrailsInv, AnswersTrail, ServedTrails
<1>3. CASE AnswerReread(w)
  <2>1. UNCHANGED <<exists, row, recommendation, events>>
    BY <1>3 DEF AnswerReread, tables
  <2>2. CASE Found
    <3>1. failures' = failures /\ pc[w] = "answer_reread" /\ pc'[w] = "answer_event"
      BY <1>3, <2>2 DEF AnswerReread, Goto, TypeOK
    <3> QED BY <1>1, <2>1, <2>2, <3>1, TrailsKept
  <2>3. CASE ~Found
    BY <2>1, <2>3 DEF Found, TrailsInv
  <2> QED BY <2>2, <2>3
<1>4. CASE AnswerEvent(w)
  <2>1. UNCHANGED <<exists, recommendation, failures, row>>
        /\ pc[w] = "answer_event" /\ pc'[w] = "idle"
    BY <1>4 DEF AnswerEvent, Respond, TypeOK
  <2>2. /\ events'["answer"] = events["answer"] + 1
        /\ events'["result_served"] = events["result_served"]
    BY <1>4 DEF AnswerEvent, Logged, TypeOK, EventType
  <2>3. /\ Busy(AnswerStages)' = Busy(AnswerStages) - 1
        /\ Busy(ServeStages)' = Busy(ServeStages)
    BY <1>1, <2>1, Moved
  <2>4. Found' = Found
    BY <2>1 DEF Found
  <2>5. Busy(AnswerStages) \in Nat /\ Busy(ServeStages) \in Nat
    BY <1>1, Moved
  <2>6. /\ events'["answer"] + Busy(AnswerStages)' = events["answer"] + Busy(AnswerStages)
        /\ UNCHANGED <<row, recommendation, failures>>
    BY <2>1, <2>2, <2>3, <2>5, TrailNumbers
  <2> QED BY <2>2, <2>3, <2>4, <2>6 DEF TrailsInv, AnswersTrail, ServedTrails
<1> QED BY <1>2, <1>3, <1>4

\* So does a recommendation.
LEMMA FinalizeTrails ==
  ASSUME TypeOK, TrailsInv, NEW w \in Worker,
         FinalizeRead(w) \/ FinalizeCommit(w) \/ FinalizeEvent(w)
  PROVE  TrailsInv'
<1>0. Begin(w) \/ Proceed(w) \/ Lose(w)
  BY DEF Proceed
<1> USE DEF AnswerStages, ServeStages
<1>1. \A v \in Worker \ {w} : pc'[v] = pc[v]
  BY <1>0, OwnStep
<1>2. CASE FinalizeRead(w)
  <2>1. UNCHANGED <<exists, row, recommendation, events, failures>>
    BY <1>2 DEF FinalizeRead, Goto, Respond, tables
  <2>2. pc[w] = "finalize_read"
        /\ pc'[w] \in {"idle", "finalize_tally", "finalize_commit"}
    BY <1>2 DEF FinalizeRead, Goto, Respond, TypeOK
  <2>3. /\ Busy(AnswerStages)' = Busy(AnswerStages)
        /\ Busy(ServeStages)' \in {Busy(ServeStages), Busy(ServeStages) + 1}
    BY <1>1, <2>2, Moved
  <2>4. Found' = Found
    BY <2>1 DEF Found
  <2> QED BY <2>1, <2>3, <2>4, Moved, TrailNumbers, <1>1
          DEF TrailsInv, AnswersTrail, ServedTrails
<1>3. CASE FinalizeCommit(w)
  <2>1. UNCHANGED <<exists, events, failures>>
        /\ pc[w] = "finalize_commit" /\ pc'[w] = "finalize_tally"
    BY <1>3 DEF FinalizeCommit, Goto, TypeOK
  <2>2. row'.step_index = row.step_index
    BY <1>3 DEF FinalizeCommit, TypeOK, Row
  <2>3. Len(recommendation') = Len(recommendation) + 1
    <3>1. PICK d \in Dish : recommendation' = Recommended(w, d)
      BY <1>3 DEF FinalizeCommit, Picks
    <3>2. [name |-> d, question_log |-> snap[w].log] \in Recommendation
      BY DEF Recommendation, TypeOK, Snapshot
    <3> QED BY <3>1, <3>2 DEF Recommended, TypeOK
  <2>4. /\ Busy(AnswerStages)' = Busy(AnswerStages)
        /\ Busy(ServeStages)' = Busy(ServeStages) + 1
    BY <1>1, <2>1, Moved
  <2>5. Found' = Found
    BY <2>1 DEF Found
  <2> QED BY <2>1, <2>2, <2>3, <2>4, <2>5, Moved, TrailNumbers, <1>1
          DEF TrailsInv, AnswersTrail, ServedTrails
<1>4. CASE FinalizeEvent(w)
  <2>1. UNCHANGED <<exists, recommendation, failures, row>>
        /\ pc[w] = "finalize_event" /\ pc'[w] = "idle"
    BY <1>4 DEF FinalizeEvent, Respond, TypeOK
  <2>2. /\ events'["answer"] = events["answer"]
        /\ events'["result_served"] = events["result_served"] + 1
    BY <1>4 DEF FinalizeEvent, Served, TypeOK, EventType
  <2>3. /\ Busy(AnswerStages)' = Busy(AnswerStages)
        /\ Busy(ServeStages)' = Busy(ServeStages) - 1
    BY <1>1, <2>1, Moved
  <2>4. Found' = Found
    BY <2>1 DEF Found
  <2> QED BY <2>1, <2>2, <2>3, <2>4, Moved, TrailNumbers, <1>1
          DEF TrailsInv, AnswersTrail, ServedTrails
<1> QED BY <1>2, <1>3, <1>4

\* A request that is lost leaves the stages for the failures.
LEMMA LostTrails ==
  ASSUME TypeOK, TrailsInv, NEW w \in Worker, Lose(w)
  PROVE  TrailsInv'
<1> USE DEF AnswerStages, ServeStages
<1>1. /\ UNCHANGED <<exists, row, recommendation, events>>
      /\ failures' = failures + 1 /\ pc'[w] = "idle"
  BY DEF Lose, tables, TypeOK
<1>2. \A v \in Worker \ {w} : pc'[v] = pc[v]
  BY OwnStep
<1>3. /\ Busy(AnswerStages) \in Nat /\ Busy(ServeStages) \in Nat
      /\ Busy(AnswerStages)' \in Int /\ Busy(ServeStages)' \in Int
      /\ Busy(AnswerStages)' <= Busy(AnswerStages)
      /\ Busy(AnswerStages) <= Busy(AnswerStages)' + 1
      /\ Busy(ServeStages) <= Busy(ServeStages)' + 1
  <2>1. Busy(AnswerStages) \in Nat /\ Busy(ServeStages) \in Nat
    BY <1>2, Moved
  <2>2. /\ Busy(AnswerStages)' = Busy(AnswerStages)
             - (IF pc[w] \in AnswerStages THEN 1 ELSE 0)
        /\ Busy(ServeStages)' = Busy(ServeStages)
             - (IF pc[w] \in ServeStages THEN 1 ELSE 0)
    BY <1>1, <1>2, Moved
  <2> QED BY <2>1, <2>2
<1>4. Found' = Found
  BY <1>1 DEF Found
<1>5. ASSUME Found, TrailsInv PROVE AnswersTrail' /\ ServedTrails'
  <2>1. AnswersTrail'
    BY <1>1, <1>3, <1>5, TrailNumbers DEF TrailsInv, AnswersTrail
  <2>2. ServedTrails'
    BY <1>1, <1>3, <1>5, TrailNumbers DEF TrailsInv, ServedTrails
  <2> QED BY <2>1, <2>2
<1> QED BY <1>4, <1>5 DEF TrailsInv

\* The session begins with nothing counted and nobody at work, and a cleared
\* one is no longer compared.
LEMMA BirthTrails ==
  ASSUME TypeOK, BirthInv, NEW w \in Worker, StartCreate(w) \/ Clear(w)
  PROVE  TrailsInv'
<1> USE DEF AnswerStages, ServeStages
<1>1. CASE StartCreate(w)
  <2>1. /\ recommendation' = <<>> /\ row'.step_index = 0 /\ failures' = failures
        /\ events'["answer"] = 0 /\ events'["result_served"] = 0
    BY <1>1 DEF StartCreate, BirthInv, Unborn, NewRow, Goto, EventType
  <2>2. \A v \in Worker : pc'[v] \notin AnswerStages /\ pc'[v] \notin ServeStages
    BY <1>1 DEF StartCreate, BirthInv, Unborn, Goto, TypeOK
  <2>3. Busy(AnswerStages)' = 0 /\ Busy(ServeStages)' = 0
    <3>1. /\ {v \in Worker : pc'[v] \in AnswerStages} = {}
          /\ {v \in Worker : pc'[v] \in ServeStages} = {}
      BY <2>2
    <3> QED BY <3>1, FS_EmptySet, Zenon DEF Busy
  <2> QED BY <2>1, <2>3 DEF TrailsInv, AnswersTrail, ServedTrails, TypeOK
<1>2. CASE Clear(w)
  BY <1>2 DEF Clear, Found, TrailsInv
<1> QED BY <1>1, <1>2

\* The trails hold in every reachable state.
THEOREM TrailsInvariant == Spec => []TrailsInv
<1>1. Init => TrailsInv
  BY DEF Init, TrailsInv, Found
<1>2. TypeOK /\ BirthInv /\ TrailsInv /\ [Next]_vars => TrailsInv'
  <2> SUFFICES ASSUME TypeOK, BirthInv, TrailsInv, [Next]_vars
               PROVE  TrailsInv'
    OBVIOUS
  <2>1. CASE UNCHANGED vars \/ Rest
    BY <2>1 DEF vars, Rest, TrailsInv, AnswersTrail, ServedTrails, Busy, Found
  <2>2. ASSUME NEW w \in Worker, Begin(w) \/ Proceed(w) \/ Lose(w)
        PROVE  TrailsInv'
    BY <2>2, SilentTrails, AnswerTrails, FinalizeTrails, LostTrails,
       BirthTrails DEF Counting
  <2> QED BY <2>1, <2>2 DEF Next
<1> QED BY <1>1, <1>2, TypeCorrect, BirthInvariant, PTL DEF Spec

ServedInv == Found => ServedSome

\* A finalize that is about to count its result has it from a recommendation.
LEMMA ServedKept ==
  ASSUME TypeOK, BirthInv, ShownInv, ServedInv, NEW w \in Worker,
         Begin(w) \/ Proceed(w) \/ Lose(w)
  PROVE  ServedInv'
<1>1. CASE StartCreate(w)
  BY <1>1 DEF StartCreate, BirthInv, Unborn, ServedInv, ServedSome, EventType
<1>2. CASE Clear(w)
  BY <1>2 DEF Clear, Found, ServedInv
<1>3. CASE FinalizeCommit(w)
  <2>1. recommendation' # <<>>
    <3>1. PICK d \in Dish : recommendation' = Recommended(w, d)
      BY <1>3 DEF FinalizeCommit, Picks
    <3> QED BY <3>1 DEF Recommended, TypeOK
  <2> QED BY <2>1 DEF ServedInv, ServedSome
<1>4. CASE FinalizeEvent(w)
  <2>1. UNCHANGED <<exists, recommendation>> /\ pc[w] = "finalize_event"
    BY <1>4 DEF FinalizeEvent
  <2>2. Found => recommendation # <<>>
    BY <2>1 DEF ShownInv, OnRecord, TypeOK
  <2> QED BY <2>1, <2>2 DEF ServedInv, ServedSome, Found
<1>5. CASE ~StartCreate(w) /\ ~Clear(w) /\ ~FinalizeCommit(w)
           /\ ~FinalizeEvent(w)
  <2>1. Found' = Found /\ UNCHANGED recommendation
    BY <1>5 DEF Begin, NextRead, AnswerCheck, FinalizeCheck, SwapCheck,
       Accept, Proceed, StartReread, StartRegister, NextStash, AnswerRead,
       AnswerCommit, AnswerReread, AnswerEvent, FinalizeRead, FinalizeTally,
       Swapped, SwapPending, SwapRefused, SwapExhausted, Lose, tables, Found
  <2>2. events'["result_served"] = events["result_served"]
    <3>1. CASE Accept(w) \/ StartRegister(w) \/ AnswerEvent(w)
               \/ Swapped(w) \/ SwapExhausted(w)
      BY <3>1 DEF Accept, StartRegister, AnswerEvent, Swapped, SwapExhausted,
         Logged, TypeOK, EventType
    <3>2. CASE ~(Accept(w) \/ StartRegister(w) \/ AnswerEvent(w)
                 \/ Swapped(w) \/ SwapExhausted(w))
      BY <1>5, <3>2 DEF Begin, NextRead, AnswerCheck, FinalizeCheck,
         SwapCheck, Proceed, StartReread, NextStash, AnswerRead, AnswerCommit,
         AnswerReread, FinalizeRead, FinalizeTally, SwapPending, SwapRefused,
         Lose, tables
    <3> QED BY <3>1, <3>2
  <2> QED BY <2>1, <2>2 DEF ServedInv, ServedSome
<1> QED BY <1>1, <1>2, <1>3, <1>4, <1>5

\* The answer events never run ahead of the row and trail it by the requests
\* under way or lost; the results served trail the recommendations by no more,
\* and there is none without a recommendation.
THEOREM EventsDoTrail == Spec => []EventsTrail
<1>1. Init => ServedInv
  BY DEF Init, ServedInv, Found
<1>2. TypeOK /\ BirthInv /\ ShownInv /\ ServedInv /\ [Next]_vars => ServedInv'
  <2> SUFFICES ASSUME TypeOK, BirthInv, ShownInv, ServedInv, [Next]_vars
               PROVE  ServedInv'
    OBVIOUS
  <2>1. CASE UNCHANGED vars \/ Rest
    BY <2>1 DEF vars, Rest, ServedInv, ServedSome, Found
  <2>2. ASSUME NEW w \in Worker, Begin(w) \/ Proceed(w) \/ Lose(w)
        PROVE  ServedInv'
    BY <2>2, ServedKept
  <2> QED BY <2>1, <2>2 DEF Next
<1>3. TrailsInv /\ ServedInv => EventsTrail
  BY DEF TrailsInv, ServedInv, EventsTrail
<1> QED BY <1>1, <1>2, <1>3, TypeCorrect, BirthInvariant, ShownInvariant,
           TrailsInvariant, PTL DEF Spec

----------------------------------------------------------------------------
(* The races there have been.                                              *)

\* A stage at which no two workers have been at once has no two now.
Apart ==
  \A s \in Carrying \ raced : \A v, w \in Worker :
    pc[v] = s /\ pc[w] = s => v = w

\* A worker comes to a stage by Goto, which notes whom it finds there.
LEMMA ApartKept ==
  ASSUME TypeOK, Apart, NEW w \in Worker, Begin(w) \/ Proceed(w) \/ Lose(w)
  PROVE  raced \subseteq raced' /\ Apart'
<1>1. \A v \in Worker \ {w} : pc'[v] = pc[v]
  BY OwnStep
<1>2. \/ \E s \in Stage : Goto(w, s)
      \/ pc'[w] = "idle" /\ raced' = raced
  <2>1. CASE StartCreate(w) \/ AnswerCommit(w) \/ FinalizeCommit(w)
             \/ FinalizeTally(w) \/ SwapRefused(w)
    BY <2>1 DEF StartCreate, AnswerCommit, FinalizeCommit, FinalizeTally,
       SwapRefused, Stage
  <2>2. CASE NextRead(w) \/ AnswerCheck(w) \/ FinalizeCheck(w) \/ SwapCheck(w)
             \/ StartReread(w) \/ AnswerRead(w) \/ AnswerReread(w)
             \/ FinalizeRead(w)
    BY <2>2 DEF NextRead, AnswerCheck, FinalizeCheck, SwapCheck, StartReread,
       AnswerRead, AnswerReread, FinalizeRead, Respond, Stage, TypeOK
  <2>3. CASE Accept(w) \/ Clear(w) \/ StartRegister(w) \/ NextStash(w)
             \/ AnswerEvent(w) \/ FinalizeEvent(w) \/ Swapped(w)
             \/ SwapPending(w) \/ SwapExhausted(w) \/ Lose(w)
    BY <2>3 DEF Accept, Clear, StartRegister, NextStash, AnswerEvent,
       FinalizeEvent, Swapped, SwapPending, SwapExhausted, Lose, Respond,
       TypeOK
  <2> QED BY <2>1, <2>2, <2>3 DEF Begin, Proceed
<1>3. CASE pc'[w] = "idle" /\ raced' = raced
  BY <1>1, <1>3 DEF Apart, Carrying
<1>4. ASSUME NEW s \in Stage, Goto(w, s) PROVE raced \subseteq raced' /\ Apart'
  <2>1. pc'[w] = s
    BY <1>4 DEF Goto, TypeOK
  <2>2. raced \subseteq raced'
    BY <1>4 DEF Goto
  <2>3. s \in Carrying \ raced' => \A v \in Worker \ {w} : pc[v] # s
    BY <1>4 DEF Goto
  <2> QED BY <1>1, <2>1, <2>2, <2>3 DEF Apart
<1> QED BY <1>2, <1>3, <1>4

\* Stages without a race keep their workers apart, and races stay noted.
LEMMA ApartStep ==
  ASSUME TypeOK, Apart, [Next]_vars
  PROVE  raced \subseteq raced' /\ Apart'
<1>1. CASE UNCHANGED vars \/ Rest
  BY <1>1 DEF vars, Rest, Apart
<1>2. ASSUME NEW w \in Worker, Begin(w) \/ Proceed(w) \/ Lose(w)
      PROVE  raced \subseteq raced' /\ Apart'
  BY <1>2, ApartKept
<1> QED BY <1>1, <1>2 DEF Next

\* What is noted as raced is all that raced.
THEOREM ApartInvariant == Spec => []Apart
<1>1. Init => Apart
  BY DEF Init, Apart, Carrying
<1> QED BY <1>1, ApartStep, TypeCorrect, PTL DEF Spec

----------------------------------------------------------------------------
(* Two answers whose commits do not overlap: the path stays complete.      *)

\* No two answers of the session are both between their read of the log and
\* the UPDATE that writes it back.  Every other overlap is allowed.
AnswersApart ==
  \A v, w \in Worker : pc[v] = "answer_commit" /\ pc[w] = "answer_commit"
                         => v = w

Begins(path, log) == /\ Len(path) <= Len(log)
                     /\ \A i \in 1 .. Len(path) : path[i] = log[i]

\* What an answer carries to its commit is still what the row holds; what a
\* finalize carries to its own is a beginning of it.
Fresh ==
  \A w \in Worker :
    /\ pc[w] = "answer_commit" =>
         snap[w].log = row.question_log /\ snap[w].step = row.step_index
    /\ pc[w] = "finalize_commit" => Begins(snap[w].log, row.question_log)

LogComplete ==
  /\ Len(row.question_log) = row.step_index
  /\ \A i \in 1 .. Len(row.question_log) : row.question_log[i].step = i - 1

PathsBegin ==
  \A i \in 1 .. Len(recommendation) :
    Begins(recommendation[i].question_log, row.question_log)

PathsInv == Found => Fresh /\ LogComplete /\ PathsBegin

\* A step that writes neither log nor step and leads to no commit.
LEMMA PathsKept ==
  ASSUME TypeOK, PathsInv, NEW w \in Worker, Found' => Found,
         UNCHANGED recommendation,
         row'.question_log = row.question_log,
         row'.step_index = row.step_index,
         \A v \in Worker \ {w} : pc'[v] = pc[v] /\ snap'[v] = snap[v],
         pc'[w] \notin {"answer_commit", "finalize_commit"}
  PROVE  PathsInv'
<1>1. Found /\ Fresh => Fresh'
  BY DEF Fresh, Begins
<1>2. LogComplete => LogComplete'
  BY DEF LogComplete
<1>3. PathsBegin => PathsBegin'
  BY DEF PathsBegin, Begins
<1> QED BY <1>1, <1>2, <1>3 DEF PathsInv

\* The steps that begin a request.
LEMMA BeginPaths ==
  ASSUME TypeOK, BirthInv, PathsInv, NEW w \in Worker, Begin(w)
  PROVE  PathsInv'
<1>1. CASE StartCreate(w)
  <2>1. /\ recommendation' = <<>> /\ row' = NewRow
        /\ \A v \in Worker : pc'[v] \in {"idle", "start_reread"}
    BY <1>1 DEF StartCreate, BirthInv, Unborn, Goto, TypeOK
  <2>2. Fresh'
    BY <2>1 DEF Fresh
  <2>3. LogComplete'
    BY <2>1 DEF LogComplete, NewRow
  <2>4. PathsBegin'
    BY <2>1 DEF PathsBegin
  <2> QED BY <2>2, <2>3, <2>4 DEF PathsInv
<1>2. CASE Clear(w)
  BY <1>2 DEF Clear, Found, PathsInv
<1>3. CASE NextRead(w) \/ AnswerCheck(w) \/ FinalizeCheck(w) \/ SwapCheck(w)
           \/ Accept(w)
  <2>1. Found' = Found /\ UNCHANGED <<row, recommendation>>
    BY <1>3 DEF NextRead, AnswerCheck, FinalizeCheck, SwapCheck, Accept,
         Found, tables
  <2>2. pc'[w] \notin {"answer_commit", "finalize_commit"}
    BY <1>3 DEF NextRead, AnswerCheck, FinalizeCheck, SwapCheck, Accept,
         Goto, Respond, TypeOK
  <2> QED BY <2>1, <2>2, OwnStep, PathsKept
<1> QED BY <1>1, <1>2, <1>3 DEF Begin

\* The reads of a handler that will commit.
LEMMA ReadPaths ==
  ASSUME TypeOK, PathsInv, NEW w \in Worker, AnswerRead(w) \/ FinalizeRead(w)
  PROVE  PathsInv'
<1>1. \A v \in Worker \ {w} : pc'[v] = pc[v] /\ snap'[v] = snap[v]
  BY OwnStep DEF Proceed
<1>2. Found' = Found /\ UNCHANGED <<row, recommendation>>
  BY DEF AnswerRead, FinalizeRead, tables, Found
<1>3. CASE AnswerRead(w) /\ Found
  <2>1. /\ snap'[w].log = row.question_log /\ snap'[w].step = row.step_index
        /\ pc'[w] = "answer_commit"
    BY <1>3 DEF AnswerRead, Goto, TypeOK, Snapshot
  <2>2. Fresh'
    BY <1>1, <1>2, <1>3, <2>1 DEF PathsInv, Fresh, Begins
  <2> QED BY <1>2, <1>3, <2>2
          DEF PathsInv, LogComplete, PathsBegin, Begins
<1>4. CASE FinalizeRead(w) /\ Found /\ ~Solidified
  <2>1. snap'[w].log = row.question_log /\ pc'[w] = "finalize_commit"
    BY <1>4 DEF FinalizeRead, Goto, TypeOK, Snapshot
  <2>2. Len(row.question_log) \in Nat
    BY DEF TypeOK, Row
  <2>3. Fresh'
    BY <1>1, <1>2, <1>4, <2>1, <2>2 DEF PathsInv, Fresh, Begins
  <2> QED BY <1>2, <1>4, <2>3
          DEF PathsInv, LogComplete, PathsBegin, Begins
<1>5. CASE ~Found \/ (FinalizeRead(w) /\ Solidified)
  BY <1>1, <1>2, <1>5, PathsKept
     DEF AnswerRead, FinalizeRead, Goto, Respond, TypeOK
<1> QED BY <1>3, <1>4, <1>5

\* One answer is appended at the end of the path, under its step; a finalize
\* under way still carries a beginning of it.
LEMMA AnswerPaths ==
  ASSUME TypeOK, PathsInv, AnswersApart, NEW w \in Worker, AnswerCommit(w),
         Found
  PROVE  PathsInv'
<1>1. /\ snap[w].log = row.question_log /\ snap[w].step = row.step_index
      /\ Fresh /\ LogComplete /\ PathsBegin
  BY DEF PathsInv, Fresh, AnswerCommit
<1>2. /\ \A v \in Worker : pc'[v] # "answer_commit"
      /\ \A v \in Worker : pc'[v] = "finalize_commit"
                             => pc[v] = "finalize_commit"
      /\ UNCHANGED snap
  BY DEF AnswerCommit, AnswersApart, Goto, TypeOK
<1> DEFINE log == row.question_log
<1>3. Answered(w) \in Entry /\ log \in Seq(Entry) /\ row.step_index \in Nat
      /\ Answered(w).step = row.step_index
  BY <1>1 DEF Answered, TypeOK, Snapshot, Entry, Row
<1>4. row'.question_log = Append(log, Answered(w))
      /\ row'.step_index = row.step_index + 1 /\ UNCHANGED recommendation
  BY <1>1 DEF AnswerCommit, AnsweredRow, TypeOK, Row
<1>5. /\ Len(row'.question_log) = Len(log) + 1
      /\ \A i \in 1 .. Len(log) : row'.question_log[i] = log[i]
      /\ row'.question_log[Len(log) + 1] = Answered(w)
      /\ Len(log) \in Nat
  BY <1>3, <1>4
<1>6. LogComplete'
  BY <1>1, <1>3, <1>4, <1>5 DEF LogComplete
<1>7. ASSUME NEW path, Len(path) \in Nat, Begins(path, log)
      PROVE  Begins(path, row'.question_log)
  BY <1>5, <1>7 DEF Begins
<1>8. PathsBegin'
  <2> SUFFICES ASSUME NEW i \in 1 .. Len(recommendation)
               PROVE  Begins(recommendation[i].question_log, row'.question_log)
    BY <1>4 DEF PathsBegin, Begins
  <2>1. Begins(recommendation[i].question_log, log)
    BY <1>1 DEF PathsBegin
  <2>2. Len(recommendation[i].question_log) \in Nat
    BY DEF TypeOK, Recommendation
  <2> QED BY <1>7, <2>1, <2>2
<1>9. Fresh'
  <2> SUFFICES ASSUME NEW v \in Worker, pc'[v] = "finalize_commit"
               PROVE  Begins(snap[v].log, row'.question_log)
    BY <1>2 DEF Fresh, Begins
  <2>1. Begins(snap[v].log, log)
    BY <1>1, <1>2 DEF Fresh
  <2>2. Len(snap[v].log) \in Nat
    BY DEF TypeOK, Snapshot
  <2> QED BY <1>7, <2>1, <2>2
<1> QED BY <1>6, <1>8, <1>9 DEF PathsInv

\* A recommendation is stored with a beginning of the path.
LEMMA FinalizePaths ==
  ASSUME TypeOK, PathsInv, NEW w \in Worker, FinalizeCommit(w), Found
  PROVE  PathsInv'
<1>1. /\ Begins(snap[w].log, row.question_log)
      /\ Fresh /\ LogComplete /\ PathsBegin
  BY DEF PathsInv, Fresh, FinalizeCommit
<1>2. /\ pc'[w] = "finalize_tally"
      /\ \A v \in Worker \ {w} : pc'[v] = pc[v] /\ snap'[v] = snap[v]
  BY DEF FinalizeCommit, Goto, TypeOK
<1>3. PICK d \in Dish :
        /\ row' = [row EXCEPT !.state = "done", !.result = d]
        /\ recommendation' = Append(recommendation,
                               [name |-> d, question_log |-> snap[w].log])
  BY DEF FinalizeCommit, Picks, Recommended
<1>4. row'.question_log = row.question_log /\ row'.step_index = row.step_index
  BY <1>3 DEF TypeOK, Row
<1>5. LogComplete'
  BY <1>1, <1>4 DEF LogComplete
<1>6. PathsBegin'
  <2> DEFINE r == [name |-> d, question_log |-> snap[w].log]
             n == Len(recommendation)
  <2>1. r \in Recommendation /\ recommendation \in Seq(Recommendation)
    BY DEF Recommendation, TypeOK, Snapshot
  <2>2. /\ Len(recommendation') = n + 1 /\ n \in Nat
        /\ \A i \in 1 .. n : recommendation'[i] = recommendation[i]
        /\ recommendation'[n + 1] = r
    BY <1>3, <2>1
  <2>3. \A i \in 1 .. n :
          Begins(recommendation'[i].question_log, row'.question_log)
    BY <1>1, <1>4, <2>2 DEF PathsBegin
  <2>4. Begins(recommendation'[n + 1].question_log, row'.question_log)
    BY <1>1, <1>4, <2>2
  <2>5. ASSUME NEW i \in 1 .. n + 1
        PROVE  Begins(recommendation'[i].question_log, row'.question_log)
    BY <2>2, <2>3, <2>4
  <2> HIDE DEF n
  <2> QED BY <2>2, <2>5 DEF PathsBegin, Begins
<1>7. Fresh'
  <2> SUFFICES ASSUME NEW v \in Worker,
                      pc'[v] \in {"answer_commit", "finalize_commit"}
               PROVE  /\ pc'[v] = "answer_commit" =>
                           /\ snap'[v].log = row'.question_log
                           /\ snap'[v].step = row'.step_index
                      /\ pc'[v] = "finalize_commit" =>
                           Begins(snap'[v].log, row'.question_log)
    BY DEF Fresh, Begins
  <2>1. pc'[v] = pc[v] /\ snap'[v] = snap[v]
    BY <1>2
  <2> QED BY <1>1, <1>4, <2>1 DEF Fresh
<1> QED BY <1>5, <1>6, <1>7 DEF PathsInv

\* The later steps of a handler.
LEMMA ProceedPaths ==
  ASSUME TypeOK, PathsInv, AnswersApart, NEW w \in Worker, Proceed(w)
  PROVE  PathsInv'
<1>1. CASE AnswerRead(w) \/ FinalizeRead(w)
  BY <1>1, ReadPaths
<1>2. CASE (AnswerCommit(w) \/ FinalizeCommit(w)) /\ Found
  BY <1>2, AnswerPaths, FinalizePaths
<1>3. CASE (AnswerCommit(w) \/ FinalizeCommit(w)) /\ ~Found
  BY <1>3 DEF AnswerCommit, FinalizeCommit, PathsInv, Found
<1>4. CASE StartReread(w) \/ AnswerReread(w) \/ FinalizeTally(w)
           \/ SwapPending(w) \/ SwapRefused(w) \/ StartRegister(w)
           \/ AnswerEvent(w) \/ SwapExhausted(w) \/ FinalizeEvent(w)
  <2>1. Found' = Found /\ UNCHANGED <<row, recommendation>>
    BY <1>4 DEF StartReread, AnswerReread, FinalizeTally, SwapPending,
         SwapRefused, StartRegister, AnswerEvent, SwapExhausted,
         FinalizeEvent, tables, Found
  <2>2. pc'[w] \notin {"answer_commit", "finalize_commit"}
    BY <1>4 DEF StartReread, AnswerReread, FinalizeTally, SwapPending,
         SwapRefused, StartRegister, AnswerEvent, SwapExhausted,
         FinalizeEvent, Goto, Respond, TypeOK
  <2> QED BY <2>1, <2>2, OwnStep, PathsKept
<1>5. CASE NextStash(w) \/ Swapped(w)
  <2>1. Found' = Found /\ UNCHANGED recommendation
    BY <1>5 DEF NextStash, Swapped, Found
  <2>2. /\ row'.question_log = row.question_log
        /\ row'.step_index = row.step_index
    BY <1>5 DEF NextStash, Swapped, SwappedRow, TypeOK, Row
  <2>3. pc'[w] = "idle"
    BY <1>5 DEF NextStash, Swapped, Respond, TypeOK
  <2> QED BY <2>1, <2>2, <2>3, OwnStep, PathsKept
<1> QED BY <1>1, <1>2, <1>3, <1>4, <1>5 DEF Proceed

PathsUnraced == "answer_commit" \notin raced => PathsInv

\* What is carried, kept and stored stays consistent until two answers have
\* raced, whatever the finalizes, swaps and clears beside them do.
THEOREM PathsInvariant == Spec => []PathsUnraced
<1>1. Init => PathsUnraced
  BY DEF Init, PathsUnraced, PathsInv, Found
<1>2. TypeOK /\ BirthInv /\ Apart /\ PathsUnraced /\ [Next]_vars
        => PathsUnraced'
  <2> SUFFICES ASSUME TypeOK, BirthInv, Apart, PathsUnraced, [Next]_vars,
                      "answer_commit" \notin raced'
               PROVE  PathsInv'
    BY DEF PathsUnraced
  <2>0. AnswersApart /\ PathsInv
    BY ApartStep DEF Apart, AnswersApart, PathsUnraced, Carrying
  <2>1. CASE UNCHANGED vars \/ Rest
    <3>1. UNCHANGED <<row, recommendation, pc, snap>> /\ Found' = Found
      BY <2>1 DEF vars, Rest, Found
    <3>2. (Fresh => Fresh') /\ (LogComplete => LogComplete')
      BY <3>1 DEF Fresh, LogComplete, Begins
    <3>3. PathsBegin => PathsBegin'
      BY <3>1 DEF PathsBegin, Begins
    <3> QED BY <2>0, <3>1, <3>2, <3>3 DEF PathsInv
  <2>2. ASSUME NEW w \in Worker, Begin(w) \/ Proceed(w) PROVE PathsInv'
    BY <2>0, <2>2, BeginPaths, ProceedPaths
  <2>3. ASSUME NEW w \in Worker, Lose(w) PROVE PathsInv'
    <3>1. UNCHANGED <<row, recommendation>> /\ Found' = Found /\ pc'[w] = "idle"
      BY <2>3 DEF Lose, tables, Found, TypeOK
    <3> QED BY <2>0, <2>3, <3>1, OwnStep, PathsKept
  <2> QED BY <2>1, <2>2, <2>3 DEF Next
<1> QED BY <1>1, <1>2, TypeCorrect, BirthInvariant, ApartInvariant, PTL
        DEF Spec

\* Until two answers have raced the log is the complete path of answers, and
\* what was stored with a recommendation is a beginning of it.
THEOREM PathsStayComplete == Spec => []PathsAreComplete
<1>1. TypeOK /\ PathsUnraced => PathsAreComplete
  <2> SUFFICES ASSUME TypeOK, PathsInv, Found PROVE
         /\ Len(row.question_log) = row.step_index
         /\ \A i \in DOMAIN row.question_log : row.question_log[i].step = i - 1
         /\ \A i \in DOMAIN recommendation :
              recommendation[i].question_log =
                SubSeq(row.question_log, 1, Len(recommendation[i].question_log))
    BY DEF PathsAreComplete, PathsUnraced
  <2>1. row.question_log \in Seq(Entry) /\ recommendation \in Seq(Recommendation)
    BY DEF TypeOK, Row
  <2>2. LogComplete /\ PathsBegin
    BY DEF PathsInv
  <2>3. ASSUME NEW i \in DOMAIN recommendation
        PROVE  recommendation[i].question_log =
                 SubSeq(row.question_log, 1, Len(recommendation[i].question_log))
    <3> DEFINE path == recommendation[i].question_log
               log == row.question_log
    <3>1. path \in Seq(Entry) /\ Begins(path, log)
      <4>1. i \in 1 .. Len(recommendation) /\ recommendation[i] \in Recommendation
        BY <2>1
      <4> QED BY <2>2, <4>1 DEF PathsBegin, Recommendation
    <3> HIDE DEF path, log
    <3>2. Len(path) \in Nat /\ log \in Seq(Entry)
      BY <2>1, <3>1 DEF log
    <3>3. \A j \in 1 .. Len(path) : log[j] \in Entry /\ path[j] = log[j]
      BY <3>1, <3>2 DEF Begins
    <3>4. /\ SubSeq(log, 1, Len(path)) \in Seq(Entry)
          /\ Len(SubSeq(log, 1, Len(path))) = Len(path)
          /\ \A j \in 1 .. Len(path) : SubSeq(log, 1, Len(path))[j] = log[j]
      BY <3>1, <3>2, <3>3
    <3>5. path = SubSeq(log, 1, Len(path))
      BY <3>1, <3>3, <3>4, SeqEqual
    <3> QED BY <3>5 DEF path, log
  <2>4. DOMAIN row.question_log = 1 .. Len(row.question_log)
    BY <2>1
  <2>5. ASSUME NEW i \in DOMAIN row.question_log
        PROVE  row.question_log[i].step = i - 1
    BY <2>2, <2>4 DEF LogComplete
  <2>6. Len(row.question_log) = row.step_index
    BY <2>2 DEF LogComplete
  <2> QED BY <2>3, <2>5, <2>6, Zenon
<1> QED BY <1>1, TypeCorrect, PathsInvariant, PTL

----------------------------------------------------------------------------
(* Two finalizes whose commits do not overlap: the result is solid.        *)

\* No two finalizes of the session are both between their look at the result
\* and the UPDATE that writes it.  Every other overlap is allowed.
PicksApart ==
  \A v, w \in Worker : pc[v] = "finalize_commit" /\ pc[w] = "finalize_commit"
                         => v = w

\* A finalize under way writes into a round that is still undecided.
SolidInv ==
  Found => \A w \in Worker : pc[w] = "finalize_commit" => row.result = NoDish

\* Nobody reaches the commit but by finding the round undecided, and nobody
\* decides it under another's pick.
LEMMA SolidKept ==
  ASSUME TypeOK, RoundsInv, BirthInv, PicksApart, SolidInv, NEW w \in Worker,
         Begin(w) \/ Proceed(w) \/ Lose(w)
  PROVE  SolidInv'
<1>1. \A v \in Worker \ {w} : pc'[v] = pc[v]
  BY OwnStep
<1>2. CASE StartCreate(w)
  BY <1>2 DEF StartCreate, NewRow, SolidInv
<1>3. CASE Clear(w)
  BY <1>3 DEF Clear, Found, SolidInv
<1>4. CASE FinalizeRead(w)
  <2>1. Found' = Found /\ UNCHANGED row
    BY <1>4 DEF FinalizeRead, tables, Found
  <2>2. Found /\ pc'[w] = "finalize_commit" => row.result = NoDish
    BY <1>4 DEF FinalizeRead, Goto, Respond, TypeOK, Solidified, RoundsInv,
         ResultOnRecord
  <2> QED BY <1>1, <2>1, <2>2 DEF SolidInv
<1>5. CASE FinalizeCommit(w)
  <2>1. \A v \in Worker : pc'[v] # "finalize_commit"
    BY <1>5 DEF FinalizeCommit, PicksApart, Goto, TypeOK
  <2> QED BY <2>1 DEF SolidInv
<1>6. CASE ~StartCreate(w) /\ ~Clear(w) /\ ~FinalizeRead(w)
           /\ ~FinalizeCommit(w)
  <2>1. pc'[w] # "finalize_commit"
    BY <1>6 DEF Begin, NextRead, AnswerCheck, FinalizeCheck, SwapCheck,
         Accept, Proceed, StartReread, StartRegister, NextStash, AnswerRead,
         AnswerCommit, AnswerReread, AnswerEvent, FinalizeTally,
         FinalizeEvent, Swapped, SwapPending, SwapRefused, SwapExhausted,
         Lose, Goto, Respond, TypeOK
  <2>2. Found' = Found
    BY <1>6 DEF Begin, NextRead, AnswerCheck, FinalizeCheck, SwapCheck,
         Accept, Proceed, StartReread, StartRegister, NextStash, AnswerRead,
         AnswerCommit, AnswerReread, AnswerEvent, FinalizeTally,
         FinalizeEvent, Swapped, SwapPending, SwapRefused, SwapExhausted,
         Lose, tables, Found
  <2>3. row'.result \in {row.result, NoDish}
    <3>1. CASE NextStash(w) \/ AnswerCommit(w) \/ Swapped(w)
      BY <3>1 DEF NextStash, AnswerCommit, AnsweredRow, Swapped, SwappedRow,
           TypeOK, Row
    <3>2. CASE ~NextStash(w) /\ ~AnswerCommit(w) /\ ~Swapped(w)
      BY <1>6, <3>2 DEF Begin, NextRead, AnswerCheck, FinalizeCheck,
           SwapCheck, Accept, Proceed, StartReread, StartRegister, AnswerRead,
           AnswerReread, AnswerEvent, FinalizeTally, FinalizeEvent,
           SwapPending, SwapRefused, SwapExhausted, Lose, tables
    <3> QED BY <3>1, <3>2
  <2> QED BY <1>1, <2>1, <2>2, <2>3 DEF SolidInv
<1> QED BY <1>2, <1>3, <1>4, <1>5, <1>6

SolidUnraced == "finalize_commit" \notin raced => SolidInv

\* Until two finalizes have raced, a finalize under way finds its round
\* undecided until it commits.
THEOREM SolidInvariant == Spec => []SolidUnraced
<1>1. Init => SolidUnraced
  BY DEF Init, SolidUnraced, SolidInv, Found
<1>2. TypeOK /\ RoundsInv /\ BirthInv /\ Apart /\ SolidUnraced /\ [Next]_vars
        => SolidUnraced'
  <2> SUFFICES ASSUME TypeOK, RoundsInv, BirthInv, Apart, SolidUnraced,
                      [Next]_vars, "finalize_commit" \notin raced'
               PROVE  SolidInv'
    BY DEF SolidUnraced
  <2>0. PicksApart /\ SolidInv
    BY ApartStep DEF Apart, PicksApart, SolidUnraced, Carrying
  <2>1. CASE UNCHANGED vars \/ Rest
    BY <2>0, <2>1 DEF vars, Rest, SolidInv, Found
  <2>2. ASSUME NEW w \in Worker, Begin(w) \/ Proceed(w) \/ Lose(w)
        PROVE  SolidInv'
    BY <2>0, <2>2, SolidKept
  <2> QED BY <2>1, <2>2 DEF Next
<1> QED BY <1>1, <1>2, TypeCorrect, RoundsInvariant, BirthInvariant,
           ApartInvariant, PTL DEF Spec

\* Nothing but a swap takes a decided round's dish away.
LEMMA SolidStep ==
  ASSUME TypeOK, RoundsInv, SolidInv, NEW w \in Worker,
         Begin(w) \/ Proceed(w) \/ Lose(w),
         Found, Found', row.result # NoDish, row'.result # NoDish
  PROVE  row'.result = row.result
<1>1. ~StartCreate(w) /\ ~Clear(w)
  BY DEF StartCreate, Clear, Found
<1>2. ~Swapped(w)
  BY DEF Swapped, SwappedRow, TypeOK, Row
<1>3. ~FinalizeCommit(w)
  BY DEF FinalizeCommit, SolidInv
<1>4. CASE NextStash(w) \/ AnswerCommit(w)
  BY <1>4 DEF NextStash, AnswerCommit, AnsweredRow, TypeOK, Row
<1>5. CASE ~NextStash(w) /\ ~AnswerCommit(w)
  BY <1>1, <1>2, <1>3, <1>5 DEF Begin, NextRead, AnswerCheck, FinalizeCheck,
       SwapCheck, Accept, Proceed, StartReread, StartRegister, AnswerRead,
       AnswerReread, AnswerEvent, FinalizeRead, FinalizeTally, FinalizeEvent,
       SwapPending, SwapRefused, SwapExhausted, Lose, tables
<1> QED BY <1>4, <1>5

\* Until two finalizes have raced each step of the session is one of the
\* solid rounds: a decided round keeps its dish until it is swapped away.
THEOREM RoundsAreSolid == Spec => SolidRounds
<1>1. TypeOK /\ RoundsInv /\ SolidInv /\ [Next]_vars
        => [Rounds!SolidNext]_(Rounds!vars)
  <2> SUFFICES ASSUME TypeOK, RoundsInv, SolidInv, [Next]_vars
               PROVE  Rounds!SolidNext \/ UNCHANGED Rounds!vars
    OBVIOUS
  <2>1. CASE UNCHANGED vars \/ Rest
    BY <2>1, RoundsStutter DEF vars, Rest
  <2>2. ASSUME NEW w \in Worker, Begin(w) \/ Proceed(w) \/ Lose(w)
        PROVE  Rounds!SolidNext \/ UNCHANGED Rounds!vars
    <3>1. Rounds!LooseNext \/ UNCHANGED Rounds!vars
      BY <2>2, BeginRefines, ProceedRefines, RoundsStutter DEF Lose, tables
    <3>2. CASE Rounds!DecideAgain
      <4>1. /\ Phase = "open" /\ Phase' = "open" /\ row.result # NoDish
            /\ row'.result \in Dish /\ row'.swap_count = row.swap_count
        BY <3>2 DEF Rounds!DecideAgain
      <4>2. exists = "present"
        BY <4>1 DEF Phase, TypeOK
      <4>3. exists' \in {"present", "deleted"}
        BY <2>2, <4>2, StaysFound DEF StartCreate, Clear, Found
      <4>4. exists' = "present"
        BY <4>1, <4>3 DEF Phase
      <4>5. row'.result = row.result
        BY <2>2, <4>1, <4>2, <4>4, SolidStep, SessionAssumption DEF Found
      <4> QED BY <4>1, <4>2, <4>4, <4>5, RoundsStutter
    <3> QED BY <3>1, <3>2 DEF Rounds!LooseNext
  <2> QED BY <2>1, <2>2 DEF Next
<1>2. TypeOK /\ RoundsInv /\ SolidUnraced /\ [Next]_vars
        => ["finalize_commit" \notin raced => Rounds!SolidNext]_(Rounds!vars)
  BY <1>1 DEF SolidUnraced
<1> QED BY <1>2, TypeCorrect, RoundsInvariant, SolidInvariant, PTL
        DEF Spec, SolidRounds

\* In a behaviour without such a race no step changes the result of a session
\* but a swap: what the run two_finalizes shows needs its second finalize, and
\* needs it between the first one's look at the result and its commit.
THEOREM ResultIsSolid ==
  Spec /\ []("finalize_commit" \notin raced) => ResultSolidified
<1> DEFINE Solid == Found /\ Found' /\ row.result # NoDish /\ row'.result # row.result
                      => row'.swap_count > row.swap_count
<1>1. ASSUME TypeOK, RoundsInv, SolidInv, [Next]_vars PROVE [Solid]_vars
  <2>1. CASE UNCHANGED vars \/ Rest
    BY <2>1 DEF vars, Rest
  <2>2. ASSUME NEW w \in Worker, Begin(w) \/ Proceed(w) \/ Lose(w), ~Solid
        PROVE  FALSE
    <3>1. row'.result = NoDish
      BY <2>2, <1>1, SolidStep
    <3>2. ~StartCreate(w) /\ ~Clear(w)
      BY <2>2 DEF StartCreate, Clear, Found
    <3>3. ~Swapped(w)
      <4>1. ASSUME Swapped(w) PROVE row'.swap_count > row.swap_count
        BY <1>1, <4>1 DEF Swapped, SwappedRow, TypeOK, Row
      <4> QED BY <2>2, <4>1
    <3>4. ~FinalizeCommit(w)
      BY <2>2, <1>1 DEF FinalizeCommit, SolidInv
    <3>5. CASE NextStash(w) \/ AnswerCommit(w)
      BY <2>2, <1>1, <3>5 DEF NextStash, AnswerCommit, AnsweredRow, TypeOK, Row
    <3>6. CASE ~NextStash(w) /\ ~AnswerCommit(w)
      BY <2>2, <3>2, <3>3, <3>4, <3>6 DEF Begin, NextRead, AnswerCheck,
         FinalizeCheck, SwapCheck, Accept, Proceed, StartReread,
         StartRegister, AnswerRead, AnswerReread, AnswerEvent, FinalizeRead,
         FinalizeTally, FinalizeEvent, SwapPending, SwapRefused,
         SwapExhausted, Lose, tables
    <3> QED BY <3>5, <3>6
  <2> QED BY <1>1, <2>1, <2>2 DEF Next
<1>2. SolidUnraced /\ "finalize_commit" \notin raced => SolidInv
  BY DEF SolidUnraced
<1> QED BY <1>1, <1>2, TypeCorrect, RoundsInvariant, SolidInvariant, PTL
        DEF Spec, ResultSolidified
=============================================================================
