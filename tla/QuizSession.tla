---------------------------- MODULE QuizSession ----------------------------
(***************************************************************************)
(* One quiz session of the API process, as the endpoints of                *)
(* src/app/web/quiz_api.py and the engine of src/app/domain/quiz.py drive  *)
(* it from several threads of the server's pool.                           *)
(*                                                                         *)
(* A handler is a chain of steps: reads of the session row that take no    *)
(* lock, an LLM call made outside any transaction, and one or two short    *)
(* write transactions.  db.tx() serialises the transactions of the process *)
(* (src/app/core/db.py), so a transaction is one action; everything        *)
(* between two transactions is where another request can get in.  What a   *)
(* handler carries from a read to a later write is in snap.                *)
(*                                                                         *)
(* The dish an LLM answer or the local fallback picks is any dish; the     *)
(* content of the questions is abstracted to the answer's step and source. *)
(***************************************************************************)
EXTENDS Integers, Sequences, FiniteSets

CONSTANTS Worker,       \* threads of the server's pool, one request each
          Dish,         \* names of dishes
          NoDish,       \* SQL NULL in quiz_session.result
          MaxSwaps,     \* config swap_limits.steady
          MaxAskSteps,  \* MAX_ASK_STEPS: no question is asked from it on
          MaxRequests,  \* bound: requests in a behaviour
          MaxFailures   \* bound: requests lost to a crash or a failing tx

ASSUME SessionAssumption ==
  /\ IsFiniteSet(Worker)
  /\ NoDish \notin Dish
  /\ MaxSwaps \in Nat
  /\ MaxAskSteps \in Nat
  /\ MaxRequests \in Nat
  /\ MaxFailures \in Nat

VARIABLES
  exists,          \* the quiz_session row: "absent", "present" or "deleted"
  row,             \* its columns
  recommendation,  \* rows of table recommendation for this session, by id
  sessions,        \* status of row sess_quiz_<sid> of table sessions
  events,          \* how many events of each type table events holds
  memory,          \* rows of memory_events written by accepts
  known,           \* the client was told the session's id
  pc,              \* what each worker does next
  snap,            \* what each worker read and will still use
  reply,           \* the last response each worker sent
  raced,           \* the stages at which two workers were at once, of those
                   \* that carry a read into a write; for the properties
  sent,            \* requests begun, up to MaxRequests
  failures         \* requests lost, up to MaxFailures

tables == <<exists, row, recommendation, sessions, events, memory>>
vars == <<exists, row, recommendation, sessions, events, memory, known,
          pc, snap, reply, raced, sent, failures>>

Source == {"llm", "local"}
EventType == {"session_start", "answer", "result_served",
              "recommend_exposure", "accept", "swap", "swap_exhausted"}
Entry == [step : Nat, source : Source]
Row == [state : {"active", "done", "answering"},
        step_index : Nat,
        question_log : Seq(Entry),
        result : Dish \cup {NoDish},
        pending_q : Source \cup {"null"},
        swap_count : Nat]
Recommendation == [name : Dish, question_log : Seq(Entry)]

\* The columns a new row gets from its defaults.
NewRow == [state |-> "active", step_index |-> 0, question_log |-> <<>>,
           result |-> NoDish, pending_q |-> "null", swap_count |-> 0]

NoCount == -1
Blank == [log |-> <<>>, step |-> 0, source |-> "llm",
          dish |-> NoDish, left |-> NoCount]

\* Responses without a dish, with and without a swap counter.
SayLeft(kind, left) == [kind |-> kind, dish |-> NoDish, left |-> left]
Say(kind) == SayLeft(kind, NoCount)

Stage == {"idle", "start_reread", "start_register", "next_stash",
          "answer_read", "answer_commit", "answer_reread", "answer_event",
          "finalize_read", "finalize_commit", "finalize_tally",
          "finalize_event", "swap_tx", "swap_exhausted"}
Carrying == {"answer_commit", "finalize_commit"}
ReplyKind == {"none", "started", "question", "done", "answered", "result",
              "swapped", "pending", "exhausted", "accepted", "cleared",
              "not_found", "error", "lost"}
Snapshot == [log : Seq(Entry), step : Nat, source : Source,
             dish : Dish \cup {NoDish}, left : Int]
Response == [kind : ReplyKind, dish : Dish \cup {NoDish}, left : Int]

Init ==
  /\ exists = "absent"
  /\ row = NewRow
  /\ recommendation = <<>>
  /\ sessions = "none"
  /\ events = [e \in EventType |-> 0]
  /\ memory = 0
  /\ known = FALSE
  /\ pc = [w \in Worker |-> "idle"]
  /\ snap = [w \in Worker |-> Blank]
  /\ reply = [w \in Worker |-> Say("none")]
  /\ raced = {}
  /\ sent = 0
  /\ failures = 0

----------------------------------------------------------------------------
(* Requests, responses and the tables' helpers.                            *)

\* Mutant of Found: the lookup skips finished sessions.
FoundOpen == exists = "present" /\ row.state # "done"

\* A SELECT by session id finds the row.
Found == exists = "present"

\* A request reaches an idle worker.
Receive(w) == pc[w] = "idle" /\ sent < MaxRequests /\ sent' = sent + 1

\* The worker goes on to a later stage of its handler.
Goto(w, stage) ==
  /\ pc' = [pc EXCEPT ![w] = stage]
  /\ raced' = IF stage \in Carrying /\ \E v \in Worker \ {w} : pc[v] = stage
              THEN raced \cup {stage} ELSE raced
  /\ UNCHANGED <<reply, failures>>

\* The worker answers the request and forgets what it read.
Respond(w, r) == /\ pc' = [pc EXCEPT ![w] = "idle"]
                 /\ snap' = [snap EXCEPT ![w] = Blank]
                 /\ reply' = [reply EXCEPT ![w] = r]
                 /\ UNCHANGED <<raced, failures>>

\* INSERT OR IGNORE INTO sessions.
Ensured(status) == IF sessions = "none" THEN status ELSE sessions

Logged(type) == [events EXCEPT ![type] = @ + 1]

Remaining(swaps) == IF swaps < MaxSwaps THEN MaxSwaps - swaps ELSE 0

----------------------------------------------------------------------------
(* POST /api/quiz/session                                                  *)

\* create_session: the row is inserted in a transaction of its own.
StartCreate(w) ==
  /\ Receive(w)
  /\ exists = "absent"
  /\ exists' = "present"
  /\ row' = NewRow
  /\ Goto(w, "start_reread")
  /\ UNCHANGED <<recommendation, sessions, events, memory, known, snap>>

\* create_session reads the row back; a row deleted meanwhile is None and
\* the handler raises on s["id"].
StartReread(w) ==
  /\ pc[w] = "start_reread"
  /\ \/ Found /\ Goto(w, "start_register") /\ UNCHANGED snap
     \/ ~Found /\ Respond(w, Say("error"))
  /\ UNCHANGED <<tables, known, sent>>

\* The second transaction: the mirror row in sessions and session_start.
StartRegister(w) ==
  /\ pc[w] = "start_register"
  /\ sessions' = Ensured("answering")
  /\ events' = Logged("session_start")
  /\ known' = TRUE
  /\ Respond(w, Say("started"))
  /\ UNCHANGED <<exists, row, recommendation, memory, sent>>

----------------------------------------------------------------------------
(* GET /api/quiz/{sid}/next                                                *)

\* should_finalize can say yes only once the log locks a branch and a taste,
\* which takes two answers; it must say yes at MaxAskSteps.  What it says in
\* between depends on the answers' content, which is not modelled here.
MayStop == Len(row.question_log) >= 2 \/ row.step_index >= MaxAskSteps
MustStop == row.state = "done" \/ row.step_index >= MaxAskSteps

\* The row is read once: the engine has heard enough, or it starts the LLM
\* call for the next question.
NextRead(w) ==
  /\ Receive(w)
  /\ known
  /\ \/ ~Found /\ Respond(w, Say("not_found"))
     \/ Found /\ (MayStop \/ MustStop) /\ Respond(w, Say("done"))
     \/ /\ Found
        /\ ~MustStop
        /\ Goto(w, "next_stash")
        /\ UNCHANGED snap
  /\ UNCHANGED <<tables, known>>

\* _stash_pending: UPDATE by id alone, with no look at the state or the
\* step; an exception is swallowed and the question is served anyway.
NextStash(w) ==
  /\ pc[w] = "next_stash"
  /\ \/ \E source \in Source :
          row' = IF Found THEN [row EXCEPT !.pending_q = source] ELSE row
     \/ row' = row
  /\ Respond(w, Say("question"))
  /\ UNCHANGED <<exists, recommendation, sessions, events, memory, known,
                 sent>>

----------------------------------------------------------------------------
(* POST /api/quiz/{sid}/answer                                             *)

AnswerCheck(w) ==
  /\ Receive(w)
  /\ known
  /\ \/ ~Found /\ Respond(w, Say("not_found"))
     \/ Found /\ Goto(w, "answer_read") /\ UNCHANGED snap
  /\ UNCHANGED <<tables, known>>

\* answer_option reads the row again; the log it will write back is the one
\* it reads here.
AnswerRead(w) ==
  /\ pc[w] = "answer_read"
  /\ \/ ~Found /\ Respond(w, Say("error"))
     \/ /\ Found
        /\ snap' = [snap EXCEPT ![w] =
                      [@ EXCEPT !.log = row.question_log,
                                !.step = row.step_index,
                                !.source = IF row.pending_q = "null"
                                           THEN "llm" ELSE row.pending_q]]
        /\ Goto(w, "answer_commit")
  /\ UNCHANGED <<tables, known, sent>>

Answered(w) == [step |-> snap[w].step, source |-> snap[w].source]

\* Mutants of AnsweredRow: step_index is computed from the earlier read; the
\* earlier answers are dropped from the log.
AnsweredRowStale(w) ==
  [row EXCEPT !.question_log = Append(snap[w].log, Answered(w)),
              !.step_index = snap[w].step + 1,
              !.pending_q = "null"]
AnsweredRowForgetful(w) ==
  [row EXCEPT !.question_log = <<Answered(w)>>,
              !.step_index = @ + 1,
              !.pending_q = "null"]

\* The whole log is overwritten, step_index is incremented in place.
AnsweredRow(w) ==
  [row EXCEPT !.question_log = Append(snap[w].log, Answered(w)),
              !.step_index = @ + 1,
              !.pending_q = "null"]

AnswerCommit(w) ==
  /\ pc[w] = "answer_commit"
  /\ row' = IF Found THEN AnsweredRow(w) ELSE row
  /\ Goto(w, "answer_reread")
  /\ UNCHANGED <<exists, recommendation, sessions, events, memory, known,
                 snap, sent>>

AnswerReread(w) ==
  /\ pc[w] = "answer_reread"
  /\ \/ ~Found /\ Respond(w, Say("error"))
     \/ Found /\ Goto(w, "answer_event") /\ UNCHANGED snap
  /\ UNCHANGED <<tables, known, sent>>

AnswerEvent(w) ==
  /\ pc[w] = "answer_event"
  /\ events' = Logged("answer")
  /\ Respond(w, Say("answered"))
  /\ UNCHANGED <<exists, row, recommendation, sessions, memory, known, sent>>

----------------------------------------------------------------------------
(* POST /api/quiz/{sid}/finalize                                           *)

FinalizeCheck(w) ==
  /\ Receive(w)
  /\ known
  /\ \/ ~Found /\ Respond(w, Say("not_found"))
     \/ Found /\ Goto(w, "finalize_read") /\ UNCHANGED snap
  /\ UNCHANGED <<tables, known>>

\* Mutant of Solidified: the cached result is never used.
NeverSolidified == FALSE

\* The engine may serve the result the row holds.
Solidified == row.state = "done" /\ row.result # NoDish

\* A solidified result is served from the row; otherwise the log is kept for
\* the prompt and the LLM call starts.
FinalizeRead(w) ==
  /\ pc[w] = "finalize_read"
  /\ \/ ~Found /\ Respond(w, Say("error"))
     \/ /\ Found
        /\ Solidified
        /\ snap' = [snap EXCEPT ![w].dish = row.result]
        /\ Goto(w, "finalize_tally")
     \/ /\ Found
        /\ ~Solidified
        /\ snap' = [snap EXCEPT ![w].log = row.question_log]
        /\ Goto(w, "finalize_commit")
  /\ UNCHANGED <<tables, known, sent>>

\* Mutant of Picks: an LLM answer without a name is taken as it is.
PicksUnchecked == Dish \cup {NoDish}

\* What the LLM's checked answer or the local fallback can pick.
Picks == Dish

\* Mutant of Recommended: no second row for a round already decided.
RecommendedOnce(w, d) ==
  IF row.result # NoDish THEN recommendation
  ELSE Append(recommendation, [name |-> d, question_log |-> snap[w].log])

Recommended(w, d) ==
  Append(recommendation, [name |-> d, question_log |-> snap[w].log])

\* After the LLM call (or the local pick): one transaction writes the result
\* with no guard on the state, and inserts the recommendation whether or not
\* the UPDATE hit a row.
FinalizeCommit(w) ==
  /\ pc[w] = "finalize_commit"
  /\ \E d \in Picks :
       /\ row' = IF Found THEN [row EXCEPT !.state = "done", !.result = d]
                          ELSE row
       /\ recommendation' = Recommended(w, d)
       /\ snap' = [snap EXCEPT ![w].dish = d]
  /\ Goto(w, "finalize_tally")
  /\ UNCHANGED <<exists, sessions, events, memory, known, sent>>

\* The handler reads the row once more for swaps_left.
FinalizeTally(w) ==
  /\ pc[w] = "finalize_tally"
  /\ snap' = [snap EXCEPT ![w].left = IF Found THEN Remaining(row.swap_count)
                                               ELSE NoCount]
  /\ Goto(w, "finalize_event")
  /\ UNCHANGED <<tables, known, sent>>

Served == [events EXCEPT !["result_served"] = @ + 1,
                         !["recommend_exposure"] = @ + 1]

FinalizeEvent(w) ==
  /\ pc[w] = "finalize_event"
  /\ sessions' = Ensured("presented")
  /\ events' = Served
  /\ Respond(w, [kind |-> "result", dish |-> snap[w].dish,
                 left |-> snap[w].left])
  /\ UNCHANGED <<exists, row, recommendation, memory, known, sent>>

----------------------------------------------------------------------------
(* POST /api/quiz/{sid}/swap                                               *)

SwapCheck(w) ==
  /\ Receive(w)
  /\ known
  /\ \/ ~Found /\ Respond(w, Say("not_found"))
     \/ Found /\ Goto(w, "swap_tx") /\ UNCHANGED snap
  /\ UNCHANGED <<tables, known>>

\* Mutants of Swappable: the budget, or the state, is not in the WHERE.
SwappableUncapped == Found /\ row.state = "done"
SwappableAnyState == Found /\ row.swap_count < MaxSwaps

\* The WHERE clause of the guarded UPDATE.
Swappable == Found /\ row.state = "done" /\ row.swap_count < MaxSwaps

\* Mutant of SwappedRow: the old result stays in the row.
SwappedRowKeepingResult ==
  [row EXCEPT !.state = "answering", !.swap_count = @ + 1]

SwappedRow == [row EXCEPT !.result = NoDish, !.state = "answering",
                          !.swap_count = @ + 1]

\* The guarded UPDATE hit the row: the result is taken back, the counter is
\* read in the same transaction and the swap event is written.
Swapped(w) ==
  /\ pc[w] = "swap_tx"
  /\ Swappable
  /\ row' = SwappedRow
  /\ events' = Logged("swap")
  /\ Respond(w, SayLeft("swapped", MaxSwaps - (row.swap_count + 1)))
  /\ UNCHANGED <<exists, recommendation, sessions, memory, known, sent>>

LostRace == Found /\ row.state = "answering" /\ row.swap_count < MaxSwaps

\* Mutant of SwapPending: the loser tries again until the round is decided.
SwapPendingRetries(w) ==
  /\ pc[w] = "swap_tx"
  /\ ~Swappable
  /\ LostRace
  /\ UNCHANGED vars

\* Another request swapped this round already: a silent 200.
SwapPending(w) ==
  /\ pc[w] = "swap_tx"
  /\ ~Swappable
  /\ LostRace
  /\ Respond(w, SayLeft("pending", MaxSwaps))
  /\ UNCHANGED <<tables, known, sent>>

\* Every other miss of the UPDATE is taken for an exhausted budget.
SwapRefused(w) ==
  /\ pc[w] = "swap_tx"
  /\ ~Swappable
  /\ ~LostRace
  /\ Goto(w, "swap_exhausted")
  /\ UNCHANGED <<tables, known, snap, sent>>

\* The endpoint records swap_exhausted in a transaction of its own.
SwapExhausted(w) ==
  /\ pc[w] = "swap_exhausted"
  /\ events' = Logged("swap_exhausted")
  /\ Respond(w, SayLeft("exhausted", 0))
  /\ UNCHANGED <<exists, row, recommendation, sessions, memory, known, sent>>

----------------------------------------------------------------------------
(* POST /api/quiz/{sid}/accept and DELETE /api/identity/data               *)

\* One transaction and no look at quiz_session; a failing memory write is
\* swallowed.
Accept(w) ==
  /\ Receive(w)
  /\ known
  /\ sessions' = "accepted"
  /\ events' = Logged("accept")
  /\ memory' \in {memory, memory + 1}
  /\ Respond(w, Say("accepted"))
  /\ UNCHANGED <<exists, row, recommendation, known>>

\* One transaction deletes the user's rows of every table but events.
Clear(w) ==
  /\ Receive(w)
  /\ exists' = IF Found THEN "deleted" ELSE exists
  /\ row' = NewRow
  /\ recommendation' = <<>>
  /\ sessions' = "none"
  /\ memory' = 0
  /\ Respond(w, Say("cleared"))
  /\ UNCHANGED <<events, known>>

----------------------------------------------------------------------------
(* Failures, and the whole process.                                        *)

\* The process dies, or the next transaction raises (the database stays
\* locked by another process past busy_timeout): what is committed stays,
\* the rest of the handler never runs.
Lose(w) ==
  /\ pc[w] # "idle"
  /\ failures < MaxFailures
  /\ failures' = failures + 1
  /\ pc' = [pc EXCEPT ![w] = "idle"]
  /\ snap' = [snap EXCEPT ![w] = Blank]
  /\ reply' = [reply EXCEPT ![w] = Say("lost")]
  /\ UNCHANGED <<tables, known, raced, sent>>

Begin(w) == \/ StartCreate(w) \/ NextRead(w) \/ AnswerCheck(w)
            \/ FinalizeCheck(w) \/ SwapCheck(w) \/ Accept(w) \/ Clear(w)

\* The later stages of a handler: the thread holding the request runs them.
Proceed(w) == \/ StartReread(w) \/ StartRegister(w) \/ NextStash(w)
              \/ AnswerRead(w) \/ AnswerCommit(w) \/ AnswerReread(w)
              \/ AnswerEvent(w)
              \/ FinalizeRead(w) \/ FinalizeCommit(w) \/ FinalizeTally(w)
              \/ FinalizeEvent(w)
              \/ Swapped(w) \/ SwapPending(w) \/ SwapRefused(w)
              \/ SwapExhausted(w)

\* Nobody asks anything any more.
Rest == (\A w \in Worker : pc[w] = "idle") /\ UNCHANGED vars

Next == Rest \/ \E w \in Worker : Begin(w) \/ Proceed(w) \/ Lose(w)

Spec == Init /\ [][Next]_vars
----------------------------------------------------------------------------
(* Correctness.                                                            *)

TypeOK ==
  /\ exists \in {"absent", "present", "deleted"}
  /\ row \in Row
  /\ recommendation \in Seq(Recommendation)
  /\ sessions \in {"none", "answering", "presented", "accepted"}
  /\ events \in [EventType -> Nat]
  /\ memory \in Nat
  /\ known \in BOOLEAN
  /\ pc \in [Worker -> Stage]
  /\ snap \in [Worker -> Snapshot]
  /\ reply \in [Worker -> Response]
  /\ raced \subseteq Carrying
  /\ sent \in Nat
  /\ failures \in Nat

\* However many swaps race, the session never passes the swap budget, and
\* the swap events the reports count are exactly the swaps that took place
\* (the guarded UPDATE and its event in one transaction, quiz.swap).
SwapBudget ==
  Found => /\ row.swap_count <= MaxSwaps
           /\ events["swap"] = row.swap_count

\* The session is done exactly while it holds a result, and that result is
\* the newest recommendation of the session ("the latest row counts",
\* quiz.swap): memory and profile never learn from another dish than the
\* one the session serves.
ResultOnRecord ==
  Found => /\ row.state = "done" <=> row.result # NoDish
           /\ row.state = "done" =>
                /\ recommendation # <<>>
                /\ recommendation[Len(recommendation)].name = row.result

\* Every round that was swapped away, and the current one if it is decided,
\* left a recommendation row: no dish was shown that the taste memory cannot
\* replay.
DecidedRounds == row.swap_count + (IF row.state = "done" THEN 1 ELSE 0)
EveryRoundRecommended == Found => Len(recommendation) >= DecidedRounds

Busy(stages) == Cardinality({w \in Worker : pc[w] \in stages})

\* The answer events trail the row's step_index by the answers whose second
\* transaction has not run, and by nothing else than requests that were
\* lost in between (quiz_answer writes them in two transactions).
AnswersTrail ==
  LET accounted == events["answer"] + Busy({"answer_reread", "answer_event"})
  IN  accounted <= row.step_index /\ row.step_index <= accounted + failures

\* A recommendation row whose finalize was not lost has its result_served
\* event, or will have it (finalize and quiz_finalize commit separately).  The
\* events may be more than the rows: a finalize served from the row counts one
\* without a new recommendation.
ServedTrails ==
  Len(recommendation) <= events["result_served"] + failures
                         + Busy({"finalize_tally", "finalize_event"})

\* But none is counted as served in a session that has recommended nothing.
ServedSome == events["result_served"] > 0 => recommendation # <<>>

\* The event stream the reports count, against the session's own tables.  The
\* answers never run ahead of the steps of the row, and lag behind them by
\* requests under way or lost alone.  Of the results served only the lag is
\* bounded that way; they run ahead of the recommendations by those served
\* again, though never before there is a recommendation.
EventsTrail == Found => AnswersTrail /\ ServedTrails /\ ServedSome

\* A dish a client was shown is the name of a recommendation of its session,
\* whichever of the two ways (fresh or cached) it was served.
ShownWasRecommended ==
  Found => \A w \in Worker : reply[w].dish # NoDish =>
             \E i \in DOMAIN recommendation :
               recommendation[i].name = reply[w].dish

\* The engine's unguarded second read (session["question_log"] of a row that
\* may be None) raises only when the user's data was cleared under the
\* request.
ErrorOnlyAfterClear ==
  \A w \in Worker : reply[w].kind = "error" => exists = "deleted"

\* An accepted session keeps that status through later swaps, finalizes and
\* accepts (INSERT OR IGNORE never rewrites it); only clearing ends it.
AcceptedSticks ==
  [][sessions = "accepted" => sessions' \in {"accepted", "none"}]_vars

Phase == CASE exists = "absent" -> "unborn"
           [] exists = "present" -> "open"
           [] exists = "deleted" -> "closed"

Rounds == INSTANCE DishRounds WITH phase <- Phase, round <- row.swap_count,
                                   dish <- row.result

\* Under any interleaving the session is a series of rounds, though a decided
\* round may be decided again by a finalize that started before.
LooseRounds == Rounds!LooseSpec

\* A handler can always go on, whatever the others have done to the row it
\* read: deleted it, swapped its round away or used up its budget.  No request
\* waits for another one, and since each step brings a handler nearer to its
\* response, it is answered if its thread runs at all.
NobodyWaits ==
  \A w \in Worker : pc[w] # "idle" => ENABLED <<Proceed(w)>>_vars

(* What holds until the one race that breaks it: two workers that carry what
   they read of the row into an UPDATE that does not read it again.        *)

\* A decided round keeps its dish until a swap (header of quiz.py: the result
\* is solidified, refreshing does not roll again), whatever answers, swaps,
\* clears and losses run beside the finalize; until two finalizes have been
\* between their look at the result and the UPDATE that writes it.
SolidRounds ==
  []["finalize_commit" \notin raced => Rounds!SolidNext]_(Rounds!vars)

\* The promise as quiz.py makes it, as what no single step may do.
ResultSolidified ==
  [][Found /\ Found' /\ row.result # NoDish /\ row'.result # row.result
       => row'.swap_count > row.swap_count]_vars

\* question_log is the complete path of answers, one entry per step in order
\* (migration 0005), and the path stored with a recommendation is a beginning
\* of it, so that replaying it shows answers the user really gave; until two
\* answers have been between their read of the log and the UPDATE that writes
\* it back.
PathsAreComplete ==
  Found /\ "answer_commit" \notin raced =>
    /\ Len(row.question_log) = row.step_index
    /\ \A i \in DOMAIN row.question_log : row.question_log[i].step = i - 1
    /\ \A i \in DOMAIN recommendation :
         LET path == recommendation[i].question_log
         IN  path = SubSeq(row.question_log, 1, Len(path))
=============================================================================
