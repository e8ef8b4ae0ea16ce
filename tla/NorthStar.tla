------------------------------ MODULE NorthStar ------------------------------
(***************************************************************************)
(* The north-star metric: a session counts when its dish is accepted and   *)
(* the jump to the platform follows within sixty seconds.  The endpoints   *)
(* of src/app/web write the events, /go of src/app/web/go.py redeems the   *)
(* signed token once, and two programs count: aggregate of                 *)
(* src/app/cron/aggregate.py writes the day's row at a fixed hour, and     *)
(* recalc of src/scripts/recalc_metrics.py counts again from the same      *)
(* events in SQL, to confirm it.                                           *)
(*                                                                         *)
(* A request is one step here: the interleavings inside the requests are   *)
(* the subject of QuizSession.  The aggregation reads the sessions, then   *)
(* the events of one type after another, and requests may come between.    *)
(***************************************************************************)
EXTENDS Integers, Sequences, FiniteSets, Functions

CONSTANTS Session,
          Window,      \* sixty seconds, in units of the clock
          Ttl,         \* TTL_SECONDS
          DayLength,   \* a UTC day
          AggregateAt, \* the hour of the aggregation within it
          MaxSwaps,
          Long,        \* accept times from which a gap of exactly sixty
                       \*   seconds is more than 60.0 / 86400.0 days, as
                       \*   SQLite's julianday rounds it
          NoToken, NoRow,
          MaxTime,     \* bound: the clock
          MaxEvents,   \* bound: events
          MaxMeanwhile,\* bound: events while the aggregation runs
          MaxClears    \* bound: identities cleared

ASSUME NorthStarAssumption ==
  /\ Window \in Nat /\ Ttl \in Nat /\ DayLength \in Nat \ {0}
  /\ AggregateAt \in 0 .. DayLength - 1
  /\ MaxSwaps \in Nat /\ MaxTime \in Nat /\ MaxEvents \in Nat
  /\ MaxMeanwhile \in Nat /\ MaxClears \in Nat /\ Long \subseteq Nat

VARIABLES
  now,      \* the server's clock
  quiz,     \* quiz_session.state, or none
  swaps,    \* quiz_session.swap_count
  row,      \* sessions: status and started_at, or no row
  log,      \* events, in the order of their ids
  tokens,   \* the tokens handed out, which the server does not keep
  reading,  \* while the aggregation runs: the sessions it read, with their
            \*   status, and how many events there were then
  daily,    \* daily_metrics, by day
  cleared   \* the sessions whose identity was cleared, for the properties

session == <<quiz, swaps, row>>
counting == <<reading, daily>>
vars == <<now, quiz, swaps, row, log, tokens, reading, daily, cleared>>

Time == 0 .. MaxTime
DayOf(t) == t \div DayLength
Day == {DayOf(t) : t \in Time}
Status == {"answering", "presented", "accepted"}
EventType == {"accept", "jump", "swap", "swap_exhausted"}
Token == [session : Session, nth : 0 .. MaxSwaps, at : Time]
None == [status |-> "none", started |-> 0]
Event == [type : EventType, session : Session, at : Time,
          key : Token \cup {NoToken}]

\* The dish is the one of the nth finalize: its slug is not told apart.
TokenOf(s) == [session |-> s, nth |-> swaps[s], at |-> now]

Write(type, s, key) ==
  /\ Len(log) < MaxEvents
  /\ reading # NoRow => Len(log) < reading.from + MaxMeanwhile
  /\ log' = Append(log, [type |-> type, session |-> s, at |-> now, key |-> key])

\* Mutant of Ensured: INSERT OR REPLACE, the session starts anew.
EnsuredAnew(s, status) == [status |-> status, started |-> now]

\* Mutant of Ensured: the status is the table's default.
EnsuredStarted(s, status) ==
  IF row[s] = None THEN [status |-> "started", started |-> now] ELSE row[s]

\* _ensure_quiz_session_row: INSERT OR IGNORE.
Ensured(s, status) ==
  IF row[s] = None THEN [status |-> status, started |-> now] ELSE row[s]

Init ==
  /\ now = 0
  /\ quiz = [s \in Session |-> "none"]
  /\ swaps = [s \in Session |-> 0]
  /\ row = [s \in Session |-> None]
  /\ log = << >>
  /\ tokens = {}
  /\ reading = NoRow
  /\ daily = [d \in Day |-> NoRow]
  /\ cleared = {}

----------------------------------------------------------------------------
(* The endpoints.  session_start, answer, result_served and                *)
(* recommend_exposure events are left out: they are in no count here.      *)

\* A session id is given out once.
Start(s) ==
  /\ quiz[s] = "none" /\ s \notin cleared
  /\ quiz' = [quiz EXCEPT ![s] = "active"]
  /\ row' = [row EXCEPT ![s] = Ensured(s, "answering")]
  /\ UNCHANGED <<now, swaps, log, tokens, counting, cleared>>

\* finalize: a result, or the one there is, with a token.
Finalize(s) ==
  /\ quiz[s] # "none"
  /\ quiz' = [quiz EXCEPT ![s] = "done"]
  /\ row' = [row EXCEPT ![s] = Ensured(s, "presented")]
  /\ tokens' = tokens \cup {TokenOf(s)}
  /\ UNCHANGED <<now, swaps, log, counting, cleared>>

\* Mutant of Accepted: the status stays as it was.
AcceptedNot(s) == row' = [row EXCEPT ![s] = Ensured(s, "presented")]

\* The row becomes accepted with the event, in one transaction.
Accepted(s) ==
  row' = [row EXCEPT ![s] = [Ensured(s, "presented") EXCEPT !.status = "accepted"]]

\* accept asks nothing of the quiz: it may come again, and after a clear.
Accept(s) ==
  /\ quiz[s] # "none" \/ s \in cleared
  /\ Write("accept", s, NoToken)
  /\ Accepted(s)
  /\ tokens' = tokens \cup {TokenOf(s)}
  /\ UNCHANGED <<now, quiz, swaps, counting, cleared>>

Swap(s) ==
  /\ quiz[s] = "done" /\ swaps[s] < MaxSwaps
  /\ quiz' = [quiz EXCEPT ![s] = "answering"]
  /\ swaps' = [swaps EXCEPT ![s] = @ + 1]
  /\ Write("swap", s, NoToken)
  /\ UNCHANGED <<now, row, tokens, counting, cleared>>

\* Neither a result to swap nor a swap that has just been done.
SwapExhausted(s) ==
  /\ quiz[s] # "none"
  /\ quiz[s] = "active" \/ swaps[s] >= MaxSwaps
  /\ Write("swap_exhausted", s, NoToken)
  /\ UNCHANGED <<now, session, tokens, counting, cleared>>

\* A token says when it was signed.
Verified(t) == now - t.at <= Ttl

\* The hash of the token is the event's client_event_id.
Redeemed(t) == \E i \in DOMAIN log : log[i].key = t

\* /go: a token that is signed and not too old, of a session that is there.
\* Refreshed or shared, it finds its event written already.
Go(t) ==
  /\ Verified(t)
  /\ row[t.session] # None
  /\ ~Redeemed(t)
  /\ Write("jump", t.session, t)
  /\ UNCHANGED <<now, session, tokens, counting, cleared>>

\* The identity's sessions go, their events stay.
Clear(s) ==
  /\ row[s] # None
  /\ Cardinality(cleared) < MaxClears
  /\ quiz' = [quiz EXCEPT ![s] = "none"]
  /\ swaps' = [swaps EXCEPT ![s] = 0]
  /\ row' = [row EXCEPT ![s] = None]
  /\ cleared' = cleared \cup {s}
  /\ UNCHANGED <<now, log, tokens, counting>>

Tick ==
  /\ now < MaxTime
  /\ now' = now + 1
  /\ UNCHANGED <<session, log, tokens, counting, cleared>>

----------------------------------------------------------------------------
(* Counting.                                                               *)

\* Events of a session of one type among the first n of the log, and the
\* sessions that have one: what a query finds that ran when there were n.
Of(s, type, n) ==
  {i \in 1 .. n : log[i].type = type /\ log[i].session = s}
With(type, n) == {s \in Session : Of(s, type, n) # {}}
Logged(s, type) == Of(s, type, Len(log))

Gap(i, j) == log[j].at - log[i].at

\* aggregate keeps one accept event for a session, the last it found.
IsLast(i, n) == \A k \in Of(log[i].session, "accept", n) : k <= i

\* Mutant of Paired: a jump before the accept event will do.
PairedEither(s, found) ==
  \E i \in Of(s, "accept", found.accept), j \in Of(s, "jump", found.jump) :
    IsLast(i, found.accept) /\ Gap(i, j) \in -Window .. Window
Paired(s, found) ==
  \E i \in Of(s, "accept", found.accept), j \in Of(s, "jump", found.jump) :
    IsLast(i, found.accept) /\ Gap(i, j) \in 0 .. Window

\* recalc joins every accept event with every jump, in days.
InDays(i, j) ==
  /\ Gap(i, j) \in 0 .. Window
  /\ ~(Gap(i, j) = Window /\ log[i].at \in Long)
RecalcPaired(s) ==
  \E i \in Logged(s, "accept"), j \in Logged(s, "jump") : InDays(i, j)

\* The sessions that started on a day.
StartedOn(d) == {s \in Session : row[s] # None /\ DayOf(row[s].started) = d}

\* What aggregate writes from the sessions it read and the events it found;
\* sets of sessions stand for their numbers.  A session surrendered that
\* ended in swap_exhausted; nothing writes an abandon event.
Aggregated(seen, found) ==
  LET ids == DOMAIN seen
      paired == {s \in ids : Paired(s, found)}
      surrendered == With("swap_exhausted", found.exhausted)
      completed == {s \in ids : seen[s] = "accepted"}
  IN [sessions   |-> ids,
      completed  |-> completed,
      north_star |-> paired \ surrendered,
      surrender  |-> paired \cap surrendered,
      first      |-> completed \ With("swap", found.swap),
      exhausted  |-> ids \cap surrendered]

\* What recalc returns for a day.
Recalculated(d) ==
  LET ids == StartedOn(d)
      paired == {s \in ids : RecalcPaired(s)}
      surrendered == With("swap_exhausted", Len(log))
  IN [sessions   |-> ids,
      completed  |-> {s \in ids : row[s].status = "accepted"},
      north_star |-> paired \ surrendered,
      surrender  |-> paired \cap surrendered,
      first      |-> (ids \cap With("accept", Len(log)))
                       \ With("swap", Len(log)),
      exhausted  |-> ids \cap surrendered]

\* The sessions of today as they are, and their status.
Snapshot(d) == [s \in StartedOn(d) |-> row[s].status]

\* The crontab starts the aggregation at its hour; it counts today.
AggregateRead ==
  /\ now % DayLength = AggregateAt
  /\ reading = NoRow /\ daily[DayOf(now)] = NoRow
  /\ reading' = [day |-> DayOf(now), seen |-> Snapshot(DayOf(now)),
                 from |-> Len(log)]
  /\ UNCHANGED <<now, session, log, tokens, daily, cleared>>

\* How many events there were at each of the queries, one after another.
Found(from) ==
  {n \in [accept : from .. Len(log), jump : from .. Len(log),
          exhausted : from .. Len(log), swap : from .. Len(log)] :
     n.accept <= n.jump /\ n.jump <= n.exhausted /\ n.exhausted <= n.swap}
AllFound == [accept |-> Len(log), jump |-> Len(log),
             exhausted |-> Len(log), swap |-> Len(log)]

\* The metrics in one transaction; of a day without sessions only the zero.
AggregateWrite ==
  /\ reading # NoRow
  /\ \E found \in Found(reading.from) :
       daily' = [daily EXCEPT ![reading.day] = Aggregated(reading.seen, found)]
  /\ reading' = NoRow
  /\ UNCHANGED <<now, session, log, tokens, cleared>>

Next ==
  \/ \E s \in Session : \/ Start(s) \/ Finalize(s) \/ Accept(s) \/ Swap(s)
                        \/ SwapExhausted(s) \/ Clear(s)
  \/ \E t \in tokens : Go(t)
  \/ Tick \/ AggregateRead \/ AggregateWrite

Spec == Init /\ [][Next]_vars

----------------------------------------------------------------------------
(* Correctness.                                                            *)

Metrics == [sessions : SUBSET Session, completed : SUBSET Session,
            north_star : SUBSET Session, surrender : SUBSET Session,
            first : SUBSET Session, exhausted : SUBSET Session]

TypeOK ==
  /\ now \in Time
  /\ quiz \in [Session -> {"none", "active", "answering", "done"}]
  /\ swaps \in [Session -> 0 .. MaxSwaps]
  /\ row \in [Session -> [status : Status, started : Time] \cup {None}]
  /\ log \in Seq(Event) /\ Len(log) <= MaxEvents
  /\ tokens \subseteq Token
  /\ reading # NoRow => /\ reading.day \in Day
                        /\ DOMAIN reading.seen \subseteq Session
                        /\ reading.from \in 0 .. Len(log)
  /\ daily \in [Day -> Metrics \cup {NoRow}]
  /\ cleared \subseteq Session

\* Nothing a daily row counts is made up, whatever is refreshed, shared,
\* swapped or cleared before and between the queries of the aggregation: a
\* session aggregate put in the north star, or beside it for its surrender,
\* has a jump in the minute after an accept, and the token of the jump was
\* handed out for that session and still valid.
CountedWerePaired ==
  \A d \in Day : daily[d] # NoRow =>
    \A s \in daily[d].north_star \cup daily[d].surrender :
      \E i \in Logged(s, "accept"), j \in Logged(s, "jump") :
        /\ Gap(i, j) \in 0 .. Window
        /\ log[j].key \in tokens /\ log[j].key.session = s
        /\ log[j].at - log[j].key.at \in 0 .. Ttl

\* A session counts on one day, however its answers, accepts and swaps go
\* past midnight, and with it whatever the row of the day counts.  A cleared
\* session may count again: an accept that comes late gives it a new row.
CountedOnOneDay ==
  \A d, e \in Day : d # e /\ daily[d] # NoRow /\ daily[e] # NoRow =>
    daily[d].sessions \cap daily[e].sessions \subseteq cleared

\* Where the two programs part: run at the same moment, over the same
\* sessions and the same events, they put a session that was not cleared in
\* the same metrics.  Only the north star and the surrenders may be told
\* differently, and for two reasons: the session has an accept and a jump in
\* the minute after it, and that accept is not the last, so that aggregate
\* forgets it, or the jump came exactly sixty seconds after the accept, which
\* the days of SQL may round away.  The first accepts agree though the one
\* program asks for the status of the session and the other for its event.
OnlyTwoWaysToDiffer ==
  \A d \in Day, s \in Session \ cleared :
    LET daily_row == Aggregated(Snapshot(d), AllFound)
        again == Recalculated(d)
    IN \A m \in DOMAIN again :
         \/ s \in daily_row[m] <=> s \in again[m]
         \/ /\ m \in {"north_star", "surrender"}
            /\ \E i \in Logged(s, "accept"), j \in Logged(s, "jump") :
                 /\ Gap(i, j) \in 0 .. Window
                 /\ ~IsLast(i, Len(log)) \/ Gap(i, j) = Window

\* What recalc_metrics.py says of itself: it recalculates the same metrics.
RecalcAgrees ==
  \A d \in Day : Aggregated(Snapshot(d), AllFound) = Recalculated(d)
=============================================================================
