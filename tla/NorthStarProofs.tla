-------------------------- MODULE NorthStarProofs --------------------------
(***************************************************************************)
(* Theorems about NorthStar for every set of sessions, every length of     *)
(* window, day and token life, and whatever SQLite's julianday rounds      *)
(* away, with their proofs.                                                *)
(***************************************************************************)
EXTENDS NorthStar, SequenceTheorems, TLAPS

\* An event written is an event, and the log grows.
LEMMA WriteTyped ==
  ASSUME TypeOK, NEW type \in EventType, NEW s \in Session,
         NEW key \in Token \cup {NoToken}, Write(type, s, key)
  PROVE  /\ log' \in Seq(Event) /\ Len(log') <= MaxEvents
         /\ \A n \in 0 .. Len(log) : n \in 0 .. Len(log')
<1> DEFINE e == [type |-> type, session |-> s, at |-> now, key |-> key]
<1>1. e \in Event /\ log \in Seq(Event) /\ MaxEvents \in Nat
  BY NorthStarAssumption DEF TypeOK, Event
<1>2. log' = Append(log, e) /\ Len(log) < MaxEvents
  BY DEF Write
<1> HIDE DEF e
<1>3. log' \in Seq(Event) /\ Len(log') = Len(log) + 1 /\ Len(log) \in Nat
  BY <1>1, <1>2
<1> QED BY <1>1, <1>2, <1>3

\* The row a request ensures, accepted or not, is a row.
LEMMA RowTyped ==
  ASSUME TypeOK, NEW s \in Session, NEW status \in Status
  PROVE  /\ Ensured(s, status) \in [status : Status, started : Time]
         /\ [Ensured(s, status) EXCEPT !.status = "accepted"]
              \in [status : Status, started : Time]
BY DEF TypeOK, Ensured, Status

\* A token signed is a token.
LEMMA TokenTyped ==
  ASSUME TypeOK, NEW s \in Session
  PROVE  TokenOf(s) \in Token
BY DEF TypeOK, TokenOf, Token

\* What a count is made of are sets of the sessions it has read.
LEMMA AggregatedTyped ==
  ASSUME NEW seen, DOMAIN seen \subseteq Session, NEW found
  PROVE  Aggregated(seen, found) \in Metrics
BY DEF Aggregated, Metrics

\* The day of a time is a day.
LEMMA DayTyped == \A t \in Time : DayOf(t) \in Day
BY DEF Day

\* The types hold at first.
LEMMA InitTyped == Init => TypeOK
<1> SUFFICES ASSUME Init PROVE TypeOK
  OBVIOUS
<1>1. now \in Time
  BY NorthStarAssumption DEF Init, Time
<1>2. quiz \in [Session -> {"none", "active", "answering", "done"}]
  BY DEF Init
<1>3. swaps \in [Session -> 0 .. MaxSwaps]
  BY NorthStarAssumption DEF Init
<1>4. row \in [Session -> [status : Status, started : Time] \cup {None}]
  BY DEF Init
<1>5. log \in Seq(Event) /\ Len(log) <= MaxEvents
  BY NorthStarAssumption DEF Init
<1>6. daily \in [Day -> Metrics \cup {NoRow}]
  BY DEF Init
<1> QED BY <1>1, <1>2, <1>3, <1>4, <1>5, <1>6 DEF Init, TypeOK

\* Every step of an endpoint keeps the types.
LEMMA RequestTyped ==
  ASSUME TypeOK, NEW s \in Session,
         \/ Start(s) \/ Finalize(s) \/ Accept(s) \/ Swap(s)
         \/ SwapExhausted(s) \/ Clear(s)
  PROVE  TypeOK'
<1>1. CASE Start(s)
  <2>1. Ensured(s, "answering") \in [status : Status, started : Time]
    BY RowTyped DEF Status
  <2> QED BY <1>1, <2>1 DEF Start, TypeOK, counting
<1>2. CASE Finalize(s)
  <2>1. Ensured(s, "presented") \in [status : Status, started : Time]
    BY RowTyped DEF Status
  <2> QED BY <1>2, <2>1, TokenTyped DEF Finalize, TypeOK, counting
<1>3. CASE Accept(s)
  <2>1. [Ensured(s, "presented") EXCEPT !.status = "accepted"]
          \in [status : Status, started : Time]
    BY RowTyped DEF Status
  <2>2. /\ log' \in Seq(Event) /\ Len(log') <= MaxEvents
        /\ \A n \in 0 .. Len(log) : n \in 0 .. Len(log')
    BY <1>3, WriteTyped DEF Accept, EventType
  <2>3. row' \in [Session -> [status : Status, started : Time] \cup {None}]
    BY <1>3, <2>1 DEF Accept, Accepted, TypeOK
  <2> QED BY <1>3, <2>2, <2>3, TokenTyped DEF Accept, TypeOK, counting
<1>4. CASE Swap(s)
  <2>1. /\ log' \in Seq(Event) /\ Len(log') <= MaxEvents
        /\ \A n \in 0 .. Len(log) : n \in 0 .. Len(log')
    BY <1>4, WriteTyped DEF Swap, EventType
  <2>2. swaps' \in [Session -> 0 .. MaxSwaps]
    BY <1>4, NorthStarAssumption DEF Swap, TypeOK
  <2> QED BY <1>4, <2>1, <2>2 DEF Swap, TypeOK, counting
<1>5. CASE SwapExhausted(s)
  <2>1. /\ log' \in Seq(Event) /\ Len(log') <= MaxEvents
        /\ \A n \in 0 .. Len(log) : n \in 0 .. Len(log')
    BY <1>5, WriteTyped DEF SwapExhausted, EventType
  <2> QED BY <1>5, <2>1 DEF SwapExhausted, TypeOK, counting, session
<1>6. CASE Clear(s)
  BY <1>6, NorthStarAssumption DEF Clear, TypeOK, counting
<1> QED BY <1>1, <1>2, <1>3, <1>4, <1>5, <1>6

\* So does following a token.
LEMMA GoTyped ==
  ASSUME TypeOK, NEW t \in tokens, Go(t)
  PROVE  TypeOK'
<1>1. t \in Token /\ t.session \in Session
  BY DEF TypeOK, Token
<1>2. /\ log' \in Seq(Event) /\ Len(log') <= MaxEvents
      /\ \A n \in 0 .. Len(log) : n \in 0 .. Len(log')
  BY <1>1, WriteTyped DEF Go, EventType
<1> QED BY <1>2 DEF Go, TypeOK, counting, session

\* So do the clock and the aggregation.
LEMMA CountTyped ==
  ASSUME TypeOK, Tick \/ AggregateRead \/ AggregateWrite
  PROVE  TypeOK'
<1>1. CASE Tick
  BY <1>1, NorthStarAssumption DEF Tick, TypeOK, counting, session, Time
<1>2. CASE AggregateRead
  <2>1. DayOf(now) \in Day
    BY DayTyped DEF TypeOK
  <2>2. /\ reading'.day = DayOf(now)
        /\ DOMAIN reading'.seen \subseteq Session
        /\ reading'.from \in 0 .. Len(log)
    BY <1>2 DEF AggregateRead, Snapshot, StartedOn, TypeOK
  <2> QED BY <1>2, <2>1, <2>2 DEF AggregateRead, TypeOK, session
<1>3. CASE AggregateWrite
  <2>1. PICK found \in Found(reading.from) :
          daily' = [daily EXCEPT ![reading.day] =
                      Aggregated(reading.seen, found)]
    BY <1>3 DEF AggregateWrite
  <2>2. Aggregated(reading.seen, found) \in Metrics
    BY <1>3, AggregatedTyped DEF AggregateWrite, TypeOK
  <2> QED BY <1>3, <2>1, <2>2 DEF AggregateWrite, TypeOK, session
<1> QED BY <1>1, <1>2, <1>3

\* Every variable keeps its type.
THEOREM TypeCorrect == Spec => []TypeOK
<1>1. TypeOK /\ [Next]_vars => TypeOK'
  <2> SUFFICES ASSUME TypeOK, [Next]_vars PROVE TypeOK'
    OBVIOUS
  <2>1. CASE UNCHANGED vars
    BY <2>1 DEF vars, TypeOK
  <2> QED BY <2>1, RequestTyped, GoTyped, CountTyped DEF Next
<1> QED BY <1>1, InitTyped, PTL DEF Spec

----------------------------------------------------------------------------
(* What is counted.                                                        *)

\* A jump came by a token that was handed out for its session and was still
\* valid; no token is from the future.
Honest ==
  /\ \A t \in tokens : t.at <= now
  /\ \A j \in DOMAIN log : log[j].type = "jump" =>
       /\ log[j].key \in tokens /\ log[j].key.session = log[j].session
       /\ log[j].at - log[j].key.at \in 0 .. Ttl

\* The log only grows, and at its end.
Grows == /\ DOMAIN log \subseteq DOMAIN log'
         /\ \A i \in DOMAIN log : log'[i] = log[i]

LEMMA WriteGrows ==
  ASSUME TypeOK, NEW type, NEW s, NEW key, Write(type, s, key)
  PROVE  /\ Grows
         /\ DOMAIN log' = DOMAIN log \cup {Len(log) + 1}
         /\ log'[Len(log) + 1] =
              [type |-> type, session |-> s, at |-> now, key |-> key]
         /\ \A j \in DOMAIN log' : j \in DOMAIN log \/ log'[j].type = type
<1>1. /\ Grows
      /\ DOMAIN log' = DOMAIN log \cup {Len(log) + 1}
      /\ log'[Len(log) + 1] =
           [type |-> type, session |-> s, at |-> now, key |-> key]
  BY DEF TypeOK, Write, Grows
<1>2. log'[Len(log) + 1].type = type
  BY <1>1
<1> QED BY <1>1, <1>2

\* Every step keeps what is logged and what was handed out.
LEMMA NothingForgotten ==
  ASSUME TypeOK, [Next]_vars
  PROVE  Grows /\ tokens \subseteq tokens' /\ now \in Int /\ now' \in Int
         /\ now <= now'
<1>0. now \in Int
  BY DEF TypeOK, Time
<1>1. CASE UNCHANGED vars \/ Tick \/ AggregateRead \/ AggregateWrite
  BY <1>0, <1>1 DEF vars, Tick, AggregateRead, AggregateWrite, session, counting,
     Grows
<1>2. ASSUME NEW s \in Session, Start(s) \/ Finalize(s) \/ Clear(s)
      PROVE  Grows /\ tokens \subseteq tokens' /\ now' = now
  BY <1>2 DEF Start, Finalize, Clear, counting, Grows
<1>3. ASSUME NEW s \in Session, Accept(s) \/ Swap(s) \/ SwapExhausted(s)
      PROVE  Grows /\ tokens \subseteq tokens' /\ now' = now
  BY <1>3, WriteGrows DEF Accept, Swap, SwapExhausted, counting, session
<1>4. ASSUME NEW t \in tokens, Go(t)
      PROVE  Grows /\ tokens \subseteq tokens' /\ now' = now
  BY <1>4, WriteGrows DEF Go, counting, session
<1> QED BY <1>0, <1>1, <1>2, <1>3, <1>4 DEF Next

\* A step that logs no jump and signs at most a token of now keeps Honest.
LEMMA HonestKept ==
  ASSUME TypeOK, Honest, Grows, tokens \subseteq tokens', now \in Int,
         now' \in Int, now <= now',
         \A t \in tokens' : t \in tokens \/ t.at = now,
         \A j \in DOMAIN log' : j \in DOMAIN log \/ log'[j].type # "jump"
  PROVE  Honest'
<1>1. \A t \in tokens' : t.at <= now'
  <2>1. \A t \in tokens : t.at \in Int
    BY DEF TypeOK, Token, Time
  <2> QED BY <2>1 DEF Honest
<1> QED BY <1>1 DEF Honest, Grows

LEMMA HonestStep ==
  ASSUME TypeOK, Honest, [Next]_vars
  PROVE  Honest'
<1>0. Grows /\ tokens \subseteq tokens' /\ now \in Int /\ now' \in Int
      /\ now <= now'
  BY NothingForgotten
<1>1. CASE UNCHANGED vars \/ Tick \/ AggregateRead \/ AggregateWrite
  <2>1. UNCHANGED <<log, tokens>>
    BY <1>1 DEF vars, Tick, AggregateRead, AggregateWrite, session, counting
  <2> QED BY <1>0, <2>1, HonestKept
<1>2. ASSUME NEW s \in Session, Start(s) \/ Finalize(s) \/ Clear(s)
      PROVE  Honest'
  <2>1. log' = log /\ \A t \in tokens' : t \in tokens \/ t.at = now
    BY <1>2 DEF Start, Finalize, Clear, counting, TokenOf
  <2> QED BY <1>0, <2>1, HonestKept
<1>3. ASSUME NEW s \in Session, Accept(s) \/ Swap(s) \/ SwapExhausted(s)
      PROVE  Honest'
  <2>1. \A t \in tokens' : t \in tokens \/ t.at = now
    BY <1>3 DEF Accept, Swap, SwapExhausted, counting, session, TokenOf
  <2>2. \A j \in DOMAIN log' : j \in DOMAIN log \/ log'[j].type # "jump"
    <3>1. PICK type \in {"accept", "swap", "swap_exhausted"} :
            Write(type, s, NoToken)
      BY <1>3 DEF Accept, Swap, SwapExhausted
    <3>2. \A j \in DOMAIN log' : j \in DOMAIN log \/ log'[j].type = type
      BY <3>1, WriteGrows
    <3> QED BY <3>2
  <2> QED BY <1>0, <2>1, <2>2, HonestKept
<1>4. ASSUME NEW t \in tokens, Go(t) PROVE Honest'
  <2>1. /\ DOMAIN log' = DOMAIN log \cup {Len(log) + 1}
        /\ log'[Len(log) + 1] =
             [type |-> "jump", session |-> t.session, at |-> now, key |-> t]
        /\ UNCHANGED <<tokens, now>>
    BY <1>4, WriteGrows DEF Go, session, counting
  <2>2. now - t.at \in 0 .. Ttl
    BY <1>4 DEF Go, Verified, Honest, TypeOK, Token, Time
  <2> QED BY <1>0, <2>1, <2>2 DEF Honest, Grows
<1> QED BY <1>1, <1>2, <1>3, <1>4 DEF Next

\* What a query finds is what was logged, and stays so.
LEMMA FoundLogged ==
  ASSUME TypeOK, NEW from \in 0 .. Len(log), NEW found \in Found(from)
  PROVE  \A s, type : /\ Of(s, type, found.accept) \subseteq Logged(s, type)
                      /\ Of(s, type, found.jump) \subseteq Logged(s, type)
<1>1. PICK n \in Nat : n = Len(log)
  BY DEF TypeOK
<1>2. found.accept \in from .. n /\ found.jump \in from .. n
  BY <1>1 DEF Found
<1>3. 1 .. found.accept \subseteq 1 .. n /\ 1 .. found.jump \subseteq 1 .. n
  BY <1>1, <1>2
<1> QED BY <1>1, <1>3 DEF Of, Logged

LEMMA LoggedKept ==
  ASSUME TypeOK, TypeOK', Grows
  PROVE  \A s, type : \A i \in Logged(s, type) :
           i \in Logged(s, type)' /\ log'[i] = log[i]
<1>1. DOMAIN log = 1 .. Len(log) /\ DOMAIN log' = 1 .. Len(log')
  BY DEF TypeOK
<1> QED BY <1>1 DEF Logged, Of, Grows

\* What was logged and handed out still pairs what was counted.
LEMMA PairsKept ==
  ASSUME TypeOK, TypeOK', CountedWerePaired, Grows, tokens \subseteq tokens',
         daily' = daily
  PROVE  CountedWerePaired'
<1> SUFFICES ASSUME NEW d \in Day, daily[d] # NoRow,
                    NEW s \in daily[d].north_star \cup daily[d].surrender
             PROVE  \E i \in Logged(s, "accept")', j \in Logged(s, "jump")' :
                      /\ Gap(i, j)' \in 0 .. Window
                      /\ log'[j].key \in tokens' /\ log'[j].key.session = s
                      /\ log'[j].at - log'[j].key.at \in 0 .. Ttl
  BY DEF CountedWerePaired
<1>1. PICK i \in Logged(s, "accept"), j \in Logged(s, "jump") :
        /\ Gap(i, j) \in 0 .. Window
        /\ log[j].key \in tokens /\ log[j].key.session = s
        /\ log[j].at - log[j].key.at \in 0 .. Ttl
  BY DEF CountedWerePaired
<1>2. /\ i \in Logged(s, "accept")' /\ log'[i] = log[i]
      /\ j \in Logged(s, "jump")' /\ log'[j] = log[j]
  BY LoggedKept
<1>3. Gap(i, j)' = Gap(i, j)
  BY <1>2 DEF Gap
<1> QED BY <1>1, <1>2, <1>3

\* A session the aggregation counts has its accept and its honest jump.
LEMMA WritePairs ==
  ASSUME TypeOK, Honest, CountedWerePaired, AggregateWrite
  PROVE  CountedWerePaired'
<1>1. PICK found \in Found(reading.from) :
        daily' = [daily EXCEPT ![reading.day] = Aggregated(reading.seen, found)]
  BY DEF AggregateWrite
<1> DEFINE new == Aggregated(reading.seen, found)
<1>2. \A s \in new.north_star \cup new.surrender : Paired(s, found)
  BY DEF Aggregated
<1>3. \A s \in new.north_star \cup new.surrender :
        \E i \in Logged(s, "accept"), j \in Logged(s, "jump") :
          /\ Gap(i, j) \in 0 .. Window
          /\ log[j].key \in tokens /\ log[j].key.session = s
          /\ log[j].at - log[j].key.at \in 0 .. Ttl
  <2>1. TAKE s \in new.north_star \cup new.surrender
  <2>2. PICK i \in Of(s, "accept", found.accept),
             j \in Of(s, "jump", found.jump) : Gap(i, j) \in 0 .. Window
    BY <1>2 DEF Paired
  <2>3. i \in Logged(s, "accept") /\ j \in Logged(s, "jump")
    <3>1. reading.from \in 0 .. Len(log)
      BY DEF AggregateWrite, TypeOK
    <3> QED BY <2>2, <3>1, FoundLogged
  <2>4. j \in DOMAIN log /\ log[j].type = "jump" /\ log[j].session = s
    BY <2>3 DEF Logged, Of, TypeOK
  <2> QED BY <2>2, <2>3, <2>4 DEF Honest
<1>4. \A d \in Day : daily'[d] = daily[d] \/ daily'[d] = new
  BY <1>1 DEF TypeOK
<1>5. UNCHANGED <<log, tokens>>
  BY DEF AggregateWrite
<1> HIDE DEF new
<1> SUFFICES ASSUME NEW d \in Day, daily'[d] # NoRow,
                    NEW s \in daily'[d].north_star \cup daily'[d].surrender
             PROVE  \E i \in Logged(s, "accept"), j \in Logged(s, "jump") :
                      /\ Gap(i, j) \in 0 .. Window
                      /\ log[j].key \in tokens /\ log[j].key.session = s
                      /\ log[j].at - log[j].key.at \in 0 .. Ttl
  BY <1>5 DEF CountedWerePaired, Logged, Of, Gap
<1> QED BY <1>3, <1>4 DEF CountedWerePaired

\* Only the aggregation writes the daily rows.
LEMMA DailyKept ==
  ASSUME [Next]_vars, ~AggregateWrite
  PROVE  daily' = daily
BY DEF Next, vars, Start, Finalize, Accept, Swap, SwapExhausted, Clear, Go,
   Tick, AggregateRead, counting

\* Whatever comes before the aggregation and between its queries, a session
\* its daily rows count in the north star or the surrenders has an accept
\* and, in the minute after it, a jump by a valid token of that session.
THEOREM CountedArePaired == Spec => []CountedWerePaired
<1>1. Init => Honest /\ CountedWerePaired
  BY DEF Init, Honest, CountedWerePaired
<1>2. TypeOK /\ TypeOK' /\ Honest /\ CountedWerePaired /\ [Next]_vars
        => Honest' /\ CountedWerePaired'
  <2> SUFFICES ASSUME TypeOK, TypeOK', Honest, CountedWerePaired, [Next]_vars
               PROVE  CountedWerePaired'
    BY HonestStep
  <2>1. CASE AggregateWrite
    BY <2>1, WritePairs
  <2>2. CASE ~AggregateWrite
    BY <2>2, DailyKept, NothingForgotten, PairsKept
  <2> QED BY <2>1, <2>2
<1> QED BY <1>1, <1>2, TypeCorrect, PTL DEF Spec

----------------------------------------------------------------------------
(* The day of a session.                                                   *)

\* What was read or counted of a session that was not cleared is of the day
\* in its row.
DayInv ==
  /\ reading # NoRow => \A s \in DOMAIN reading.seen \ cleared :
       row[s] # None /\ DayOf(row[s].started) = reading.day
  /\ \A d \in Day : daily[d] # NoRow =>
       \A s \in daily[d].sessions \ cleared :
         row[s] # None /\ DayOf(row[s].started) = d

\* The row of a session says one start, until the session is cleared.
LEMMA StartKept ==
  ASSUME TypeOK, [Next]_vars
  PROVE  /\ cleared \subseteq cleared'
         /\ \A s \in Session \ cleared' :
              row[s] # None =>
                row'[s] # None /\ row'[s].started = row[s].started
<1>1. CASE UNCHANGED vars \/ Tick \/ AggregateRead \/ AggregateWrite
  BY <1>1 DEF vars, Tick, AggregateRead, AggregateWrite, session
<1>2. ASSUME NEW v \in Session, Start(v) \/ Finalize(v) \/ Swap(v)
                                \/ SwapExhausted(v) \/ Clear(v)
      PROVE  /\ cleared \subseteq cleared'
             /\ \A s \in Session \ cleared' :
                  row[s] # None => row'[s] = row[s]
  BY <1>2 DEF Start, Finalize, Swap, SwapExhausted, Clear, session, Ensured,
     TypeOK
<1>3. ASSUME NEW v \in Session, Accept(v)
      PROVE  /\ cleared' = cleared
             /\ \A s \in Session : row[s] # None =>
                  row'[s] # None /\ row'[s].started = row[s].started
  <2>1. cleared' = cleared /\ \A s \in Session \ {v} : row'[s] = row[s]
    BY <1>3 DEF Accept, Accepted, TypeOK
  <2>2. row[v] # None => row[v] \in [status : Status, started : Time]
    BY DEF TypeOK
  <2>3. row[v] # None => row'[v] = [row[v] EXCEPT !.status = "accepted"]
    BY <1>3 DEF Accept, Accepted, Ensured, TypeOK
  <2>4. row[v] # None =>
          row'[v].status = "accepted" /\ row'[v].started = row[v].started
    BY <2>2, <2>3
  <2>5. None.status # "accepted"
    BY DEF None
  <2> QED BY <2>1, <2>4, <2>5
<1>4. ASSUME NEW t \in tokens, Go(t)
      PROVE  cleared' = cleared /\ row' = row
  BY <1>4 DEF Go, session
<1> QED BY <1>1, <1>2, <1>3, <1>4 DEF Next

LEMMA DayStep ==
  ASSUME TypeOK, DayInv, [Next]_vars
  PROVE  DayInv'
<1>0. /\ cleared \subseteq cleared'
      /\ \A s \in Session \ cleared' : row[s] # None =>
           row'[s] # None /\ row'[s].started = row[s].started
  BY StartKept
<1>1. reading' # NoRow => \A s \in DOMAIN reading'.seen \ cleared' :
        row'[s] # None /\ DayOf(row'[s].started) = reading'.day
  <2>1. CASE reading' = reading
    BY <1>0, <2>1 DEF DayInv, TypeOK
  <2>2. CASE AggregateWrite
    BY <2>2 DEF AggregateWrite
  <2>3. CASE AggregateRead
    <3>1. UNCHANGED <<row, cleared>>
      BY <2>3 DEF AggregateRead, session
    <3>2. /\ reading'.day = DayOf(now)
          /\ DOMAIN reading'.seen = StartedOn(DayOf(now))
      BY <2>3 DEF AggregateRead, Snapshot
    <3> QED BY <3>1, <3>2 DEF StartedOn
  <2> QED BY <2>1, <2>2, <2>3 DEF Next, vars, Start, Finalize, Accept, Swap,
         SwapExhausted, Clear, Go, Tick, counting
<1>2. \A d \in Day : daily'[d] # NoRow =>
        \A s \in daily'[d].sessions \ cleared' :
          row'[s] # None /\ DayOf(row'[s].started) = d
  <2>1. \A d \in Day : daily[d] # NoRow => daily[d].sessions \subseteq Session
    BY DEF TypeOK, Metrics
  <2>2. CASE daily' = daily
    BY <1>0, <2>1, <2>2 DEF DayInv
  <2>3. CASE AggregateWrite
    <3>1. PICK found \in Found(reading.from) :
            daily' = [daily EXCEPT ![reading.day] =
                        Aggregated(reading.seen, found)]
      BY <2>3 DEF AggregateWrite
    <3>2. Aggregated(reading.seen, found).sessions = DOMAIN reading.seen
      BY DEF Aggregated
    <3>3. UNCHANGED <<row, cleared>> /\ reading # NoRow
      BY <2>3 DEF AggregateWrite, session
    <3>4. \A d \in Day :
            \/ daily'[d] = daily[d]
            \/ /\ d = reading.day
               /\ daily'[d] = Aggregated(reading.seen, found)
      BY <3>1 DEF TypeOK
    <3> QED BY <3>2, <3>3, <3>4 DEF DayInv
  <2> QED BY <2>2, <2>3, DailyKept
<1> QED BY <1>1, <1>2 DEF DayInv

\* A session not cleared counts in the row of one day only, however long
\* after midnight it goes on.
THEOREM CountedOnce == Spec => []CountedOnOneDay
<1>1. Init => DayInv
  BY DEF Init, DayInv
<1>2. TypeOK /\ DayInv => CountedOnOneDay
  <2> SUFFICES ASSUME TypeOK, DayInv,
                      NEW d \in Day, NEW e \in Day, d # e,
                      daily[d] # NoRow, daily[e] # NoRow,
                      NEW s \in daily[d].sessions \cap daily[e].sessions,
                      s \notin cleared
               PROVE  FALSE
    BY DEF CountedOnOneDay
  <2> QED BY DEF DayInv
<1> QED BY <1>1, <1>2, DayStep, TypeCorrect, PTL DEF Spec

----------------------------------------------------------------------------
(* The two programs.                                                       *)

\* The status of a session and its event tell the same of acceptance, until
\* the session is cleared and its events stay.
AcceptedInv ==
  \A s \in Session \ cleared :
    row[s].status = "accepted" <=> Logged(s, "accept") # {}

\* A step that accepts nothing and clears nothing it does not say.
LEMMA AcceptedKept ==
  ASSUME TypeOK, TypeOK', AcceptedInv, Grows, cleared \subseteq cleared',
         \A j \in DOMAIN log' : j \in DOMAIN log \/ log'[j].type # "accept",
         \A s \in Session \ cleared' :
           row'[s].status = "accepted" <=> row[s].status = "accepted"
  PROVE  AcceptedInv'
<1>1. DOMAIN log = 1 .. Len(log) /\ DOMAIN log' = 1 .. Len(log')
  BY DEF TypeOK
<1>2. \A s \in Session : Logged(s, "accept")' = Logged(s, "accept")
  BY <1>1 DEF Logged, Of, Grows
<1> QED BY <1>2 DEF AcceptedInv

LEMMA AcceptedStep ==
  ASSUME TypeOK, TypeOK', AcceptedInv, [Next]_vars
  PROVE  AcceptedInv'
<1>0. Grows
  BY NothingForgotten
<1>1. CASE UNCHANGED vars \/ Tick \/ AggregateRead \/ AggregateWrite
  <2>1. UNCHANGED <<log, row, cleared>>
    BY <1>1 DEF vars, Tick, AggregateRead, AggregateWrite, session, counting
  <2> QED BY <1>0, <2>1, AcceptedKept
<1>2. ASSUME NEW s \in Session, Start(s) \/ Finalize(s) PROVE AcceptedInv'
  <2>1. UNCHANGED <<log, cleared>>
    BY <1>2 DEF Start, Finalize, counting
  <2>2. \A v \in Session :
          row'[v].status = "accepted" <=> row[v].status = "accepted"
    <3>1. PICK status \in {"answering", "presented"} :
            row' = [row EXCEPT ![s] = Ensured(s, status)]
      BY <1>2 DEF Start, Finalize
    <3>2. \A v \in Session \ {s} : row'[v] = row[v]
      BY <3>1 DEF TypeOK
    <3>3. row'[s] = Ensured(s, status)
      BY <3>1 DEF TypeOK
    <3>4. \/ row'[s] = row[s]
          \/ row[s] = None /\ row'[s] = [status |-> status, started |-> now]
      BY <3>3 DEF Ensured
    <3> QED BY <3>2, <3>4 DEF None
  <2> QED BY <1>0, <2>1, <2>2, AcceptedKept
<1>3. ASSUME NEW s \in Session, Swap(s) \/ SwapExhausted(s)
      PROVE  AcceptedInv'
  <2>1. UNCHANGED <<row, cleared>>
    BY <1>3 DEF Swap, SwapExhausted, session
  <2>2. PICK type \in {"swap", "swap_exhausted"} : Write(type, s, NoToken)
    BY <1>3 DEF Swap, SwapExhausted
  <2>3. \A j \in DOMAIN log' : j \in DOMAIN log \/ log'[j].type = type
    BY <2>2, WriteGrows
  <2>4. \A j \in DOMAIN log' : j \in DOMAIN log \/ log'[j].type # "accept"
    BY <2>3
  <2> QED BY <1>0, <2>1, <2>4, AcceptedKept
<1>4. ASSUME NEW t \in tokens, Go(t) PROVE AcceptedInv'
  <2>1. UNCHANGED <<row, cleared>>
    BY <1>4 DEF Go, session
  <2>2. \A j \in DOMAIN log' : j \in DOMAIN log \/ log'[j].type = "jump"
    BY <1>4, WriteGrows DEF Go
  <2>3. \A j \in DOMAIN log' : j \in DOMAIN log \/ log'[j].type # "accept"
    BY <2>2
  <2> QED BY <1>0, <2>1, <2>3, AcceptedKept
<1>5. ASSUME NEW s \in Session, Clear(s) PROVE AcceptedInv'
  <2>1. log' = log /\ cleared' = cleared \cup {s}
        /\ \A v \in Session \ {s} : row'[v] = row[v]
    BY <1>5 DEF Clear, TypeOK
  <2> QED BY <1>0, <2>1, AcceptedKept
<1>6. ASSUME NEW s \in Session, Accept(s) PROVE AcceptedInv'
  <2>1. /\ DOMAIN log' = DOMAIN log \cup {Len(log) + 1}
        /\ log'[Len(log) + 1] =
             [type |-> "accept", session |-> s, at |-> now, key |-> NoToken]
        /\ cleared' = cleared
    BY <1>6, WriteGrows DEF Accept, counting
  <2>2. row'[s].status = "accepted" /\ \A v \in Session \ {s} : row'[v] = row[v]
    <3>1. [Ensured(s, "presented") EXCEPT !.status = "accepted"].status
            = "accepted"
      BY RowTyped DEF Status, Ensured, TypeOK
    <3> QED BY <1>6, <3>1 DEF Accept, Accepted, TypeOK
  <2>5. DOMAIN log = 1 .. Len(log) /\ DOMAIN log' = 1 .. Len(log')
    BY DEF TypeOK
  <2>3. Len(log) + 1 \in Logged(s, "accept")'
    <3>1. Len(log) + 1 \in 1 .. Len(log')
      BY <2>1, <2>5
    <3> QED BY <2>1, <3>1 DEF Logged, Of
  <2>4. \A v \in Session \ {s} : Logged(v, "accept")' = Logged(v, "accept")
    BY <1>0, <2>1, <2>5 DEF Logged, Of, Grows
  <2> QED BY <2>1, <2>2, <2>3, <2>4 DEF AcceptedInv
<1> QED BY <1>1, <1>2, <1>3, <1>4, <1>5, <1>6 DEF Next

\* Where one program pairs a session and the other does not, the user
\* accepted again or the jump came at the last moment.
LEMMA PairedTwice ==
  ASSUME NEW s, Paired(s, AllFound) # RecalcPaired(s)
  PROVE  \E i \in Logged(s, "accept"), j \in Logged(s, "jump") :
           /\ Gap(i, j) \in 0 .. Window
           /\ ~IsLast(i, Len(log)) \/ Gap(i, j) = Window
BY DEF Paired, RecalcPaired, InDays, AllFound, Logged

LEMMA OnlyTwoWays ==
  ASSUME TypeOK, AcceptedInv
  PROVE  OnlyTwoWaysToDiffer
<1> SUFFICES ASSUME NEW d \in Day, NEW s \in Session \ cleared
             PROVE  LET daily_row == Aggregated(Snapshot(d), AllFound)
                        again == Recalculated(d)
                    IN \A m \in DOMAIN again :
                         \/ s \in daily_row[m] <=> s \in again[m]
                         \/ /\ m \in {"north_star", "surrender"}
                            /\ \E i \in Logged(s, "accept"),
                                  j \in Logged(s, "jump") :
                                 /\ Gap(i, j) \in 0 .. Window
                                 /\ ~IsLast(i, Len(log)) \/ Gap(i, j) = Window
  BY DEF OnlyTwoWaysToDiffer
<1> DEFINE ids == StartedOn(d)
           daily_row == Aggregated(Snapshot(d), AllFound)
           again == Recalculated(d)
<1>1. /\ DOMAIN Snapshot(d) = ids
      /\ \A v \in ids : Snapshot(d)[v] = row[v].status
  BY DEF Snapshot
<1>2. DOMAIN again = {"sessions", "completed", "north_star", "surrender",
                      "first", "exhausted"}
  BY DEF Recalculated
<1>3. s \in daily_row["sessions"] <=> s \in again["sessions"]
  BY <1>1 DEF Aggregated, Recalculated
<1>4. s \in daily_row["completed"] <=> s \in again["completed"]
  BY <1>1 DEF Aggregated, Recalculated
<1>5. s \in daily_row["first"] <=> s \in again["first"]
  <2>1. row[s].status = "accepted" <=> s \in With("accept", Len(log))
    BY DEF AcceptedInv, With, Logged
  <2> QED BY <1>1, <2>1 DEF Aggregated, Recalculated, AllFound
<1>6. s \in daily_row["exhausted"] <=> s \in again["exhausted"]
  BY <1>1 DEF Aggregated, Recalculated, AllFound
<1>7. /\ s \in daily_row["north_star"] <=>
           s \in ids /\ Paired(s, AllFound) /\ s \notin With("swap_exhausted", Len(log))
      /\ s \in daily_row["surrender"] <=>
           s \in ids /\ Paired(s, AllFound) /\ s \in With("swap_exhausted", Len(log))
  BY <1>1 DEF Aggregated, AllFound
<1>8. /\ s \in again["north_star"] <=>
           s \in ids /\ RecalcPaired(s) /\ s \notin With("swap_exhausted", Len(log))
      /\ s \in again["surrender"] <=>
           s \in ids /\ RecalcPaired(s) /\ s \in With("swap_exhausted", Len(log))
  BY DEF Recalculated
<1> HIDE DEF daily_row, again, ids
<1>9. CASE Paired(s, AllFound) <=> RecalcPaired(s)
  BY <1>2, <1>3, <1>4, <1>5, <1>6, <1>7, <1>8, <1>9 DEF daily_row, again
<1>10. CASE ~(Paired(s, AllFound) <=> RecalcPaired(s))
  BY <1>2, <1>3, <1>4, <1>5, <1>6, <1>10, PairedTwice DEF daily_row, again
<1> QED BY <1>9, <1>10

\* Run at the same moment over the same rows, the two programs put a session
\* not cleared in the same metrics, but for a session with a pair in the
\* minute whose accept is not its last or whose gap is exactly the minute.
THEOREM ProgramsDifferInTwoWays == Spec => []OnlyTwoWaysToDiffer
<1>1. Init => AcceptedInv
  BY DEF Init, AcceptedInv, None, Logged, Of
<1> QED BY <1>1, AcceptedStep, OnlyTwoWays, TypeCorrect, PTL DEF Spec
=============================================================================
