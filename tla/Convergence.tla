---------------------------- MODULE Convergence ----------------------------
(***************************************************************************)
(* How one session's questions converge: the constraint state machine of   *)
(* src/app/domain/dimensions.py and the choice of the next question in     *)
(* next_question and _local_question of src/app/domain/quiz.py, answered   *)
(* by one page that asks and answers in turn (askNext and pickOption of    *)
(* src/app/static/app.js).                                                 *)
(*                                                                         *)
(* A dish's class is a path down a tree of nodes; across it lie orthogonal *)
(* dimensions (spice, texture, ...) that are locked one by one.  A         *)
(* question asks one node or one dimension; the answer's entry in          *)
(* question_log carries the node it names, or the dimensions its tags      *)
(* lock.  The LLM may ask any available dimension, or fail, and then the   *)
(* local bank asks.                                                        *)
(***************************************************************************)
EXTENDS Integers, Sequences, FiniteSets, SequencesExt

CONSTANTS Node,         \* nodes of the classification tree
          Form,         \* its root
          Main,         \* children of a node: levels that must be walked
          Fine,         \* optional_children of a node: refinements
          Ortho,        \* ids of the orthogonal dimensions
          MustOrtho,    \* those one of which must be locked to close
          Spice,        \* the dimension questions about spice are moved to
          Bank,         \* LOCAL_BANK: sequence of [dim, picks]
          MaxAskSteps,  \* MAX_ASK_STEPS
          MaxHits,      \* bound: dimensions the tags of one option hit
          MinSteps      \* values of config quiz.min_steps, min_steps_profiled

OtherName == "other name"

Children(n) == Main[n] \cup Fine[n]

\* CHAIN is a tree of four levels that grows from the root, and refinements
\* are not walked any further.
ASSUME TreeAssumption ==
  /\ Form \in Node
  /\ Main \in [Node -> SUBSET Node] /\ Fine \in [Node -> SUBSET Node]
  /\ Main[Form] # {}
  /\ \E depth \in [Node -> 0 .. 3] :
       /\ depth[Form] = 0
       /\ \A n \in Node : \A m \in Children(n) : depth[m] = depth[n] + 1
  /\ \A n, m \in Node : Children(n) \cap Children(m) # {} => n = m
  /\ \A n \in Node : \A m \in Fine[n] : Main[m] = {}

ASSUME OrthoAssumption ==
  /\ OtherName \notin Node \cup Ortho
  /\ Node \cap Ortho = {}
  /\ MustOrtho \subseteq Ortho /\ Spice \in MustOrtho
  /\ MaxAskSteps \in Nat /\ MinSteps \subseteq Nat /\ MaxHits \in Nat

\* LOCAL_BANK asks about spice and texture, and about every node that has
\* compulsory children: its options name some of them.
ASSUME BankAssumption ==
  /\ Bank \in Seq([dim : Node \cup MustOrtho, picks : SUBSET Node])
  /\ \A i \in DOMAIN Bank :
       LET b == Bank[i]
       IN IF b.dim \in Node THEN b.picks # {} /\ b.picks \subseteq Main[b.dim]
                            ELSE b.picks = {}
  /\ \A n \in Node : Main[n] # {} => \E i \in DOMAIN Bank : Bank[i].dim = n
  /\ \E i \in DOMAIN Bank : Bank[i].dim \in MustOrtho

VARIABLES log,       \* the entries of question_log
          question,  \* the question on the page
          phase      \* "asking", "asked" or "closed"

vars == <<log, question, phase>>

\* An entry carries the dim of its option (a node, an orthogonal dimension or
\* a name that is neither), the orthogonal dimensions its tags hit, the
\* dimension that was asked and who asked it.
Entry == [dim : Node \cup Ortho \cup {OtherName}, locks : SUBSET Ortho,
          asked : Node \cup Ortho, source : {"llm", "local"}]
Question == [dim : Node \cup Ortho, stop : BOOLEAN, source : {"llm", "local"}]
NoQuestion == [dim |-> Form, stop |-> FALSE, source |-> "local"]

----------------------------------------------------------------------------
(* dimensions.py                                                           *)

\* A node and everything below it; the tree has three levels under Form.
Below(S) == UNION {Children(n) : n \in S}
Subtree(n) == {n} \cup Below({n}) \cup Below(Below({n}))
                  \cup Below(Below(Below({n})))

Tip(chain) == chain[Len(chain)]

\* The same-branch guard: the node lies under the tip, or above it.
SameBranch(chain, n) ==
  \/ chain = <<>>
  \/ n \in Subtree(Tip(chain))
  \/ Tip(chain) \in Subtree(n)

\* One entry of the log absorbed into the state.
Absorb(state, e) ==
  CASE e.dim \notin Node -> [state EXCEPT !.ortho = @ \cup e.locks]
    [] e.dim \in Node /\ SameBranch(state.chain, e.dim)
         /\ e.dim \notin Range(state.chain)
         -> [state EXCEPT !.chain = Append(@, e.dim)]
    [] OTHER -> state

BuildState(entries) ==
  LET after[n \in 0 .. Len(entries)] ==
        IF n = 0 THEN [chain |-> <<>>, ortho |-> {}]
        ELSE Absorb(after[n - 1], entries[n])
  IN  after[Len(entries)]

\* Steps at the end of the log whose dim is orthogonal.
TailOrthoStreak(entries) ==
  LET chained == {i \in DOMAIN entries : entries[i].dim \notin Ortho}
  IN  Len(entries) - (IF chained = {} THEN 0 ELSE Max(chained))

\* Mutant of ChainDims: the root stays available.
ChainDimsWithRoot(state) ==
  {Form} \cup (IF state.chain = <<>> THEN {}
               ELSE Children(Tip(state.chain)))

\* The nodes one step below the tip, or the root while nothing is locked.
ChainDims(state) ==
  IF state.chain = <<>> THEN {Form} ELSE Children(Tip(state.chain))

\* Mutant of AvailableDims: locked dimensions stay available.
AvailableDimsAll(state) == ChainDims(state) \cup Ortho

AvailableDims(state) == ChainDims(state) \cup (Ortho \ state.ortho)

\* The chain has reached a node without compulsory children or depth three.
ChainDone(state) ==
  /\ state.chain # <<>>
  /\ Main[Tip(state.chain)] = {} \/ Len(state.chain) >= 3

MustLocked(state) == MustOrtho \cap state.ortho # {}

ShouldFinalize(state, step) ==
  \/ ChainDone(state) /\ MustLocked(state)
  \/ step >= MaxAskSteps

----------------------------------------------------------------------------
(* next_question                                                           *)

\* Mutants of ChainOnly: no drill at all; the drill starts one question late.
ChainOnlyOff(state, entries) == FALSE
ChainOnlyLate(state, entries) ==
  /\ TailOrthoStreak(entries) >= 3
  /\ Len(state.chain) < 3
  /\ ChainDims(state) # {}

\* Two orthogonal questions in a row and a shallow chain: only chain
\* questions are admitted, as long as the chain can go on.
ChainOnly(state, entries) ==
  /\ TailOrthoStreak(entries) >= 2
  /\ Len(state.chain) < 3
  /\ ChainDims(state) # {}

\* A bank item asks one of the dimensions, or its options name one.
Fits(b, dims) == b.dim \in dims \/ b.picks \cap dims # {}

\* A filter gives way when it leaves nothing.
Narrow(S, T) == IF S \cap T = {} THEN S ELSE S \cap T

\* The places of the bank items that fit the available dimensions, narrowed
\* to chain items during a forced drill and to items not asked yet; without
\* any, those about spice and texture.
Candidates(state, entries) ==
  LET dims == AvailableDims(state)
      available == {i \in DOMAIN Bank : dims = {} \/ Fits(Bank[i], dims)}
      drilling == {i \in DOMAIN Bank : \/ ~ChainOnly(state, entries)
                                       \/ Fits(Bank[i], ChainDims(state))}
      fresh == {i \in DOMAIN Bank :
                  \A k \in DOMAIN entries : entries[k].source = "local" =>
                    entries[k].asked # Bank[i].dim}
      fitting == Narrow(Narrow(available, drilling), fresh)
  IN  IF fitting = {} THEN {i \in DOMAIN Bank : Bank[i].dim \in MustOrtho}
      ELSE fitting

\* The member of S that has k others before it.
Nth(S, k) == CHOOSE i \in S : Cardinality({j \in S : j < i}) = k

LocalQuestion(state, entries) ==
  LET cands == Candidates(state, entries)
  IN  Bank[Nth(cands, Len(entries) % Cardinality(cands))]

\* The stop flag of a bank question: it is the last one the session needs.
\* Mutant: one question early.
LocalStopEarly(entries, min) == Len(entries) >= min - 2
LocalStop(entries, min) == Len(entries) >= min - 1

\* The minimum is read for every question; it is lower once the user has a
\* profile, which may happen in between.
Ask(q) == question' = q /\ phase' = "asked" /\ UNCHANGED log

\* An LLM question that passed validation and the forced drill.
AskLlm ==
  /\ phase = "asking"
  /\ LET state == BuildState(log)
         dims == IF ChainOnly(state, log) THEN ChainDims(state)
                                          ELSE AvailableDims(state)
     IN  /\ ~ShouldFinalize(state, Len(log))
         /\ \E d \in dims, stop \in BOOLEAN, min \in MinSteps :
              /\ stop => Len(log) >= min
              /\ Ask([dim |-> d, stop |-> stop, source |-> "llm"])

\* The call failed or its question was rejected: the local bank asks.
AskLocal ==
  /\ phase = "asking"
  /\ LET state == BuildState(log)
     IN  /\ ~ShouldFinalize(state, Len(log))
         /\ \E min \in MinSteps :
              Ask([dim |-> LocalQuestion(state, log).dim,
                   stop |-> LocalStop(log, min),
                   source |-> "local"])

\* The engine has heard enough: the page goes on to finalize.
Finish ==
  /\ phase = "asking"
  /\ ShouldFinalize(BuildState(log), Len(log))
  /\ phase' = "closed"
  /\ UNCHANGED <<log, question>>

----------------------------------------------------------------------------
(* answer_option                                                           *)

\* Mutant of Locking: the option's dim is not stored.
LockingBlank(n) == [dim |-> "", locks |-> {}]

Locking(n) == [dim |-> n, locks |-> {}]
Hitting(d, S) == [dim |-> d, locks |-> S]

Hits == {S \in SUBSET Ortho : Cardinality(S) <= MaxHits}

\* An entry that carries the root sinks to a first-level node when its tags
\* or its wording name one (_sink_l1).
Sunk(n) == IF n = Form THEN {Form} \cup Main[Form] ELSE {n}

\* What an answer to an LLM question writes.  The options of a chain
\* question carry the question's node whatever the user picks.  Those of the
\* root question carry the dim the LLM wrote, any node or any other name, and
\* without one the root.  The options of an orthogonal question hit its
\* values, unless it was moved to spice from another dimension for its
\* wording: then they hit any or none.
LlmEntries(d) ==
  CASE d = Form -> {Locking(n) : n \in UNION {Sunk(m) : m \in Node}}
                     \cup {Hitting(x, S) : x \in Ortho \cup {OtherName},
                                            S \in Hits}
    [] d \in Node \ {Form} -> {Locking(d)}
    [] d \in Ortho -> {Hitting(d, S) : S \in {T \in Hits : d \in T \/ d = Spice}}

\* The bank's chain options name the child they lock; its spice and texture
\* options carry no dim, and their value tells the dimension.
LocalEntries(d) ==
  LET item == CHOOSE b \in Range(Bank) : b.dim = d
  IN  IF d \in Ortho THEN {Hitting(d, {d})} ELSE {Locking(n) : n \in item.picks}

Answer ==
  /\ phase = "asked"
  /\ \E e \in IF question.source = "llm" THEN LlmEntries(question.dim)
                                         ELSE LocalEntries(question.dim) :
       log' = Append(log, [dim |-> e.dim, locks |-> e.locks,
                           asked |-> question.dim,
                           source |-> question.source])
  /\ phase' = IF question.stop THEN "closed" ELSE "asking"
  /\ UNCHANGED question

Init == log = <<>> /\ question = NoQuestion /\ phase = "asking"

Closed == phase = "closed" /\ UNCHANGED vars

Next == AskLlm \/ AskLocal \/ Finish \/ Answer \/ Closed

Spec == Init /\ [][Next]_vars

----------------------------------------------------------------------------
(* Correctness.                                                            *)

TypeOK ==
  /\ log \in Seq(Entry)
  /\ question \in Question
  /\ phase \in {"asking", "asked", "closed"}

State == BuildState(log)

\* The locked chain only ever goes down one branch of the tree: no answer
\* takes the session back up or across to another branch (the same-branch
\* guard of build_state and the frontier of available_dims together).
ChainDescends ==
  \A i \in 1 .. Len(State.chain) - 1 :
    State.chain[i + 1] \in Subtree(State.chain[i]) \ {State.chain[i]}

\* No question is put to the user that the session has an answer to: a taste
\* that is locked is never asked about again (the local bank's last resort,
\* spice and texture whatever is locked, is out of reach), and the bank never
\* repeats itself, though its filter for asked questions gives way when it
\* leaves nothing.
NeverAsksAgain ==
  phase = "asked" =>
    /\ question.dim \notin State.ortho
    /\ question.source = "local" =>
         \A i \in DOMAIN log :
           log[i].source = "local" => log[i].asked # question.dim

\* After two orthogonal questions in a row, the next one walks the chain
\* while a compulsory level is left, whoever asks it (F4 in next_question).
DrillsCompulsoryLevels ==
  phase = "asked" /\ TailOrthoStreak(log) >= 2 /\ Len(State.chain) < 3
    /\ (State.chain = <<>> \/ Main[Tip(State.chain)] # {})
  => question.dim \in Node

\* No session is closed before it was asked for a direction at all, by the
\* engine's verdict, by the cap or by a question's stop flag.
NeverClosesUnasked ==
  phase = "closed" => \E i \in DOMAIN log : log[i].asked \in Node

Alone == \A i \in DOMAIN log : log[i].source = "local"

\* A session the LLM never took part in is never closed unconverged, though a
\* bank question's stop flag closes it without asking the engine: its answers
\* lead down to a class of dishes and lock a taste.
LocalSessionsConverge ==
  phase = "closed" /\ Alone => ChainDone(State) /\ MustLocked(State)

\* What the texts at quiz.py:3 and quiz.py:71 say of such a session, that it
\* takes five to eight steps.  The engine has heard enough after three.
LocalSessionsTakeFive == phase = "closed" /\ Alone => Len(log) >= 5
=============================================================================
