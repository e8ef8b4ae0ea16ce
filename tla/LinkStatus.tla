----------------------------- MODULE LinkStatus -----------------------------
(***************************************************************************)
(* The links entry of the config table: whether the delivery platform's    *)
(* deep links are offered, and the template they are made from.  Three     *)
(* processes write it: the API fills in the default when it starts         *)
(* (ensure_config), the nightly probe of src/app/cron/probe.py flips its   *)
(* status, and the operator changes it through set_config of               *)
(* src/app/admin.py with its three gates: validate, smoke test, roll back. *)
(* Readers turn it into a link with _deep_link of src/app/web/support.py.  *)
(*                                                                         *)
(* Each of them reads the entry first and writes it whole later, in a      *)
(* transaction that does not read it again.  Which templates the platform  *)
(* accepts changes under the system.                                       *)
(***************************************************************************)
EXTENDS Integers, FiniteSets

CONSTANTS Admin,       \* requests of the operator that may overlap
          Template,    \* URL templates of the platform
          Default,     \* the one of STATIC_DEFAULTS
          NoTemplate,  \* no template for the platform in the entry
          MaxChanges,  \* bound: changes the operator asks for
          MaxShifts,   \* bound: times the platform changes
          MaxNoise     \* bound: probes without a verdict

ASSUME LinkAssumption ==
  /\ Default \in Template /\ NoTemplate \notin Template
  /\ MaxChanges \in Nat /\ MaxShifts \in Nat /\ MaxNoise \in Nat

VARIABLES
  row,       \* config.links
  works,     \* the templates the platform accepts
  probing,   \* a probe is under way
  snap,      \* the entry it read
  saw,       \* what its requests came to: "none" yet, "red" or "green"
  pc,        \* what each request of the operator does next
  wanted,    \* the value it was sent
  before,    \* the value it read as its way back
  told,      \* the entry as the audit trail has it from the start-up default
             \* on, as long as disturbed is FALSE, for the properties
  disturbed, \* two writers overlapped or one died, for the properties
  changes, shifts, noise  \* used up bounds

probe == <<probing, snap, saw>>
admin == <<pc, wanted, before, changes>>
platform == <<works, shifts, noise>>
vars == <<row, works, probing, snap, saw, pc, wanted, before, told, disturbed,
          changes, shifts, noise>>

\* The entry may be absent, or JSON null.
Absent == [status |-> "absent", tpl |-> NoTemplate]
Null == [status |-> "null", tpl |-> NoTemplate]
DefaultEntry == [status |-> "assumed_ok", tpl |-> Default]

Entry == [status : {"assumed_ok", "ok", "dead"},
          tpl : Template \cup {NoTemplate}] \cup {Absent, Null}

\* validate_config lets the operator set any template, or none.
Valid == [status : {"assumed_ok", "dead"}, tpl : Template \cup {NoTemplate}]

Init ==
  /\ row = Absent /\ told = Absent
  /\ works = {Default}
  /\ probing = FALSE /\ snap = Absent /\ saw = "none"
  /\ pc = [a \in Admin |-> "idle"]
  /\ wanted = [a \in Admin |-> Absent]
  /\ before = [a \in Admin |-> Absent]
  /\ disturbed = FALSE
  /\ changes = 0 /\ shifts = 0 /\ noise = 0

Busy == probing \/ \E a \in Admin : pc[a] # "idle"

\* What the trail tells is followed as long as nothing was disturbed.
Tell(e) == told' = IF disturbed' THEN Absent ELSE e

\* A writer starts: it disturbs one that is under way.
Enter ==
  /\ disturbed' = (disturbed \/ Busy)
  /\ Tell(told)

\* ensure_config at the start of the API: only where there is no entry.  It
\* leaves no audit row; the trail is read from the default on.
Ensure ==
  /\ row = Absent
  /\ row' = DefaultEntry
  /\ disturbed' = (disturbed \/ Busy)
  /\ Tell(DefaultEntry)
  /\ UNCHANGED <<probe, admin, platform>>

----------------------------------------------------------------------------
(* probe.py                                                                *)

\* The probe reads the entry and is off for minutes.  It does not survive
\* JSON null.
ProbeRead ==
  /\ ~probing
  /\ row # Null
  /\ probing' = TRUE
  /\ snap' = row
  /\ UNCHANGED saw
  /\ Enter
  /\ UNCHANGED <<row, admin, platform>>

\* The template it tries.
Probed(e) == IF e.tpl = NoTemplate THEN Default ELSE e.tpl

\* Mutant of Flipped: only the status is written.
FlippedBare(e, status) == [status |-> status, tpl |-> NoTemplate]

\* The entry it writes: all it read, with another status.
Flipped(e, status) == [status |-> status, tpl |-> e.tpl]

\* The requests to the platform: the links of its dishes are all green or all
\* red.  Minutes may pass before the write, and the platform change meanwhile.
ProbeLook ==
  /\ probing /\ saw = "none"
  /\ saw' = IF Probed(snap) \in works THEN "green" ELSE "red"
  /\ UNCHANGED <<row, told, probing, snap, admin, platform, disturbed>>

\* Mutants of Verdict: the probe's word for red gets into the entry; dead
\* links never recover.
VerdictFail(e, colour) ==
  CASE colour = "red" /\ e.status # "dead" -> "fail"
    [] colour = "green" /\ e.status = "dead" -> "ok"
    [] OTHER -> "same"
VerdictOneWay(e, colour) ==
  IF colour = "red" /\ e.status # "dead" THEN "dead" ELSE "same"

\* All links red, or all green, and the entry it read said otherwise.
Verdict(e, colour) ==
  CASE colour = "red" /\ e.status # "dead" -> "dead"
    [] colour = "green" /\ e.status = "dead" -> "ok"
    [] OTHER -> "same"

ProbeOver == probing' = FALSE /\ snap' = Absent /\ saw' = "none"

\* The results and, if the verdict is another, the entry and its audit row in
\* one transaction; the notice follows it.
ProbeCommit ==
  /\ probing /\ saw # "none"
  /\ ProbeOver
  /\ UNCHANGED <<admin, platform, disturbed>>
  /\ LET verdict == Verdict(snap, saw)
     IN  IF verdict = "same"
           THEN UNCHANGED <<row, told>>
           ELSE /\ row' = Flipped(snap, verdict)
                /\ Tell([told EXCEPT !.status = verdict])

\* The control target failed, or the links disagree, or the probe died.
ProbeNoVerdict ==
  /\ probing
  /\ noise < MaxNoise
  /\ noise' = noise + 1
  /\ ProbeOver
  /\ UNCHANGED <<row, told, admin, works, shifts, disturbed>>

----------------------------------------------------------------------------
(* admin.py                                                                *)

Goto(a, step) == pc' = [pc EXCEPT ![a] = step]

\* A request is over and its locals are gone.
Done(a) ==
  /\ Goto(a, "idle")
  /\ wanted' = [wanted EXCEPT ![a] = Absent]
  /\ before' = [before EXCEPT ![a] = Absent]

\* A valid value came in; the entry is read for the way back.
Begin(a) ==
  /\ pc[a] = "idle"
  /\ changes < MaxChanges
  /\ changes' = changes + 1
  /\ \E v \in Valid : wanted' = [wanted EXCEPT ![a] = v]
  /\ before' = [before EXCEPT ![a] = row]
  /\ Goto(a, "set")
  /\ Enter
  /\ UNCHANGED <<row, probe, platform>>

Set(a) ==
  /\ pc[a] = "set"
  /\ row' = wanted[a]
  /\ Goto(a, "smoke")
  /\ UNCHANGED <<told, probe, wanted, before, changes, platform, disturbed>>

\* The smoke test passed; the change is written down.
Approve(a) ==
  /\ pc[a] = "smoke"
  /\ UNCHANGED <<row, probe, changes, platform, disturbed>>
  /\ Tell(wanted[a])
  /\ Done(a)

\* What a failed change goes back to: None, for no entry, is set as null.
WayBackOf(e) == IF e = Absent THEN Null ELSE e

WayBack(a) == WayBackOf(before[a])

\* The smoke test failed; the value read before is set again...
RollBack(a) ==
  /\ pc[a] = "smoke"
  /\ row' = WayBack(a)
  /\ Goto(a, "note")
  /\ UNCHANGED <<told, probe, wanted, before, changes, platform, disturbed>>

\* ... and written down.
NoteRollBack(a) ==
  /\ pc[a] = "note"
  /\ UNCHANGED <<row, probe, changes, platform, disturbed>>
  /\ Tell(WayBackOf(before[a]))
  /\ Done(a)

\* The admin process is killed.
Crash(a) ==
  /\ pc[a] # "idle"
  /\ Done(a)
  /\ disturbed' = TRUE
  /\ Tell(told)
  /\ UNCHANGED <<row, probe, changes, platform>>

----------------------------------------------------------------------------

\* The platform changes its pages.
Shift ==
  /\ shifts < MaxShifts
  /\ shifts' = shifts + 1
  /\ works' \in SUBSET Template
  /\ UNCHANGED <<row, told, probe, admin, noise, disturbed>>

Next ==
  \/ Ensure \/ Shift
  \/ ProbeRead \/ ProbeLook \/ ProbeCommit \/ ProbeNoVerdict
  \/ \E a \in Admin : \/ Begin(a) \/ Set(a) \/ Approve(a) \/ RollBack(a)
                      \/ NoteRollBack(a) \/ Crash(a)

Spec == Init /\ [][Next]_vars

----------------------------------------------------------------------------
(* Correctness.                                                            *)

TypeOK ==
  /\ row \in Entry /\ told \in Entry /\ snap \in Entry
  /\ works \subseteq Template
  /\ saw \in {"none", "red", "green"}
  /\ probing \in BOOLEAN /\ disturbed \in BOOLEAN
  /\ pc \in [Admin -> {"idle", "set", "smoke", "note"}]
  /\ wanted \in [Admin -> Valid \cup {Absent}]
  /\ before \in [Admin -> Entry]
  /\ changes \in 0 .. MaxChanges
  /\ shifts \in 0 .. MaxShifts
  /\ noise \in 0 .. MaxNoise

\* What get_config gives a reader: the default where there is no entry.
Offered(e) == IF e = Absent THEN DefaultEntry ELSE e

\* Whether a jump is sent to a link: none while the links are dead or there is
\* no template; null takes the request down.
DeepLink(e) ==
  Offered(e).status \notin {"dead", "null"} /\ Offered(e).tpl # NoTemplate

\* As long as the writers have taken turns, the audit trail, read from the
\* default on, tells the entry: what the last approved change, the last roll
\* back or the last flip of the probe wrote down is what the readers find,
\* template and status.
AuditTellsEntry == ~disturbed /\ ~Busy => row = told

\* Links that work are offered again, and links that do not are taken down,
\* however the operator's changes and the probe overlapped before: the probe
\* recovers from dead as it falls into it (the incident of 2026-09-15 named
\* in probe.py).  An entry of null is beyond it.
LinkFollowsPlatform ==
  /\ <>[](Offered(row).tpl \in works) => <>[]DeepLink(row)
  /\ <>[](row # Null /\ Probed(row) \notin works) => <>[]~DeepLink(row)
=============================================================================
