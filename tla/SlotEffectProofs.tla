-------------------------- MODULE SlotEffectProofs --------------------------
(***************************************************************************)
(* Proofs about the slot effect, for every set of attempts, slots and       *)
(* contents, every quote and every limit: one generation per slot, whose    *)
(* usage stays held, books that add up, one content, and rows that never    *)
(* run ahead of the object store.                                           *)
(***************************************************************************)
EXTENDS SlotEffect, RowSumsProofs

\* The leaves are first-order; one that needs arithmetic names the SMT solver.
USE Zenon

-----------------------------------------------------------------------------
(* The inductive invariant *)

IsRow(r) ==
  r = [phase |-> r.phase, from |-> r.from, budget |-> r.budget, manifest |-> r.manifest,
       final |-> r.final, owner |-> r.owner, fence |-> r.fence, live |-> r.live,
       published |-> r.published]

IsJob(j) ==
  /\ j = [at |-> j.at, slot |-> j.slot, kind |-> j.kind, quoted |-> j.quoted, seen |-> j.seen,
          verdict |-> j.verdict, bytes |-> j.bytes, manifest |-> j.manifest, fence |-> j.fence]
  /\ j.verdict \in Verdicts

\* The provider may be claimed.
Open == {"none", "provider_not_dispatched"}

\* The usage of the slot is accounted for.
Held == {"reserved", "unknown", "committed"}

\* How phase and budget of a row go together.
RowFits(r) ==
  /\ IsRow(r)
  /\ r.phase = "none" => r.budget = "none"
  /\ r.phase = "provider_not_dispatched" => r.budget = "released"
  /\ r.phase = "provider_claimed" => r.budget # "released"

\* The provider generated for this slot at most once, and its usage is held.
Generated(s, r) ==
  /\ outputs[s] \in {0, 1}
  /\ outputs[s] = 1 => r.phase \notin Open /\ r.budget \in Held

\* A slot that was blocked is never again at its dispatch.
Stays(s, r) == s \in stopped => r.phase \notin Open \cup {"provider_claimed"}

Reached(r) == IF r.phase = "recovery_blocked" THEN r.from ELSE r.phase

\* What the row says of the objects of the slot.
Evidence(s, r) ==
  /\ {r.manifest, r.final, r.published} \subseteq {None, bundle[s]}
  /\ Reached(r) = "staging_prepared" => r.manifest = bundle[s] /\ bundle[s] # None
  /\ Reached(r) \in StagedPhases => r.manifest \in staged[s]
  /\ Reached(r) = "publication_complete" => r.published \in final[s]

\* Staged and published objects have the content of the bundle.
Objects(s) ==
  /\ bundle[s] \in Content
  /\ staged[s] \cup final[s] \subseteq {bundle[s]}
  /\ None \notin staged[s] \cup final[s]

\* The steps before a content is chosen.
Early == {"read", "read_fact", "recover_bundle", "fetch", "reserve", "recover_claimed",
          "restore"}

\* The steps with a manifest that is staged, and those after its copy.
Publishing == {"claim", "reread_claim", "renew", "copy", "renew_after", "complete"}

Copied == {"renew_after", "complete"}

\* What an attempt holds at each of its steps.
Carries(j) ==
  LET s == j.slot IN
  /\ IsJob(j)
  /\ j.at # "new" => s \in Slots
  /\ j.at \in Early => j.bytes = None
  /\ j.at \in {"answer", "settle", "preserve", "preserve_fetched"} => j.bytes \in Outputs
  /\ j.at \in {"restage", "prepare"} => j.bytes = bundle[s] /\ bundle[s] # None
  /\ j.at \in {"reread_prepare", "stage", "commit_staged", "reread_staged"} =>
       j.bytes \in {None, bundle[s]}
  /\ j.at \in {"stage", "commit_staged"} => j.manifest = bundle[s] /\ bundle[s] # None
  /\ j.at = "commit_staged" => bundle[s] \in staged[s]
  /\ j.at \in Publishing => j.manifest \in staged[s]
  /\ j.at \in Copied => j.manifest \in final[s]
  /\ j.fence # 0 => j.at \in {"renew", "copy", "renew_after", "complete", "block_publication"}

\* The attempt claimed the provider, which has not generated yet.
Dispatching == {"generate", "not_dispatched"}

Dispatches(a) == job[a].at \in Dispatching

Waiting(s) == outputs[s] = 0 /\ row[s].phase \notin Open /\ row[s].budget \in Held

Tables ==
  /\ row = [s \in Slots |-> row[s]]
  /\ bundle = [s \in Slots |-> bundle[s]]
  /\ staged = [s \in Slots |-> staged[s]]
  /\ final = [s \in Slots |-> final[s]]
  /\ outputs = [s \in Slots |-> outputs[s]]
  /\ job = [a \in Attempts |-> job[a]]
  /\ books = [reserved |-> books.reserved, committed |-> books.committed]
  /\ books.reserved \in Int /\ books.committed \in Int
  /\ plan \in Plans

SlotOk(s) ==
  /\ RowFits(row[s]) /\ Generated(s, row[s]) /\ Stays(s, row[s])
  /\ Evidence(s, row[s]) /\ Objects(s)

AttemptOk(a) == Carries(job[a]) /\ (Dispatches(a) => Waiting(job[a].slot))

SlotInv ==
  /\ Tables /\ BudgetBacked
  /\ \A s \in Slots : SlotOk(s)
  /\ \A a \in Attempts : AttemptOk(a)
  /\ \A a, b \in Attempts : Dispatches(a) /\ Dispatches(b) /\ job[a].slot = job[b].slot => a = b

-----------------------------------------------------------------------------
(* Columns of attempts and rows *)

JobIs(j, at, s, by, ma, fe) ==
  /\ IsJob(j)
  /\ j.at = at /\ j.slot = s /\ j.bytes = by /\ j.manifest = ma /\ j.fence = fe

\* One column of an attempt is set.
LEMMA JobColumn ==
  ASSUME NEW j, NEW at, NEW s, NEW by, NEW ma, NEW fe, JobIs(j, at, s, by, ma, fe), NEW x
  PROVE  /\ JobIs([j EXCEPT !.at = x], x, s, by, ma, fe)
         /\ JobIs([j EXCEPT !.kind = x], at, s, by, ma, fe)
         /\ JobIs([j EXCEPT !.quoted = x], at, s, by, ma, fe)
         /\ JobIs([j EXCEPT !.seen = x], at, s, by, ma, fe)
         /\ x \in Verdicts => JobIs([j EXCEPT !.verdict = x], at, s, by, ma, fe)
         /\ JobIs([j EXCEPT !.bytes = x], at, s, x, ma, fe)
         /\ JobIs([j EXCEPT !.manifest = x], at, s, by, x, fe)
         /\ JobIs([j EXCEPT !.fence = x], at, s, by, ma, x)
<1>1. JobIs([j EXCEPT !.at = x], x, s, by, ma, fe)
  BY SMT DEF JobIs, IsJob
<1>2. JobIs([j EXCEPT !.kind = x], at, s, by, ma, fe)
  BY SMT DEF JobIs, IsJob
<1>3. JobIs([j EXCEPT !.quoted = x], at, s, by, ma, fe)
  BY SMT DEF JobIs, IsJob
<1>4. JobIs([j EXCEPT !.seen = x], at, s, by, ma, fe)
  BY SMT DEF JobIs, IsJob
<1>5. x \in Verdicts => JobIs([j EXCEPT !.verdict = x], at, s, by, ma, fe)
  BY SMT DEF JobIs, IsJob
<1>6. JobIs([j EXCEPT !.bytes = x], at, s, x, ma, fe)
  BY SMT DEF JobIs, IsJob
<1>7. JobIs([j EXCEPT !.manifest = x], at, s, by, x, fe)
  BY SMT DEF JobIs, IsJob
<1>8. JobIs([j EXCEPT !.fence = x], at, s, by, ma, x)
  BY SMT DEF JobIs, IsJob
<1> QED
  BY <1>1, <1>2, <1>3, <1>4, <1>5, <1>6, <1>7, <1>8

LEMMA NewJob ==
  ASSUME NEW step, NEW s, NEW kind
  PROVE  JobIs(Job(step, s, kind), step, s, None, None, 0)
BY SMT DEF Job, JobIs, IsJob, Verdicts

LEMMA ToJob ==
  ASSUME NEW a, IsJob(job[a]), NEW step
  PROVE  /\ step # "done" => JobIs(To(a, step), step, Slot(a), job[a].bytes, job[a].manifest, job[a].fence)
         /\ JobIs(To(a, "done"), "done", Slot(a), None, None, 0)
<1>1. JobIs(job[a], job[a].at, Slot(a), job[a].bytes, job[a].manifest, job[a].fence)
  BY DEF JobIs, Slot
<1>2. JobIs([job[a] EXCEPT !.at = step], step, Slot(a), job[a].bytes, job[a].manifest, job[a].fence)
  BY <1>1, JobColumn
<1> QED
  BY <1>2, NewJob DEF To

\* Several columns at once.
LEMMA JobColumns ==
  ASSUME NEW j, NEW at, NEW s, NEW by, NEW ma, NEW fe, JobIs(j, at, s, by, ma, fe),
         NEW x, NEW y, NEW z
  PROVE  /\ JobIs([j EXCEPT !.seen = x, !.manifest = y, !.quoted = z], at, s, by, y, fe)
         /\ JobIs([j EXCEPT !.quoted = x, !.bytes = y], at, s, y, ma, fe)
         /\ y \in Verdicts => JobIs([j EXCEPT !.bytes = x, !.verdict = y], at, s, x, ma, fe)
         /\ JobIs([j EXCEPT !.at = x, !.manifest = y], x, s, by, y, fe)
<1>1. JobIs([j EXCEPT !.seen = x, !.manifest = y, !.quoted = z], at, s, by, y, fe)
  <2> DEFINE one == [j EXCEPT !.seen = x]
             two == [one EXCEPT !.manifest = y]
  <2>1. JobIs(one, at, s, by, ma, fe)
    BY JobColumn
  <2> HIDE DEF one
  <2>2. JobIs(two, at, s, by, y, fe)
    BY <2>1, JobColumn
  <2> HIDE DEF two
  <2>3. JobIs([two EXCEPT !.quoted = z], at, s, by, y, fe)
    BY <2>2, JobColumn
  <2>4. QED
    BY <2>3 DEF one, two
<1>2. JobIs([j EXCEPT !.quoted = x, !.bytes = y], at, s, y, ma, fe)
  <2> DEFINE one == [j EXCEPT !.quoted = x]
  <2>1. JobIs(one, at, s, by, ma, fe)
    BY JobColumn
  <2> HIDE DEF one
  <2>2. JobIs([one EXCEPT !.bytes = y], at, s, y, ma, fe)
    BY <2>1, JobColumn
  <2>3. QED
    BY <2>2 DEF one
<1>3. ASSUME y \in Verdicts
      PROVE  JobIs([j EXCEPT !.bytes = x, !.verdict = y], at, s, x, ma, fe)
  <2> DEFINE one == [j EXCEPT !.bytes = x]
  <2>1. JobIs(one, at, s, x, ma, fe)
    BY JobColumn
  <2> HIDE DEF one
  <2>2. JobIs([one EXCEPT !.verdict = y], at, s, x, ma, fe)
    BY <1>3, <2>1, JobColumn
  <2>3. QED
    BY <2>2 DEF one
<1>4. JobIs([j EXCEPT !.at = x, !.manifest = y], x, s, by, y, fe)
  <2> DEFINE one == [j EXCEPT !.at = x]
  <2>1. JobIs(one, x, s, by, ma, fe)
    BY JobColumn
  <2> HIDE DEF one
  <2>2. JobIs([one EXCEPT !.manifest = y], x, s, by, y, fe)
    BY <2>1, JobColumn
  <2>3. QED
    BY <2>2 DEF one
<1> QED
  BY <1>1, <1>2, <1>3, <1>4

RowIs(r, ph, fr, bu, ma, fi, pu) ==
  /\ IsRow(r)
  /\ r.phase = ph /\ r.from = fr /\ r.budget = bu
  /\ r.manifest = ma /\ r.final = fi /\ r.published = pu

\* One column of a row is set.
LEMMA RowColumn ==
  ASSUME NEW r, NEW ph, NEW fr, NEW bu, NEW ma, NEW fi, NEW pu, RowIs(r, ph, fr, bu, ma, fi, pu),
         NEW x
  PROVE  /\ RowIs([r EXCEPT !.phase = x], x, fr, bu, ma, fi, pu)
         /\ RowIs([r EXCEPT !.from = x], ph, x, bu, ma, fi, pu)
         /\ RowIs([r EXCEPT !.budget = x], ph, fr, x, ma, fi, pu)
         /\ RowIs([r EXCEPT !.manifest = x], ph, fr, bu, x, fi, pu)
         /\ RowIs([r EXCEPT !.final = x], ph, fr, bu, ma, x, pu)
         /\ RowIs([r EXCEPT !.owner = x], ph, fr, bu, ma, fi, pu)
         /\ RowIs([r EXCEPT !.fence = x], ph, fr, bu, ma, fi, pu)
         /\ RowIs([r EXCEPT !.live = x], ph, fr, bu, ma, fi, pu)
         /\ RowIs([r EXCEPT !.published = x], ph, fr, bu, ma, fi, x)
<1>1. RowIs([r EXCEPT !.phase = x], x, fr, bu, ma, fi, pu)
  BY SMT DEF RowIs, IsRow
<1>2. RowIs([r EXCEPT !.from = x], ph, x, bu, ma, fi, pu)
  BY SMT DEF RowIs, IsRow
<1>3. RowIs([r EXCEPT !.budget = x], ph, fr, x, ma, fi, pu)
  BY SMT DEF RowIs, IsRow
<1>4. RowIs([r EXCEPT !.manifest = x], ph, fr, bu, x, fi, pu)
  BY SMT DEF RowIs, IsRow
<1>5. RowIs([r EXCEPT !.final = x], ph, fr, bu, ma, x, pu)
  BY SMT DEF RowIs, IsRow
<1>6. RowIs([r EXCEPT !.owner = x], ph, fr, bu, ma, fi, pu)
  BY SMT DEF RowIs, IsRow
<1>7. RowIs([r EXCEPT !.fence = x], ph, fr, bu, ma, fi, pu)
  BY SMT DEF RowIs, IsRow
<1>8. RowIs([r EXCEPT !.live = x], ph, fr, bu, ma, fi, pu)
  BY SMT DEF RowIs, IsRow
<1>9. RowIs([r EXCEPT !.published = x], ph, fr, bu, ma, fi, x)
  BY SMT DEF RowIs, IsRow
<1> QED
  BY <1>1, <1>2, <1>3, <1>4, <1>5, <1>6, <1>7, <1>8, <1>9

\* Several columns at once.
LEMMA RowColumns ==
  ASSUME NEW r, NEW ph, NEW fr, NEW bu, NEW ma, NEW fi, NEW pu, RowIs(r, ph, fr, bu, ma, fi, pu),
         NEW x, NEW y, NEW z
  PROVE  /\ RowIs([r EXCEPT !.phase = x, !.budget = y], x, fr, y, ma, fi, pu)
         /\ RowIs([r EXCEPT !.phase = x, !.manifest = y], x, fr, bu, y, fi, pu)
         /\ RowIs([r EXCEPT !.phase = x, !.published = y], x, fr, bu, ma, fi, y)
         /\ RowIs([r EXCEPT !.phase = x, !.from = y], x, y, bu, ma, fi, pu)
         /\ RowIs([r EXCEPT !.phase = x, !.manifest = y, !.budget = z], x, fr, z, y, fi, pu)
<1>1. RowIs([r EXCEPT !.phase = x, !.budget = y], x, fr, y, ma, fi, pu)
  <2> DEFINE one == [r EXCEPT !.phase = x]
  <2>1. RowIs(one, x, fr, bu, ma, fi, pu)
    BY RowColumn
  <2> HIDE DEF one
  <2>2. RowIs([one EXCEPT !.budget = y], x, fr, y, ma, fi, pu)
    BY <2>1, RowColumn
  <2>3. QED
    BY <2>2 DEF one
<1>2. RowIs([r EXCEPT !.phase = x, !.manifest = y], x, fr, bu, y, fi, pu)
  <2> DEFINE one == [r EXCEPT !.phase = x]
  <2>1. RowIs(one, x, fr, bu, ma, fi, pu)
    BY RowColumn
  <2> HIDE DEF one
  <2>2. RowIs([one EXCEPT !.manifest = y], x, fr, bu, y, fi, pu)
    BY <2>1, RowColumn
  <2>3. QED
    BY <2>2 DEF one
<1>3. RowIs([r EXCEPT !.phase = x, !.published = y], x, fr, bu, ma, fi, y)
  <2> DEFINE one == [r EXCEPT !.phase = x]
  <2>1. RowIs(one, x, fr, bu, ma, fi, pu)
    BY RowColumn
  <2> HIDE DEF one
  <2>2. RowIs([one EXCEPT !.published = y], x, fr, bu, ma, fi, y)
    BY <2>1, RowColumn
  <2>3. QED
    BY <2>2 DEF one
<1>4. RowIs([r EXCEPT !.phase = x, !.from = y], x, y, bu, ma, fi, pu)
  <2> DEFINE one == [r EXCEPT !.phase = x]
  <2>1. RowIs(one, x, fr, bu, ma, fi, pu)
    BY RowColumn
  <2> HIDE DEF one
  <2>2. RowIs([one EXCEPT !.from = y], x, y, bu, ma, fi, pu)
    BY <2>1, RowColumn
  <2>3. QED
    BY <2>2 DEF one
<1>5. RowIs([r EXCEPT !.phase = x, !.manifest = y, !.budget = z], x, fr, z, y, fi, pu)
  <2> DEFINE one == [r EXCEPT !.phase = x]
             two == [one EXCEPT !.manifest = y]
  <2>1. RowIs(one, x, fr, bu, ma, fi, pu)
    BY RowColumn
  <2> HIDE DEF one
  <2>2. RowIs(two, x, fr, bu, y, fi, pu)
    BY <2>1, RowColumn
  <2> HIDE DEF two
  <2>3. RowIs([two EXCEPT !.budget = z], x, fr, z, y, fi, pu)
    BY <2>2, RowColumn
  <2>4. QED
    BY <2>3 DEF one, two
<1> QED
  BY <1>1, <1>2, <1>3, <1>4, <1>5

\* The columns of a publication claim.
LEMMA ClaimColumns ==
  ASSUME NEW r, NEW ph, NEW fr, NEW bu, NEW ma, NEW fi, NEW pu, RowIs(r, ph, fr, bu, ma, fi, pu),
         NEW x, NEW y, NEW z, NEW u, NEW v
  PROVE  RowIs([r EXCEPT !.phase = x, !.owner = y, !.fence = z, !.live = u, !.final = v], x, fr, bu, ma, v, pu)
<1> DEFINE one == [r EXCEPT !.phase = x]
           two == [one EXCEPT !.owner = y]
           three == [two EXCEPT !.fence = z]
           four == [three EXCEPT !.live = u]
<1>1. RowIs(one, x, fr, bu, ma, fi, pu)
  BY RowColumn
<1> HIDE DEF one
<1>2. RowIs(two, x, fr, bu, ma, fi, pu)
  BY <1>1, RowColumn
<1> HIDE DEF two
<1>3. RowIs(three, x, fr, bu, ma, fi, pu)
  BY <1>2, RowColumn
<1> HIDE DEF three
<1>4. RowIs(four, x, fr, bu, ma, fi, pu)
  BY <1>3, RowColumn
<1> HIDE DEF four
<1>5. RowIs([four EXCEPT !.final = v], x, fr, bu, ma, v, pu)
  BY <1>4, RowColumn
<1> QED
  BY <1>5 DEF one, two, three, four

-----------------------------------------------------------------------------
(* What a step may leave to the others *)

\* Objects are added and never replaced.
Grows ==
  \A s \in Slots :
    /\ bundle[s] # None => bundle'[s] = bundle[s]
    /\ staged[s] \subseteq staged'[s]
    /\ final[s] \subseteq final'[s]

\* Nothing happens to other slots.
Elsewhere(s) ==
  /\ \A t \in Slots \ {s} :
       /\ row'[t] = row[t] /\ bundle'[t] = bundle[t] /\ staged'[t] = staged[t]
       /\ final'[t] = final[t] /\ outputs'[t] = outputs[t]
  /\ stopped' \subseteq stopped \cup {s}

\* An attempt keeps what it carries while objects are added.
LEMMA CarriesOn ==
  ASSUME NEW j, Carries(j), Grows
  PROVE  Carries(j)'
<1>1. CASE j.at = "new"
  BY <1>1 DEF Carries, Early, Publishing, Copied
<1>2. CASE j.at # "new"
  <2>1. j.slot \in Slots
    BY <1>2 DEF Carries
  <2>2. /\ bundle[j.slot] # None => bundle'[j.slot] = bundle[j.slot]
        /\ staged[j.slot] \subseteq staged'[j.slot]
        /\ final[j.slot] \subseteq final'[j.slot]
    BY <2>1 DEF Grows
  <2>3. QED
    BY <2>1, <2>2 DEF Carries
<1> QED
  BY <1>1, <1>2

LEMMA OthersKeep ==
  ASSUME NEW s \in Slots, Elsewhere(s), NEW t \in Slots, t # s, SlotOk(t)
  PROVE  SlotOk(t)'
<1>1. /\ row'[t] = row[t] /\ bundle'[t] = bundle[t] /\ staged'[t] = staged[t]
      /\ final'[t] = final[t] /\ outputs'[t] = outputs[t] /\ (t \in stopped' => t \in stopped)
  BY DEF Elsewhere
<1>2. RowFits(row[t])'
  <2>1. RowFits(row[t]) /\ row'[t] = row[t]
    BY <1>1 DEF SlotOk
  <2>2. QED
    BY <2>1, SMT DEF RowFits, IsRow
<1>3. Generated(t, row[t])' /\ Stays(t, row[t])'
  BY <1>1 DEF SlotOk, Generated, Stays
<1>4. Evidence(t, row[t])'
  BY <1>1 DEF SlotOk, Evidence, Reached
<1>5. Objects(t)'
  BY <1>1 DEF SlotOk, Objects
<1> QED
  BY <1>2, <1>3, <1>4, <1>5 DEF SlotOk

\* A step of attempt a on its slot.
LEMMA StepKeeps ==
  ASSUME SlotInv, NEW a \in Attempts, NEW s \in Slots, Elsewhere(s), Grows,
         Tables', BudgetBacked', SlotOk(s)',
         \A b \in Attempts \ {a} : job'[b] = job[b],
         job'[a].slot = s, Carries(job[a])',
         Dispatches(a)' => Waiting(s)' /\ \A b \in Attempts \ {a} : ~(Dispatches(b) /\ job[b].slot = s),
         \A b \in Attempts \ {a} : Dispatches(b) /\ job[b].slot = s => Waiting(s)'
  PROVE  SlotInv'
<1>1. \A t \in Slots : SlotOk(t)'
  BY OthersKeep DEF SlotInv
<1>2. AttemptOk(a)'
  BY DEF AttemptOk
<1>3. ASSUME NEW b \in Attempts, b # a
      PROVE  AttemptOk(b)'
  <2>1. job'[b] = job[b] /\ Carries(job[b]) /\ (Dispatches(b) => Waiting(job[b].slot))
    BY <1>3 DEF SlotInv, AttemptOk
  <2>2. Carries(job[b])'
    <3>1. PICK j : j = job[b]
      OBVIOUS
    <3>2. Carries(j)'
      BY <2>1, <3>1, CarriesOn
    <3>3. QED
      BY <2>1, <3>1, <3>2, ZenonT(40) DEF Carries
  <2>3. ASSUME Dispatches(b)' PROVE Waiting(job[b].slot)'
    <3>1. Dispatches(b) /\ Waiting(job[b].slot)
      BY <2>1, <2>3 DEF Dispatches
    <3>2. job[b].slot \in Slots
      BY <2>1, <3>1 DEF Carries, Dispatches, Dispatching
    <3>3. CASE job[b].slot = s
      BY <1>3, <3>1, <3>3
    <3>4. CASE job[b].slot # s
      <4>1. job'[b].slot = job[b].slot /\ job[b].slot \in Slots \ {s}
        BY <2>1, <3>2, <3>4
      <4>2. row'[job[b].slot] = row[job[b].slot] /\ outputs'[job[b].slot] = outputs[job[b].slot]
        BY <4>1 DEF Elsewhere
      <4>3. QED
        BY <3>1, <4>1, <4>2 DEF Waiting
    <3>5. QED
      BY <3>3, <3>4
  <2>4. QED
    BY <2>1, <2>2, <2>3 DEF AttemptOk
<1>4. ASSUME NEW b \in Attempts, NEW c \in Attempts,
             Dispatches(b)', Dispatches(c)', job'[b].slot = job'[c].slot
      PROVE  b = c
  <2>1. CASE b # a /\ c # a
    BY <1>4, <2>1 DEF SlotInv, Dispatches
  <2>2. CASE b = a \/ c = a
    BY <1>4, <2>2 DEF Dispatches
  <2>3. QED
    BY <2>1, <2>2
<1> QED
  BY <1>1, <1>2, <1>3, <1>4 DEF SlotInv

-----------------------------------------------------------------------------
(* Steps of an attempt that leave the rows, and steps that change its row *)

\* What an attempt may go on with.
Fine(a, j) == Carries(j) /\ j.slot = Slot(a) /\ j.at \notin Dispatching

LEMMA BecomesJob ==
  ASSUME Tables, NEW a \in Attempts, NEW j, Become(a, j)
  PROVE  /\ job' = [b \in Attempts |-> job'[b]]
         /\ job'[a] = j
         /\ \A b \in Attempts \ {a} : job'[b] = job[b]
<1>1. job = [b \in Attempts |-> job[b]]
  BY DEF Tables
<1> QED
  BY <1>1 DEF Become

LEMMA JobOnly ==
  ASSUME SlotInv, NEW a \in Attempts, NEW j, Become(a, j),
         Carries(j), j.slot \in Slots,
         j.at \in Dispatching => Dispatches(a) /\ j.slot = job[a].slot,
         UNCHANGED <<plan, row, books, store, outputs, stopped>>
  PROVE  SlotInv'
<1>1. /\ job' = [b \in Attempts |-> job'[b]] /\ job'[a] = j
      /\ \A b \in Attempts \ {a} : job'[b] = job[b]
  BY BecomesJob DEF SlotInv
<1>2. Tables'
  BY <1>1 DEF SlotInv, Tables, store
<1>3. BudgetBacked'
  BY DEF SlotInv, BudgetBacked
<1>4. Grows /\ Elsewhere(j.slot)
  BY DEF Grows, Elsewhere, store
<1>5. Carries(job[a])'
  <2>1. Carries(j)'
    BY <1>4, CarriesOn
  <2>2. QED
    BY <1>1, <2>1 DEF Carries
<1>6. SlotOk(j.slot)'
  <2>1. SlotOk(j.slot)
    BY DEF SlotInv
  <2>2. QED
    BY <2>1 DEF SlotOk, RowFits, IsRow, Generated, Stays, Evidence, Reached, Objects, store
<1>7. ASSUME NEW b \in Attempts, Dispatches(b), job[b].slot = j.slot
      PROVE  Waiting(j.slot)'
  <2>1. Waiting(j.slot)
    BY <1>7 DEF SlotInv, AttemptOk
  <2>2. QED
    BY <2>1 DEF Waiting
<1>8. Dispatches(a)' => Dispatches(a) /\ j.slot = job[a].slot
  BY <1>1 DEF Dispatches
<1>9. Dispatches(a) /\ j.slot = job[a].slot =>
        \A b \in Attempts \ {a} : ~(Dispatches(b) /\ job[b].slot = j.slot)
  BY DEF SlotInv
<1> QED
  BY <1>1, <1>2, <1>3, <1>4, <1>5, <1>6, <1>7, <1>8, <1>9, StepKeeps

\* The step does not take the attempt to the provider, or the slot was never blocked.
Quiet(a) == job'[a].at = "generate" => job[a].at = "generate" \/ Slot(a) \notin stopped

LEMMA FineQuiet ==
  ASSUME SlotInv, NEW a \in Attempts, NEW j, Become(a, j), j.at \notin Dispatching
  PROVE  Quiet(a)
<1>1. job'[a] = j
  BY BecomesJob DEF SlotInv
<1> QED
  BY <1>1 DEF Quiet, Dispatching

\* The usage that a slot's row holds.
Owes(s, r) == IF r.budget \in {"reserved", "unknown"} THEN Quote[s] ELSE 0

\* The books move with the row and stay within the limit.
Booked(s, r, bk) ==
  /\ bk = [reserved |-> bk.reserved, committed |-> bk.committed]
  /\ bk.committed \in Int
  /\ bk.reserved = books.reserved - Owes(s, row[s]) + Owes(s, r)
  /\ bk.reserved + bk.committed <= Limit

LEMMA BooksMove ==
  ASSUME SlotInv, NEW s \in Slots, NEW r, NEW bk, Booked(s, r, bk),
         row' = [row EXCEPT ![s] = r], books' = bk
  PROVE  BudgetBacked' /\ books'.reserved \in Int
<1> DEFINE was == {t \in Slots : row[t].budget \in {"reserved", "unknown"}}
           now == {t \in Slots : row'[t].budget \in {"reserved", "unknown"}}
<1>1. row = [t \in Slots |-> row[t]] /\ books.reserved \in Int
  BY DEF SlotInv, Tables
<1>2. row'[s] = r /\ \A t \in Slots \ {s} : row'[t] = row[t]
  BY <1>1
<1>3. books.reserved = SumOf(Quote, was)
  BY DEF SlotInv, BudgetBacked
<1>4. IsFiniteSet(was) /\ was \subseteq Slots /\ \A t \in Slots : Quote[t] \in Int
  BY QuoteAssumption, FS_Subset, SMT
<1>5. /\ books'.reserved = books.reserved - Owes(s, row[s]) + Owes(s, r)
      /\ books'.reserved + books'.committed <= Limit
  BY DEF Booked
<1>6. books'.reserved = SumOf(Quote, now)
  <2>1. CASE s \in was /\ s \in now
    <3>1. now = was
      BY <1>2, <2>1
    <3>2. Owes(s, row[s]) = Quote[s] /\ Owes(s, r) = Quote[s]
      BY <1>2, <2>1 DEF Owes
    <3> HIDE DEF was, now
    <3>3. QED
      BY <1>1, <1>3, <1>4, <1>5, <3>1, <3>2, SMT
  <2>2. CASE s \in was /\ s \notin now
    <3>1. now = was \ {s}
      BY <1>2, <2>2
    <3>2. Owes(s, row[s]) = Quote[s] /\ Owes(s, r) = 0
      BY <1>2, <2>2 DEF Owes
    <3>3. s \in was /\ \A t \in was : Quote[t] \in Int
      BY <1>4, <2>2
    <3> HIDE DEF was, now
    <3>4. SumOf(Quote, was) = Quote[s] + SumOf(Quote, was \ {s})
      BY <1>4, <3>3, SumRemove, SMT
    <3>5. SumOf(Quote, was \ {s}) \in Int
      BY <1>4, FS_RemoveElement, SumInt
    <3>6. QED
      BY <1>1, <1>3, <1>4, <1>5, <3>1, <3>2, <3>4, <3>5, SMT
  <2>3. CASE s \notin was /\ s \in now
    <3>1. now = was \cup {s}
      BY <1>2, <2>3
    <3>2. Owes(s, row[s]) = 0 /\ Owes(s, r) = Quote[s]
      BY <1>2, <2>3 DEF Owes
    <3>3. s \notin was /\ \A t \in was \cup {s} : Quote[t] \in Int
      BY <1>4, <2>3
    <3> HIDE DEF was, now
    <3>4. SumOf(Quote, was \cup {s}) = SumOf(Quote, was) + Quote[s]
      BY <1>4, <3>3, SumAdd
    <3>5. QED
      BY <1>1, <1>3, <1>4, <1>5, <3>1, <3>2, <3>4, SMT
  <2>4. CASE s \notin was /\ s \notin now
    <3>1. now = was
      BY <1>2, <2>4
    <3>2. Owes(s, row[s]) = 0 /\ Owes(s, r) = 0
      BY <1>2, <2>4 DEF Owes
    <3> HIDE DEF was, now
    <3>3. QED
      BY <1>1, <1>3, <1>5, <3>1, <3>2, SMT
  <2>5. QED
    BY <2>1, <2>2, <2>3, <2>4
<1>7. books'.reserved \in Int
  <2>1. Owes(s, row[s]) \in Int /\ Owes(s, r) \in Int
    BY <1>4, SMT DEF Owes
  <2>2. QED
    BY <1>1, <1>5, <2>1, SMT
<1> QED
  BY <1>5, <1>6, <1>7 DEF BudgetBacked

\* A row that may replace the row of slot s.
RowHolds(s, r) == RowFits(r) /\ Generated(s, r) /\ Evidence(s, r)

\* Row and books of the attempt's slot change with it.  Other attempts that
\* dispatch for the slot keep what they wait for; the attempt may itself be
\* granted the dispatch.
LEMMA RowMoves ==
  ASSUME SlotInv, NEW a \in Attempts, Slot(a) \in Slots,
         NEW r, RowHolds(Slot(a), r), NEW bk, Booked(Slot(a), r, bk),
         row' = [row EXCEPT ![Slot(a)] = r], books' = bk,
         NEW j, Become(a, j), Carries(j), j.slot = Slot(a),
         UNCHANGED <<plan, store, outputs>>,
         stopped' \subseteq stopped \cup {Slot(a)},
         Slot(a) \in stopped' => r.phase \notin Open \cup {"provider_claimed"},
         \A b \in Attempts \ {a} : Dispatches(b) /\ job[b].slot = Slot(a) =>
           r.phase \notin Open /\ r.budget \in Held,
         j.at \in Dispatching =>
           /\ outputs[Slot(a)] = 0 /\ r.phase \notin Open /\ r.budget \in Held
           /\ \A b \in Attempts \ {a} : ~(Dispatches(b) /\ job[b].slot = Slot(a))
  PROVE  SlotInv'
<1>s. PICK s \in Slots : s = Slot(a)
  OBVIOUS
<1>1. /\ job' = [b \in Attempts |-> job'[b]] /\ job'[a] = j
      /\ \A b \in Attempts \ {a} : job'[b] = job[b]
  BY BecomesJob DEF SlotInv
<1>2. BudgetBacked' /\ books'.reserved \in Int
  BY <1>s, BooksMove
<1>3. /\ row' = [t \in Slots |-> row'[t]] /\ row'[s] = r
      /\ \A t \in Slots \ {s} : row'[t] = row[t]
  <2>1. row = [t \in Slots |-> row[t]]
    BY DEF SlotInv, Tables
  <2>2. QED
    BY <1>s, <2>1
<1>4. Tables'
  <2>1. /\ books' = [reserved |-> books'.reserved, committed |-> books'.committed]
        /\ books'.committed \in Int
    BY DEF Booked
  <2>2. QED
    BY <1>1, <1>2, <1>3, <2>1 DEF SlotInv, Tables, store
<1>5. Grows /\ Elsewhere(s)
  BY <1>s, <1>3 DEF Grows, Elsewhere, store
<1>6. Carries(job[a])'
  <2>1. Carries(j)'
    BY <1>5, CarriesOn
  <2>2. QED
    BY <1>1, <2>1 DEF Carries
<1>7. SlotOk(s)'
  <2>1. RowFits(row[s])'
    <3>1. RowFits(r) /\ row'[s] = r
      BY <1>3 DEF RowHolds
    <3>2. QED
      BY <3>1, SMT DEF RowFits, IsRow
  <2>2. Generated(s, row[s])'
    BY <1>s, <1>3 DEF RowHolds, Generated
  <2>3. Stays(s, row[s])'
    BY <1>s, <1>3 DEF Stays
  <2>4. Evidence(s, row[s])'
    BY <1>s, <1>3 DEF RowHolds, Evidence, Reached, store
  <2>5. Objects(s)'
    BY DEF SlotInv, SlotOk, Objects, store
  <2>6. QED
    BY <2>1, <2>2, <2>3, <2>4, <2>5 DEF SlotOk
<1>8. ASSUME NEW b \in Attempts \ {a}, Dispatches(b), job[b].slot = s
      PROVE  Waiting(s)'
  <2>1. outputs[s] = 0
    BY <1>8 DEF SlotInv, AttemptOk, Waiting
  <2>2. QED
    BY <1>s, <1>3, <1>8, <2>1 DEF Waiting
<1>9. Dispatches(a)' => Waiting(s)' /\ \A b \in Attempts \ {a} : ~(Dispatches(b) /\ job[b].slot = s)
  <2>1. Dispatches(a)' => j.at \in Dispatching
    BY <1>1 DEF Dispatches
  <2>2. QED
    BY <1>s, <1>3, <2>1 DEF Waiting
<1> QED
  BY <1>s, <1>1, <1>2, <1>4, <1>5, <1>6, <1>7, <1>8, <1>9, StepKeeps

\* The row moves on and gives nothing back.
Follows(s, r) ==
  /\ RowFits(r) /\ Evidence(s, r) /\ Stays(s, r)
  /\ row[s].phase \notin Open => r.phase \notin Open
  /\ row[s].budget \in Held => r.budget \in Held

LEMMA RowFollows ==
  ASSUME SlotInv, NEW a \in Attempts, Slot(a) \in Slots,
         NEW r, Follows(Slot(a), r), NEW bk, Booked(Slot(a), r, bk),
         row' = [row EXCEPT ![Slot(a)] = r], books' = bk,
         NEW j, Become(a, j), Fine(a, j),
         UNCHANGED <<plan, store, outputs>>,
         stopped' \subseteq stopped \cup {Slot(a)},
         Slot(a) \in stopped' => r.phase \notin Open \cup {"provider_claimed"}
  PROVE  SlotInv' /\ Quiet(a)
<1>1. Generated(Slot(a), row[Slot(a)])
  BY DEF SlotInv, SlotOk
<1>2. RowHolds(Slot(a), r)
  BY <1>1 DEF RowHolds, Follows, Generated
<1>3. ASSUME NEW b \in Attempts \ {a}, Dispatches(b), job[b].slot = Slot(a)
      PROVE  r.phase \notin Open /\ r.budget \in Held
  BY <1>3 DEF SlotInv, AttemptOk, Waiting, Follows
<1>4. Carries(j) /\ j.slot = Slot(a) /\ j.at \notin Dispatching
  BY DEF Fine
<1> QED
  BY <1>2, <1>3, <1>4, RowMoves, FineQuiet

\* A transaction that commits, with or without an answer, and one that fails.
Commits(a, r, bk, then, failed) ==
  /\ row' = [row EXCEPT ![Slot(a)] = r]
  /\ books' = bk
  /\ Become(a, then) \/ Become(a, failed)

Fails(a, failed) == UNCHANGED <<row, books>> /\ Become(a, failed)

LEMMA TransactKeeps ==
  ASSUME SlotInv, NEW a \in Attempts, Slot(a) \in Slots,
         NEW r, NEW bk, NEW then, NEW failed,
         \/ /\ Commits(a, r, bk, then, failed)
            /\ Follows(Slot(a), r) /\ Booked(Slot(a), r, bk) /\ Fine(a, then)
         \/ Fails(a, failed),
         Fine(a, failed),
         UNCHANGED <<plan, store, history>>
  PROVE  SlotInv' /\ Quiet(a)
<1>1. CASE /\ Commits(a, r, bk, then, failed)
           /\ Follows(Slot(a), r) /\ Booked(Slot(a), r, bk) /\ Fine(a, then)
  <2>1. row' = [row EXCEPT ![Slot(a)] = r] /\ books' = bk
    BY <1>1 DEF Commits
  <2>2. Slot(a) \in stopped' => r.phase \notin Open \cup {"provider_claimed"}
    BY <1>1 DEF Follows, Stays, history
  <2>3. UNCHANGED <<plan, store, outputs>> /\ stopped' \subseteq stopped \cup {Slot(a)}
    BY DEF history
  <2>4. PICK j : Become(a, j) /\ Fine(a, j)
    BY <1>1 DEF Commits
  <2>5. QED
    BY <1>1, <2>1, <2>2, <2>3, <2>4, RowFollows
<1>2. CASE Fails(a, failed)
  <2>1. Carries(failed) /\ failed.slot \in Slots /\ failed.at \notin Dispatching
    BY DEF Fine
  <2>2. UNCHANGED <<plan, row, books, store, outputs, stopped>> /\ Become(a, failed)
    BY <1>2 DEF Fails, history
  <2>3. QED
    BY <2>1, <2>2, JobOnly, FineQuiet
<1> QED
  BY <1>1, <1>2

-----------------------------------------------------------------------------
(* Where an attempt goes on *)

\* What Carries asks of the columns of an attempt.
Suits(at, s, by, ma, fe) ==
  /\ at \in Early => by = None
  /\ at \in {"answer", "settle", "preserve", "preserve_fetched"} => by \in Outputs
  /\ at \in {"restage", "prepare"} => by = bundle[s] /\ bundle[s] # None
  /\ at \in {"reread_prepare", "stage", "commit_staged", "reread_staged"} => by \in {None, bundle[s]}
  /\ at \in {"stage", "commit_staged"} => ma = bundle[s] /\ bundle[s] # None
  /\ at = "commit_staged" => bundle[s] \in staged[s]
  /\ at \in Publishing => ma \in staged[s]
  /\ at \in Copied => ma \in final[s]
  /\ fe # 0 => at \in {"renew", "copy", "renew_after", "complete", "block_publication"}

LEMMA FineJob ==
  ASSUME NEW a, Slot(a) \in Slots, NEW j, NEW at, NEW by, NEW ma, NEW fe,
         JobIs(j, at, Slot(a), by, ma, fe), Suits(at, Slot(a), by, ma, fe),
         at \notin Dispatching
  PROVE  Fine(a, j)
<1>1. IsJob(j) /\ j.at = at /\ j.slot = Slot(a) /\ j.bytes = by /\ j.manifest = ma /\ j.fence = fe
  BY DEF JobIs
<1>2. Carries(j)
  BY <1>1 DEF Suits, Carries
<1> QED
  BY <1>1, <1>2 DEF Fine

\* An attempt that was started.
LEMMA Working ==
  ASSUME SlotInv, NEW a \in Attempts, job[a].at # "new"
  PROVE  /\ IsJob(job[a]) /\ Slot(a) \in Slots /\ SlotOk(Slot(a))
         /\ Suits(job[a].at, Slot(a), job[a].bytes, job[a].manifest, job[a].fence)
<1>1. Carries(job[a])
  BY DEF SlotInv, AttemptOk
<1>2. IsJob(job[a]) /\ Slot(a) \in Slots
  BY <1>1 DEF Carries, Slot
<1>3. SlotOk(Slot(a))
  BY <1>2 DEF SlotInv
<1>4. Suits(job[a].at, Slot(a), job[a].bytes, job[a].manifest, job[a].fence)
  BY <1>1 DEF Carries, Suits, Slot
<1> QED
  BY <1>2, <1>3, <1>4

\* Steps that need nothing.
Plain == {"mark_unknown", "block_provider", "block_staging", "block_review", "block_recovery",
          "missing"}

LEMMA FineTo ==
  ASSUME NEW a, IsJob(job[a]), Slot(a) \in Slots
  PROVE  /\ Fine(a, To(a, "done"))
         /\ job[a].fence = 0 => \A step \in Plain : Fine(a, To(a, step))
         /\ Fine(a, To(a, "block_publication"))
         /\ job[a].fence = 0 /\ job[a].bytes = None =>
              \A step \in Early : Fine(a, To(a, step))
<1>1. Fine(a, To(a, "done"))
  <2>1. JobIs(To(a, "done"), "done", Slot(a), None, None, 0)
    BY ToJob
  <2>2. Suits("done", Slot(a), None, None, 0) /\ "done" \notin Dispatching
    BY DEF Suits, Early, Publishing, Copied, Dispatching
  <2>3. QED
    BY <2>1, <2>2, FineJob
<1>2. ASSUME job[a].fence = 0, NEW step \in Plain
      PROVE  Fine(a, To(a, step))
  <2>1. JobIs(To(a, step), step, Slot(a), job[a].bytes, job[a].manifest, job[a].fence)
    BY <1>2, ToJob DEF Plain
  <2>2. Suits(step, Slot(a), job[a].bytes, job[a].manifest, job[a].fence) /\ step \notin Dispatching
    BY <1>2 DEF Suits, Early, Publishing, Copied, Dispatching, Plain
  <2>3. QED
    BY <2>1, <2>2, FineJob
<1>3. Fine(a, To(a, "block_publication"))
  <2>1. JobIs(To(a, "block_publication"), "block_publication", Slot(a), job[a].bytes, job[a].manifest,
              job[a].fence)
    BY ToJob
  <2>2. /\ Suits("block_publication", Slot(a), job[a].bytes, job[a].manifest, job[a].fence)
        /\ "block_publication" \notin Dispatching
    BY DEF Suits, Early, Publishing, Copied, Dispatching
  <2>3. QED
    BY <2>1, <2>2, FineJob
<1>4. ASSUME job[a].fence = 0, job[a].bytes = None, NEW step \in Early
      PROVE  Fine(a, To(a, step))
  <2>1. JobIs(To(a, step), step, Slot(a), job[a].bytes, job[a].manifest, job[a].fence)
    BY ToJob DEF Early
  <2>2. Suits(step, Slot(a), job[a].bytes, job[a].manifest, job[a].fence) /\ step \notin Dispatching
    BY <1>4 DEF Suits, Early, Publishing, Copied, Dispatching
  <2>3. QED
    BY <2>1, <2>2, FineJob
<1> QED
  BY <1>1, <1>2, <1>3, <1>4

\* ExecuteSlotV3 goes on with a row whose objects are there.
LEMMA FineContinue ==
  ASSUME NEW a, IsJob(job[a]), Slot(a) \in Slots, job[a].fence = 0,
         job[a].bytes \in {None, bundle[Slot(a)]}, NEW r, Evidence(Slot(a), r)
  PROVE  Fine(a, Continue(a, r))
<1>1. CASE StepOf(r.phase) = "done"
  BY <1>1, FineTo DEF Continue
<1>2. CASE StepOf(r.phase) # "done"
  <2> DEFINE j == [job[a] EXCEPT !.at = StepOf(r.phase), !.manifest = r.manifest]
  <2>1. JobIs(job[a], job[a].at, Slot(a), job[a].bytes, job[a].manifest, job[a].fence)
    BY DEF JobIs, Slot
  <2>2. JobIs(j, StepOf(r.phase), Slot(a), job[a].bytes, r.manifest, job[a].fence)
    BY <2>1, JobColumns
  <2>3. \/ r.phase = "staging_prepared" /\ StepOf(r.phase) = "stage"
        \/ r.phase \in {"artifact_staged", "publication_claimed"} /\ StepOf(r.phase) = "claim"
    BY <1>2 DEF StepOf
  <2>4. /\ r.phase = "staging_prepared" => r.manifest = bundle[Slot(a)] /\ bundle[Slot(a)] # None
        /\ r.phase \in {"artifact_staged", "publication_claimed"} => r.manifest \in staged[Slot(a)]
    BY DEF Evidence, Reached, StagedPhases
  <2>5. /\ Suits(StepOf(r.phase), Slot(a), job[a].bytes, r.manifest, job[a].fence)
        /\ StepOf(r.phase) \notin Dispatching
    BY <2>3, <2>4 DEF Suits, Early, Publishing, Copied, Dispatching
  <2> HIDE DEF j
  <2>6. Fine(a, j)
    BY <2>2, <2>5, FineJob
  <2>7. QED
    BY <1>2, <2>6 DEF Continue, j
<1> QED
  BY <1>1, <1>2

\* RecoverEffectV3 goes on with any row.
LEMMA FineRecovery ==
  ASSUME NEW a, IsJob(job[a]), Slot(a) \in Slots, job[a].fence = 0, NEW r
  PROVE  Fine(a, AfterRecovery(a, r))
<1> DEFINE j == [Job("read", Slot(a), "execute") EXCEPT !.quoted = r.budget # "none"]
<1>1. AfterRecovery(a, r) \in {To(a, "block_recovery"), To(a, "done"), j}
  BY DEF AfterRecovery
<1>2. Fine(a, To(a, "block_recovery")) /\ Fine(a, To(a, "done"))
  BY FineTo DEF Plain
<1>3. Fine(a, j)
  <2>1. JobIs(Job("read", Slot(a), "execute"), "read", Slot(a), None, None, 0)
    BY NewJob
  <2>2. PICK q : q = (r.budget # "none")
    OBVIOUS
  <2>3. JobIs([Job("read", Slot(a), "execute") EXCEPT !.quoted = q], "read", Slot(a), None, None, 0)
    BY <2>1, JobColumn
  <2>4. Suits("read", Slot(a), None, None, 0) /\ "read" \notin Dispatching
    BY DEF Suits, Early, Publishing, Copied, Dispatching
  <2>5. QED
    BY <2>2, <2>3, <2>4, FineJob
<1> HIDE DEF j
<1> QED
  BY <1>1, <1>2, <1>3

LEMMA FineNoOutput ==
  ASSUME NEW a, IsJob(job[a]), Slot(a) \in Slots, job[a].fence = 0, job[a].bytes = None
  PROVE  Fine(a, NoOutput(a))
<1> DEFINE j == [To(a, "reserve") EXCEPT !.quoted = FALSE]
           r == [NoRow EXCEPT !.phase = "provider_claimed",
                              !.budget = IF job[a].quoted THEN "reserved" ELSE "none"]
<1>1. NoOutput(a) \in {j, AfterRecovery(a, r), To(a, "done")}
  BY DEF NoOutput
<1>2. Fine(a, To(a, "done"))
  BY FineTo
<1>3. Fine(a, j)
  <2>1. JobIs(To(a, "reserve"), "reserve", Slot(a), job[a].bytes, job[a].manifest, job[a].fence)
    BY ToJob
  <2>2. JobIs(j, "reserve", Slot(a), job[a].bytes, job[a].manifest, job[a].fence)
    BY <2>1, JobColumn
  <2>3. Suits("reserve", Slot(a), job[a].bytes, job[a].manifest, job[a].fence) /\ "reserve" \notin Dispatching
    BY DEF Suits, Early, Publishing, Copied, Dispatching
  <2> HIDE DEF j
  <2>4. QED
    BY <2>2, <2>3, FineJob
<1> HIDE DEF j, r
<1>4. Fine(a, AfterRecovery(a, r))
  BY FineRecovery
<1> QED
  BY <1>1, <1>2, <1>3, <1>4

LEMMA FineFact ==
  ASSUME NEW a, IsJob(job[a]), Slot(a) \in Slots, job[a].fence = 0, job[a].bytes = None,
         NEW r, NEW o, Fine(a, o)
  PROVE  Fine(a, FactOr(a, r, o))
<1> DEFINE j == [To(a, "read_fact") EXCEPT !.seen = r.phase, !.manifest = r.manifest,
                                           !.quoted = r.budget # "none"]
<1>1. FactOr(a, r, o) \in {j, o}
  BY DEF FactOr
<1>2. Fine(a, j)
  <2>1. JobIs(To(a, "read_fact"), "read_fact", Slot(a), job[a].bytes, job[a].manifest, job[a].fence)
    BY ToJob
  <2>2. PICK q : q = (r.budget # "none")
    OBVIOUS
  <2>3. JobIs([To(a, "read_fact") EXCEPT !.seen = r.phase, !.manifest = r.manifest, !.quoted = q],
              "read_fact", Slot(a), job[a].bytes, r.manifest, job[a].fence)
    BY <2>1, JobColumns
  <2>4. Suits("read_fact", Slot(a), job[a].bytes, r.manifest, job[a].fence) /\ "read_fact" \notin Dispatching
    BY DEF Suits, Early, Publishing, Copied, Dispatching
  <2>5. QED
    BY <2>2, <2>3, <2>4, FineJob
<1> HIDE DEF j
<1> QED
  BY <1>1, <1>2

-----------------------------------------------------------------------------
(* Steps that only move an attempt *)

LEMMA FineKeeps ==
  ASSUME SlotInv, NEW a \in Attempts, Slot(a) \in Slots, NEW j, Become(a, j), Fine(a, j),
         UNCHANGED <<plan, row, books, store, outputs, stopped>>
  PROVE  SlotInv' /\ Quiet(a)
<1>1. Carries(j) /\ j.slot \in Slots /\ j.at \notin Dispatching
  BY DEF Fine
<1> QED
  BY <1>1, JobOnly, FineQuiet

\* An attempt before it chose a content.
LEMMA AtEarly ==
  ASSUME SlotInv, NEW a \in Attempts, job[a].at \in Early
  PROVE  /\ IsJob(job[a]) /\ Slot(a) \in Slots /\ SlotOk(Slot(a))
         /\ job[a].bytes = None /\ job[a].fence = 0
<1>1. job[a].at # "new"
  BY DEF Early
<1>2. /\ IsJob(job[a]) /\ Slot(a) \in Slots /\ SlotOk(Slot(a))
      /\ Suits(job[a].at, Slot(a), job[a].bytes, job[a].manifest, job[a].fence)
  BY <1>1, Working
<1> QED
  BY <1>2 DEF Suits, Early

LEMMA StartKeeps ==
  ASSUME SlotInv, NEW a \in Attempts, NEW s \in Slots, NEW kind, Start(a, s, kind), UNCHANGED plan
  PROVE  SlotInv'
<1> DEFINE j == Job("read", s, kind)
<1>1. JobIs(j, "read", s, None, None, 0)
  BY NewJob
<1>2. Become(a, j) /\ UNCHANGED <<plan, row, books, store, outputs, stopped>>
  BY DEF Start, history
<1> HIDE DEF j
<1>3. IsJob(j) /\ j.at = "read" /\ j.slot = s /\ j.bytes = None /\ j.manifest = None /\ j.fence = 0
  BY <1>1 DEF JobIs
<1>4. Carries(j) /\ j.slot \in Slots /\ j.at \notin Dispatching
  BY <1>3 DEF Carries, Early, Publishing, Copied, Dispatching
<1> QED
  BY <1>2, <1>4, JobOnly

LEMMA StopKeeps ==
  ASSUME SlotInv, NEW a \in Attempts, Stop(a), UNCHANGED plan
  PROVE  SlotInv' /\ Quiet(a)
<1>1. IsJob(job[a]) /\ Slot(a) \in Slots
  BY Working DEF Stop
<1>2. Become(a, To(a, "done")) /\ UNCHANGED <<plan, row, books, store, outputs, stopped>>
  BY DEF Stop, Go, history
<1> QED
  BY <1>1, <1>2, FineTo, FineKeeps

LEMMA ReadExecuteKeeps ==
  ASSUME SlotInv, NEW a \in Attempts, ReadExecute(a), UNCHANGED plan
  PROVE  SlotInv' /\ Quiet(a)
<1>1. IsJob(job[a]) /\ Slot(a) \in Slots /\ job[a].bytes = None /\ job[a].fence = 0
  BY AtEarly DEF ReadExecute, At, Early
<1> DEFINE o == [To(a, "reserve") EXCEPT !.quoted = @ /\ DispatchPossible(Row(a))]
<1>2. Become(a, To(a, "done")) \/ Become(a, FactOr(a, Row(a), o))
  BY DEF ReadExecute
<1>3. UNCHANGED <<plan, row, books, store, outputs, stopped>>
  BY DEF ReadExecute, history
<1>4. Fine(a, o)
  <2>1. JobIs(To(a, "reserve"), "reserve", Slot(a), job[a].bytes, job[a].manifest, job[a].fence)
    BY <1>1, ToJob
  <2>2. PICK q : q = (To(a, "reserve").quoted /\ DispatchPossible(Row(a)))
    OBVIOUS
  <2>3. JobIs([To(a, "reserve") EXCEPT !.quoted = q], "reserve", Slot(a), job[a].bytes,
              job[a].manifest, job[a].fence)
    BY <2>1, JobColumn
  <2>4. Suits("reserve", Slot(a), job[a].bytes, job[a].manifest, job[a].fence) /\ "reserve" \notin Dispatching
    BY <1>1 DEF Suits, Early, Publishing, Copied, Dispatching
  <2>5. Fine(a, [To(a, "reserve") EXCEPT !.quoted = q])
    BY <1>1, <2>3, <2>4, FineJob
  <2>6. QED
    BY <2>2, <2>5
<1> HIDE DEF o
<1>5. Fine(a, FactOr(a, Row(a), o)) /\ Fine(a, To(a, "done"))
  BY <1>1, <1>4, FineFact, FineTo
<1> QED
  BY <1>1, <1>2, <1>3, <1>5, FineKeeps

LEMMA ReadRecoverKeeps ==
  ASSUME SlotInv, NEW a \in Attempts, ReadRecover(a), UNCHANGED plan
  PROVE  SlotInv' /\ Quiet(a)
<1>1. IsJob(job[a]) /\ Slot(a) \in Slots /\ job[a].bytes = None /\ job[a].fence = 0
  BY AtEarly DEF ReadRecover, At, Early
<1>2. \/ Become(a, To(a, "missing")) \/ Become(a, To(a, "restore"))
      \/ Become(a, FactOr(a, Row(a), AfterRecovery(a, Row(a))))
  BY DEF ReadRecover
<1>3. UNCHANGED <<plan, row, books, store, outputs, stopped>>
  BY DEF ReadRecover, history
<1>4. Fine(a, To(a, "missing")) /\ Fine(a, To(a, "restore"))
  BY <1>1, FineTo DEF Plain, Early
<1>5. Fine(a, FactOr(a, Row(a), AfterRecovery(a, Row(a))))
  BY <1>1, FineRecovery, FineFact
<1> QED
  BY <1>1, <1>2, <1>3, <1>4, <1>5, FineKeeps

LEMMA ReadPersistKeeps ==
  ASSUME SlotInv, NEW a \in Attempts, ReadPersist(a), UNCHANGED plan
  PROVE  SlotInv' /\ Quiet(a)
<1>1. IsJob(job[a]) /\ Slot(a) \in Slots /\ job[a].fence = 0
  BY AtEarly DEF ReadPersist, At, Early
<1>2. \/ Become(a, To(a, "missing")) \/ Become(a, To(a, "done"))
      \/ Become(a, To(a, "block_recovery"))
  BY DEF ReadPersist, Go
<1>3. UNCHANGED <<plan, row, books, store, outputs, stopped>>
  BY DEF ReadPersist, history
<1>4. Fine(a, To(a, "missing")) /\ Fine(a, To(a, "done")) /\ Fine(a, To(a, "block_recovery"))
  BY <1>1, FineTo DEF Plain
<1> QED
  BY <1>1, <1>2, <1>3, <1>4, FineKeeps

LEMMA ReadFactKeeps ==
  ASSUME SlotInv, NEW a \in Attempts, ReadFact(a), UNCHANGED plan
  PROVE  SlotInv' /\ Quiet(a)
<1>1. IsJob(job[a]) /\ Slot(a) \in Slots /\ job[a].bytes = None /\ job[a].fence = 0
  BY AtEarly DEF ReadFact, At, Early
<1>2. Become(a, To(a, "recover_bundle")) \/ Become(a, NoOutput(a))
  BY DEF ReadFact
<1>3. UNCHANGED <<plan, row, books, store, outputs, stopped>>
  BY DEF ReadFact, history
<1>4. Fine(a, To(a, "recover_bundle")) /\ Fine(a, NoOutput(a))
  BY <1>1, FineTo, FineNoOutput DEF Early
<1> QED
  BY <1>1, <1>2, <1>3, <1>4, FineKeeps

\* An attempt takes up a content.
LEMMA FineBytes ==
  ASSUME NEW a, IsJob(job[a]), Slot(a) \in Slots, job[a].fence = 0, NEW by
  PROVE  /\ by = bundle[Slot(a)] /\ bundle[Slot(a)] # None =>
              \A step \in {"restage", "prepare"} : Fine(a, [To(a, step) EXCEPT !.bytes = by])
         /\ by \in Outputs => Fine(a, [To(a, "preserve_fetched") EXCEPT !.bytes = by])
<1>1. ASSUME NEW step \in {"restage", "prepare", "preserve_fetched"},
             Suits(step, Slot(a), by, job[a].manifest, job[a].fence)
      PROVE  Fine(a, [To(a, step) EXCEPT !.bytes = by])
  <2>1. JobIs(To(a, step), step, Slot(a), job[a].bytes, job[a].manifest, job[a].fence)
    BY <1>1, ToJob
  <2>2. JobIs([To(a, step) EXCEPT !.bytes = by], step, Slot(a), by, job[a].manifest, job[a].fence)
    BY <2>1, JobColumn
  <2>3. step \notin Dispatching
    BY <1>1 DEF Dispatching
  <2>4. QED
    BY <1>1, <2>2, <2>3, FineJob
<1>2. by = bundle[Slot(a)] /\ bundle[Slot(a)] # None =>
        \A step \in {"restage", "prepare"} : Suits(step, Slot(a), by, job[a].manifest, job[a].fence)
  BY DEF Suits, Early, Publishing, Copied
<1>3. by \in Outputs => Suits("preserve_fetched", Slot(a), by, job[a].manifest, job[a].fence)
  BY DEF Suits, Early, Publishing, Copied
<1> QED
  BY <1>1, <1>2, <1>3

LEMMA RecoverBundleKeeps ==
  ASSUME SlotInv, NEW a \in Attempts, RecoverBundle(a), UNCHANGED plan
  PROVE  SlotInv' /\ Quiet(a)
<1>1. IsJob(job[a]) /\ Slot(a) \in Slots /\ job[a].bytes = None /\ job[a].fence = 0
  BY AtEarly DEF RecoverBundle, At, Early
<1>2. \/ bundle[Slot(a)] # None /\ Become(a, [To(a, "restage") EXCEPT !.bytes = bundle[Slot(a)]])
      \/ Become(a, To(a, "fetch")) \/ Become(a, To(a, "done"))
  BY DEF RecoverBundle, Found
<1>3. UNCHANGED <<plan, row, books, store, outputs, stopped>>
  BY DEF RecoverBundle, history
<1>4. Fine(a, To(a, "fetch")) /\ Fine(a, To(a, "done"))
  BY <1>1, FineTo DEF Early
<1>5. bundle[Slot(a)] # None => Fine(a, [To(a, "restage") EXCEPT !.bytes = bundle[Slot(a)]])
  BY <1>1, FineBytes
<1> QED
  BY <1>1, <1>2, <1>3, <1>4, <1>5, FineKeeps

LEMMA FetchKeeps ==
  ASSUME SlotInv, NEW a \in Attempts, Fetch(a), UNCHANGED plan
  PROVE  SlotInv' /\ Quiet(a)
<1>1. IsJob(job[a]) /\ Slot(a) \in Slots /\ job[a].bytes = None /\ job[a].fence = 0
  BY AtEarly DEF Fetch, At, Early
<1>2. UNCHANGED <<plan, row, books, store, outputs, stopped>>
  BY DEF Fetch, history
<1>3. CASE Become(a, NoOutput(a))
  BY <1>1, <1>2, <1>3, FineNoOutput, FineKeeps
<1>4. ASSUME NEW b \in Outputs, Become(a, [To(a, "preserve_fetched") EXCEPT !.bytes = b])
      PROVE  SlotInv' /\ Quiet(a)
  <2>1. Fine(a, [To(a, "preserve_fetched") EXCEPT !.bytes = b])
    BY <1>1, FineBytes
  <2>2. QED
    BY <1>1, <1>2, <1>4, <2>1, FineKeeps
<1> QED
  BY <1>3, <1>4 DEF Fetch

LEMMA RecoverClaimedKeeps ==
  ASSUME SlotInv, NEW a \in Attempts, RecoverClaimed(a), UNCHANGED plan
  PROVE  SlotInv' /\ Quiet(a)
<1>1. IsJob(job[a]) /\ Slot(a) \in Slots /\ job[a].bytes = None /\ job[a].fence = 0
  BY AtEarly DEF RecoverClaimed, At, Early
<1>2. \/ bundle[Slot(a)] # None /\ Become(a, [To(a, "prepare") EXCEPT !.bytes = bundle[Slot(a)]])
      \/ Become(a, To(a, "block_provider"))
  BY DEF RecoverClaimed, Found
<1>3. UNCHANGED <<plan, row, books, store, outputs, stopped>>
  BY DEF RecoverClaimed, history
<1>4. Fine(a, To(a, "block_provider"))
  BY <1>1, FineTo DEF Plain
<1>5. bundle[Slot(a)] # None => Fine(a, [To(a, "prepare") EXCEPT !.bytes = bundle[Slot(a)]])
  BY <1>1, FineBytes
<1> QED
  BY <1>1, <1>2, <1>3, <1>4, <1>5, FineKeeps

LEMMA ReserveAgainKeeps ==
  ASSUME SlotInv, NEW a \in Attempts, ReserveAgain(a), UNCHANGED plan
  PROVE  SlotInv' /\ Quiet(a)
<1>1. IsJob(job[a]) /\ Slot(a) \in Slots /\ SlotOk(Slot(a)) /\ job[a].bytes = None /\ job[a].fence = 0
  BY AtEarly DEF ReserveAgain, At, Early
<1> DEFINE j == [To(a, "recover_claimed") EXCEPT !.manifest = None]
<1>2. Become(a, To(a, "done")) \/ Become(a, j) \/ Become(a, Continue(a, Row(a)))
  BY DEF ReserveAgain
<1>3. UNCHANGED <<plan, row, books, store, outputs, stopped>>
  BY DEF ReserveAgain, history
<1>4. Fine(a, To(a, "done")) /\ Fine(a, Continue(a, Row(a)))
  BY <1>1, FineTo, FineContinue DEF SlotOk, Row, Slot
<1>5. Fine(a, j)
  <2>1. JobIs(To(a, "recover_claimed"), "recover_claimed", Slot(a), job[a].bytes, job[a].manifest,
              job[a].fence)
    BY <1>1, ToJob
  <2>2. JobIs(j, "recover_claimed", Slot(a), job[a].bytes, None, job[a].fence)
    BY <2>1, JobColumn
  <2>3. Suits("recover_claimed", Slot(a), job[a].bytes, None, job[a].fence) /\ "recover_claimed" \notin Dispatching
    BY <1>1 DEF Suits, Early, Publishing, Copied, Dispatching
  <2> HIDE DEF j
  <2>4. QED
    BY <1>1, <2>2, <2>3, FineJob
<1> HIDE DEF j
<1> QED
  BY <1>1, <1>2, <1>3, <1>4, <1>5, FineKeeps

\* An attempt goes on with what it has.
LEMMA FineSame ==
  ASSUME NEW a, IsJob(job[a]), Slot(a) \in Slots, NEW step, step \notin Dispatching \cup {"done"},
         Suits(step, Slot(a), job[a].bytes, job[a].manifest, job[a].fence)
  PROVE  Fine(a, To(a, step))
<1>1. JobIs(To(a, step), step, Slot(a), job[a].bytes, job[a].manifest, job[a].fence)
  BY ToJob
<1> QED
  BY <1>1, FineJob

LEMMA AnswerKeeps ==
  ASSUME SlotInv, NEW a \in Attempts, Answer(a), UNCHANGED plan
  PROVE  SlotInv' /\ Quiet(a)
<1>1. job[a].at = "answer" /\ UNCHANGED <<plan, row, books, store, outputs, stopped>>
  BY DEF Answer, At, history
<1>2. /\ IsJob(job[a]) /\ Slot(a) \in Slots
      /\ Suits("answer", Slot(a), job[a].bytes, job[a].manifest, job[a].fence)
  BY <1>1, Working
<1>3. PICK step \in {"settle", "preserve"} : Become(a, To(a, step))
  BY DEF Answer, Go
<1>4. Suits(step, Slot(a), job[a].bytes, job[a].manifest, job[a].fence) /\ step \notin Dispatching \cup {"done"}
  BY <1>2, <1>3 DEF Suits, Early, Publishing, Copied, Dispatching
<1> QED
  BY <1>1, <1>2, <1>3, <1>4, FineSame, FineKeeps

LEMMA ProveKeeps ==
  ASSUME SlotInv, NEW a \in Attempts, Prove(a), UNCHANGED plan
  PROVE  SlotInv' /\ Quiet(a)
<1>1. /\ job[a].at = "answer" /\ UNCHANGED <<plan, row, books, store, outputs, stopped>>
      /\ job' = job
  BY DEF Prove, At, history
<1>2. Become(a, job[a])
  <2>1. job = [b \in Attempts |-> job[b]]
    BY DEF SlotInv, Tables
  <2>2. QED
    BY <1>1, <2>1 DEF Become
<1>3. Carries(job[a]) /\ job[a].slot \in Slots
  BY <1>1, Working DEF SlotInv, AttemptOk, Slot
<1>4. job[a].at \notin Dispatching
  BY <1>1 DEF Dispatching
<1> QED
  BY <1>1, <1>2, <1>3, <1>4, JobOnly, FineQuiet

LEMMA GenerateFailsKeeps ==
  ASSUME SlotInv, NEW a \in Attempts, GenerateFails(a), UNCHANGED plan
  PROVE  SlotInv' /\ Quiet(a)
<1>1. job[a].at \in {"answer", "generate"} /\ UNCHANGED <<plan, row, books, store, outputs, stopped>>
  BY DEF GenerateFails, At, history
<1>2. /\ IsJob(job[a]) /\ Slot(a) \in Slots
      /\ Suits(job[a].at, Slot(a), job[a].bytes, job[a].manifest, job[a].fence)
  BY <1>1, Working
<1>3. job[a].fence = 0
  BY <1>1, <1>2 DEF Suits
<1>4. CASE Go(a, UnknownOutcome(a))
  <2>1. UnknownOutcome(a) \in Plain
    BY DEF UnknownOutcome, Plain
  <2>2. Fine(a, To(a, UnknownOutcome(a)))
    BY <1>2, <1>3, <2>1, FineTo
  <2>3. QED
    BY <1>1, <1>2, <1>4, <2>2, FineKeeps DEF Go
<1>5. CASE At(a, "generate") /\ Go(a, "not_dispatched")
  <2> DEFINE j == To(a, "not_dispatched")
  <2>1. JobIs(j, "not_dispatched", Slot(a), job[a].bytes, job[a].manifest, job[a].fence)
    BY <1>2, ToJob
  <2>2. Become(a, j) /\ Dispatches(a)
    BY <1>5 DEF Go, At, Dispatches, Dispatching
  <2> HIDE DEF j
  <2>3. IsJob(j) /\ j.at = "not_dispatched" /\ j.slot = Slot(a) /\ j.fence = 0
    BY <1>3, <2>1 DEF JobIs
  <2>4. Carries(j)
    BY <1>2, <2>3 DEF Carries, Early, Publishing, Copied
  <2>5. j.slot \in Slots /\ j.slot = job[a].slot
    BY <1>2, <2>3 DEF Slot
  <2>6. QED
    BY <1>1, <1>5, <2>2, <2>4, <2>5, JobOnly DEF Quiet, At
<1> QED
  BY <1>4, <1>5 DEF GenerateFails

LEMMA RereadKeeps ==
  ASSUME SlotInv, NEW a \in Attempts, Reread(a), UNCHANGED plan
  PROVE  SlotInv' /\ Quiet(a)
<1>1. /\ job[a].at \in {"reread_prepare", "reread_staged"} /\ Become(a, Continue(a, Row(a)))
      /\ UNCHANGED <<plan, row, books, store, outputs, stopped>>
  BY DEF Reread, At, history
<1>2. /\ IsJob(job[a]) /\ Slot(a) \in Slots /\ SlotOk(Slot(a))
      /\ Suits(job[a].at, Slot(a), job[a].bytes, job[a].manifest, job[a].fence)
  BY <1>1, Working
<1>3. job[a].fence = 0 /\ job[a].bytes \in {None, bundle[Slot(a)]}
  BY <1>1, <1>2 DEF Suits
<1>4. Fine(a, Continue(a, Row(a)))
  BY <1>2, <1>3, FineContinue DEF SlotOk, Row, Slot
<1> QED
  BY <1>1, <1>2, <1>4, FineKeeps

\* The attempt holds the lease of this fence.
LEMMA FineLease ==
  ASSUME NEW a, IsJob(job[a]), Slot(a) \in Slots, job[a].manifest \in staged[Slot(a)], NEW fe
  PROVE  Fine(a, [To(a, "renew") EXCEPT !.fence = fe])
<1>1. JobIs(To(a, "renew"), "renew", Slot(a), job[a].bytes, job[a].manifest, job[a].fence)
  BY ToJob
<1>2. JobIs([To(a, "renew") EXCEPT !.fence = fe], "renew", Slot(a), job[a].bytes, job[a].manifest, fe)
  BY <1>1, JobColumn
<1>3. Suits("renew", Slot(a), job[a].bytes, job[a].manifest, fe) /\ "renew" \notin Dispatching
  BY DEF Suits, Early, Publishing, Copied, Dispatching
<1> QED
  BY <1>2, <1>3, FineJob

LEMMA RereadClaimKeeps ==
  ASSUME SlotInv, NEW a \in Attempts, RereadClaim(a), UNCHANGED plan
  PROVE  SlotInv' /\ Quiet(a)
<1>1. /\ job[a].at = "reread_claim" /\ UNCHANGED <<plan, row, books, store, outputs, stopped>>
      /\ Become(a, [To(a, "renew") EXCEPT !.fence = Row(a).fence])
  BY DEF RereadClaim, At, history
<1>2. /\ IsJob(job[a]) /\ Slot(a) \in Slots
      /\ Suits("reread_claim", Slot(a), job[a].bytes, job[a].manifest, job[a].fence)
  BY <1>1, Working
<1>3. job[a].manifest \in staged[Slot(a)]
  BY <1>2 DEF Suits, Publishing
<1> QED
  BY <1>1, <1>2, <1>3, FineLease, FineKeeps

LEMMA RenewKeeps ==
  ASSUME SlotInv, NEW a \in Attempts, Renew(a), UNCHANGED plan
  PROVE  SlotInv' /\ Quiet(a)
<1>1. /\ UNCHANGED <<plan, row, books, store, outputs, stopped>>
      /\ \/ job[a].at = "renew" /\ Become(a, To(a, "copy"))
         \/ job[a].at = "renew_after" /\ Become(a, To(a, "complete"))
  BY DEF Renew, At, Go, history
<1>2. /\ IsJob(job[a]) /\ Slot(a) \in Slots
      /\ Suits(job[a].at, Slot(a), job[a].bytes, job[a].manifest, job[a].fence)
  BY <1>1, Working
<1>3. /\ job[a].at = "renew" => Fine(a, To(a, "copy"))
      /\ job[a].at = "renew_after" => Fine(a, To(a, "complete"))
  <2>1. job[a].at = "renew" => Suits("copy", Slot(a), job[a].bytes, job[a].manifest, job[a].fence)
    BY <1>2 DEF Suits, Early, Publishing, Copied
  <2>2. job[a].at = "renew_after" => Suits("complete", Slot(a), job[a].bytes, job[a].manifest, job[a].fence)
    BY <1>2 DEF Suits, Early, Publishing, Copied
  <2>3. "copy" \notin Dispatching \cup {"done"} /\ "complete" \notin Dispatching \cup {"done"}
    BY DEF Dispatching
  <2>4. QED
    BY <1>2, <2>1, <2>2, <2>3, FineSame
<1> QED
  BY <1>1, <1>2, <1>3, FineKeeps

-----------------------------------------------------------------------------
(* Transactions of an attempt *)

LEMMA SameBooks ==
  ASSUME SlotInv, NEW s \in Slots, NEW r, Owes(s, r) = Owes(s, row[s])
  PROVE  Booked(s, r, books)
<1>1. /\ books = [reserved |-> books.reserved, committed |-> books.committed]
      /\ books.reserved \in Int /\ books.committed \in Int
      /\ books.reserved + books.committed <= Limit
  BY DEF SlotInv, Tables, BudgetBacked
<1>2. Owes(s, r) \in Int
  BY QuoteAssumption, SMT DEF Owes
<1>3. books.reserved = books.reserved - Owes(s, row[s]) + Owes(s, r)
  BY <1>1, <1>2, SMT
<1> QED
  BY <1>1, <1>3 DEF Booked

LEMMA MarkUnknownKeeps ==
  ASSUME SlotInv, NEW a \in Attempts, MarkUnknown(a), UNCHANGED plan
  PROVE  SlotInv' /\ Quiet(a)
<1> DEFINE r == Row(a)
           next == [r EXCEPT !.budget = "unknown"]
<1>1. job[a].at = "mark_unknown" /\ UNCHANGED <<plan, store, history>>
  BY DEF MarkUnknown, At
<1>2. /\ IsJob(job[a]) /\ Slot(a) \in Slots /\ SlotOk(Slot(a)) /\ job[a].fence = 0
  BY <1>1, Working DEF Suits
<1>3. RowIs(r, r.phase, r.from, r.budget, r.manifest, r.final, r.published)
  BY <1>2 DEF SlotOk, RowFits, RowIs, Row, Slot
<1>4. RowIs(next, r.phase, r.from, "unknown", r.manifest, r.final, r.published)
  BY <1>3, RowColumn
<1>5. \/ r.budget \in {"reserved", "unknown"} /\ Commits(a, next, books, To(a, "block_provider"), To(a, "done"))
      \/ Fails(a, To(a, "done"))
  BY DEF MarkUnknown, Transact, Commits, Fails
<1>6. r = row[Slot(a)]
  BY DEF Row, Slot
<1> HIDE DEF r, next
<1>7. Fine(a, To(a, "block_provider")) /\ Fine(a, To(a, "done"))
  BY <1>2, FineTo DEF Plain
<1>8. ASSUME r.budget \in {"reserved", "unknown"}
      PROVE  Follows(Slot(a), next) /\ Booked(Slot(a), next, books)
  <2>1. Owes(Slot(a), next) = Owes(Slot(a), row[Slot(a)])
    BY <1>4, <1>6, <1>8 DEF Owes, RowIs
  <2>2. Booked(Slot(a), next, books)
    BY <1>2, <2>1, SameBooks
  <2>3. RowFits(next)
    BY <1>2, <1>4, <1>6, <1>8 DEF SlotOk, RowFits, RowIs
  <2>4. Evidence(Slot(a), next) /\ Stays(Slot(a), next)
    BY <1>2, <1>4, <1>6 DEF SlotOk, Evidence, Reached, Stays, RowIs
  <2>5. QED
    BY <1>4, <1>6, <2>2, <2>3, <2>4 DEF Follows, RowIs, Held
<1> QED
  BY <1>1, <1>2, <1>5, <1>7, <1>8, TransactKeeps

\* The row of an attempt's slot.
LEMMA RowOf ==
  ASSUME NEW a, SlotOk(Slot(a))
  PROVE  /\ Row(a) = row[Slot(a)]
         /\ RowIs(Row(a), Row(a).phase, Row(a).from, Row(a).budget, Row(a).manifest,
                  Row(a).final, Row(a).published)
BY DEF SlotOk, RowFits, RowIs, Row, Slot

\* A row whose phase and manifest change and whose budget does not.
LEMMA PhaseMoves ==
  ASSUME SlotInv, NEW s \in Slots, NEW r, IsRow(r), r.budget = row[s].budget,
         r.phase \notin Open \cup {"provider_claimed"}, Evidence(s, r)
  PROVE  Follows(s, r) /\ Booked(s, r, books)
<1>1. RowFits(r) /\ Stays(s, r)
  BY DEF RowFits, Stays, Open
<1>2. Owes(s, r) = Owes(s, row[s])
  BY DEF Owes
<1> QED
  BY <1>1, <1>2, SameBooks DEF Follows

LEMMA PrepareKeeps ==
  ASSUME SlotInv, NEW a \in Attempts, Prepare(a), UNCHANGED plan
  PROVE  SlotInv' /\ Quiet(a)
<1> DEFINE r == Row(a)
           next == [r EXCEPT !.phase = "staging_prepared", !.manifest = job[a].bytes]
           then == IF job[a].verdict = "passed" THEN Continue(a, next) ELSE To(a, "block_review")
           failed == To(a, IF job[a].verdict = "passed" THEN "reread_prepare" ELSE "done")
<1>1. job[a].at = "prepare" /\ UNCHANGED <<plan, store, history>>
  BY DEF Prepare, At
<1>2. /\ IsJob(job[a]) /\ Slot(a) \in Slots /\ SlotOk(Slot(a))
      /\ Suits("prepare", Slot(a), job[a].bytes, job[a].manifest, job[a].fence)
  BY <1>1, Working
<1>3. job[a].fence = 0 /\ job[a].bytes = bundle[Slot(a)] /\ bundle[Slot(a)] # None
  BY <1>2 DEF Suits
<1>4. Commits(a, next, books, then, failed) \/ Fails(a, failed)
  BY DEF Prepare, Transact, Commits, Fails
<1>5. r = row[Slot(a)] /\ RowIs(r, r.phase, r.from, r.budget, r.manifest, r.final, r.published)
  BY <1>2, RowOf
<1>6. RowIs(next, "staging_prepared", r.from, r.budget, job[a].bytes, r.final, r.published)
  BY <1>5, RowColumns
<1>7. Fine(a, failed)
  <2>1. Suits("reread_prepare", Slot(a), job[a].bytes, job[a].manifest, job[a].fence)
    BY <1>3 DEF Suits, Early, Publishing, Copied
  <2>2. Fine(a, To(a, "reread_prepare"))
    BY <1>2, <2>1, FineSame DEF Dispatching
  <2>3. QED
    BY <1>2, <2>2, FineTo
<1> HIDE DEF r, next
<1>8. Evidence(Slot(a), next)
  <2>1. Evidence(Slot(a), r)
    BY <1>2, <1>5 DEF SlotOk
  <2>2. QED
    BY <1>3, <1>6, <2>1 DEF Evidence, Reached, RowIs, StagedPhases
<1>9. Fine(a, then)
  BY <1>2, <1>3, <1>8, FineContinue, FineTo DEF Plain
<1>10. Follows(Slot(a), next) /\ Booked(Slot(a), next, books)
  <2>1. IsRow(next) /\ next.budget = row[Slot(a)].budget /\ next.phase \notin Open \cup {"provider_claimed"}
    BY <1>5, <1>6 DEF RowIs, Open
  <2>2. QED
    BY <1>2, <1>8, <2>1, PhaseMoves
<1> HIDE DEF then, failed
<1> QED
  BY <1>1, <1>2, <1>4, <1>7, <1>9, <1>10, TransactKeeps

LEMMA CommitStagedKeeps ==
  ASSUME SlotInv, NEW a \in Attempts, CommitStaged(a), UNCHANGED plan
  PROVE  SlotInv' /\ Quiet(a)
<1> DEFINE r == Row(a)
           next == [r EXCEPT !.phase = "artifact_staged"]
           failed == To(a, "reread_staged")
<1>1. job[a].at = "commit_staged" /\ UNCHANGED <<plan, store, history>>
  BY DEF CommitStaged, At
<1>2. /\ IsJob(job[a]) /\ Slot(a) \in Slots /\ SlotOk(Slot(a))
      /\ Suits("commit_staged", Slot(a), job[a].bytes, job[a].manifest, job[a].fence)
  BY <1>1, Working
<1>3. /\ job[a].fence = 0 /\ job[a].bytes \in {None, bundle[Slot(a)]}
      /\ job[a].manifest = bundle[Slot(a)] /\ bundle[Slot(a)] \in staged[Slot(a)]
  BY <1>2 DEF Suits
<1>4. \/ r.manifest = job[a].manifest /\ Commits(a, next, books, Continue(a, next), failed)
      \/ Fails(a, failed)
  BY DEF CommitStaged, Transact, Commits, Fails
<1>5. r = row[Slot(a)] /\ RowIs(r, r.phase, r.from, r.budget, r.manifest, r.final, r.published)
  BY <1>2, RowOf
<1>6. RowIs(next, "artifact_staged", r.from, r.budget, r.manifest, r.final, r.published)
  BY <1>5, RowColumn
<1>7. Fine(a, failed)
  <2>1. Suits("reread_staged", Slot(a), job[a].bytes, job[a].manifest, job[a].fence)
    BY <1>3 DEF Suits, Early, Publishing, Copied
  <2>2. QED
    BY <1>2, <2>1, FineSame DEF Dispatching
<1> HIDE DEF r, next, failed
<1>8. ASSUME r.manifest = job[a].manifest
      PROVE  Evidence(Slot(a), next)
  <2>1. Evidence(Slot(a), r)
    BY <1>2, <1>5 DEF SlotOk
  <2>2. QED
    BY <1>3, <1>6, <1>8, <2>1 DEF Evidence, Reached, RowIs
<1>9. Evidence(Slot(a), next) => Fine(a, Continue(a, next))
  BY <1>2, <1>3, FineContinue
<1>10. Evidence(Slot(a), next) => Follows(Slot(a), next) /\ Booked(Slot(a), next, books)
  <2>1. IsRow(next) /\ next.budget = row[Slot(a)].budget /\ next.phase \notin Open \cup {"provider_claimed"}
    BY <1>5, <1>6 DEF RowIs, Open
  <2>2. QED
    BY <1>2, <2>1, PhaseMoves
<1> QED
  BY <1>1, <1>2, <1>4, <1>7, <1>8, <1>9, <1>10, TransactKeeps

LEMMA ClaimKeeps ==
  ASSUME SlotInv, NEW a \in Attempts, Claim(a), UNCHANGED plan
  PROVE  SlotInv' /\ Quiet(a)
<1> DEFINE r == Row(a)
           next == [r EXCEPT !.phase = "publication_claimed", !.owner = a,
                             !.fence = NextFence(r), !.live = TRUE, !.final = job[a].manifest]
           then == [To(a, "renew") EXCEPT !.fence = next.fence]
           failed == To(a, "reread_claim")
<1>1. job[a].at = "claim" /\ UNCHANGED <<plan, store, history>>
  BY DEF Claim, At
<1>2. /\ IsJob(job[a]) /\ Slot(a) \in Slots /\ SlotOk(Slot(a))
      /\ Suits("claim", Slot(a), job[a].bytes, job[a].manifest, job[a].fence)
  BY <1>1, Working
<1>3. job[a].fence = 0 /\ job[a].manifest \in staged[Slot(a)]
  BY <1>2 DEF Suits, Publishing
<1>4. Commits(a, next, books, then, failed) \/ Fails(a, failed)
  BY DEF Claim, Transact, Commits, Fails
<1>5. r = row[Slot(a)] /\ RowIs(r, r.phase, r.from, r.budget, r.manifest, r.final, r.published)
  BY <1>2, RowOf
<1>6. RowIs(next, "publication_claimed", r.from, r.budget, r.manifest, job[a].manifest, r.published)
  BY <1>5, ClaimColumns
<1>7. Fine(a, failed)
  <2>1. Suits("reread_claim", Slot(a), job[a].bytes, job[a].manifest, job[a].fence)
    BY <1>3 DEF Suits, Early, Publishing, Copied
  <2>2. QED
    BY <1>2, <2>1, FineSame DEF Dispatching
<1>8. r.phase \in {"artifact_staged", "publication_claimed"}
  BY DEF Claim, Claimable
<1> HIDE DEF r, next
<1>9. Fine(a, then)
  BY <1>2, <1>3, FineLease
<1>10. Evidence(Slot(a), next)
  <2>1. Evidence(Slot(a), r) /\ Objects(Slot(a))
    BY <1>2, <1>5 DEF SlotOk
  <2>2. r.manifest \in staged[Slot(a)] /\ job[a].manifest = bundle[Slot(a)]
    BY <1>3, <1>8, <2>1 DEF Evidence, Reached, StagedPhases, Objects
  <2>3. QED
    BY <1>6, <2>1, <2>2 DEF Evidence, Reached, RowIs
<1>11. Follows(Slot(a), next) /\ Booked(Slot(a), next, books)
  <2>1. IsRow(next) /\ next.budget = row[Slot(a)].budget /\ next.phase \notin Open \cup {"provider_claimed"}
    BY <1>5, <1>6 DEF RowIs, Open
  <2>2. QED
    BY <1>2, <1>10, <2>1, PhaseMoves
<1> HIDE DEF then, failed
<1> QED
  BY <1>1, <1>2, <1>4, <1>7, <1>9, <1>11, TransactKeeps

LEMMA CompleteKeeps ==
  ASSUME SlotInv, NEW a \in Attempts, Complete(a), UNCHANGED plan
  PROVE  SlotInv' /\ Quiet(a)
<1> DEFINE r == Row(a)
           next == [r EXCEPT !.phase = "publication_complete", !.published = job[a].manifest]
           done == To(a, "done")
<1>1. job[a].at = "complete" /\ UNCHANGED <<plan, store, history>>
  BY DEF Complete, At
<1>2. /\ IsJob(job[a]) /\ Slot(a) \in Slots /\ SlotOk(Slot(a))
      /\ Suits("complete", Slot(a), job[a].bytes, job[a].manifest, job[a].fence)
  BY <1>1, Working
<1>3. job[a].manifest \in final[Slot(a)]
  BY <1>2 DEF Suits, Copied
<1>4. \/ r.phase = "publication_claimed" /\ Commits(a, next, books, done, done)
      \/ Fails(a, done)
  BY DEF Complete, Holds, Transact, Commits, Fails
<1>5. r = row[Slot(a)] /\ RowIs(r, r.phase, r.from, r.budget, r.manifest, r.final, r.published)
  BY <1>2, RowOf
<1>6. RowIs(next, "publication_complete", r.from, r.budget, r.manifest, r.final, job[a].manifest)
  BY <1>5, RowColumns
<1>7. Fine(a, done)
  BY <1>2, FineTo
<1> HIDE DEF r, next, done
<1>8. ASSUME r.phase = "publication_claimed"
      PROVE  Evidence(Slot(a), next)
  <2>1. Evidence(Slot(a), r) /\ Objects(Slot(a))
    BY <1>2, <1>5 DEF SlotOk
  <2>2. r.manifest \in staged[Slot(a)] /\ job[a].manifest = bundle[Slot(a)]
    BY <1>3, <1>8, <2>1 DEF Evidence, Reached, StagedPhases, Objects
  <2>3. QED
    BY <1>3, <1>6, <2>1, <2>2 DEF Evidence, Reached, RowIs
<1>9. Evidence(Slot(a), next) => Follows(Slot(a), next) /\ Booked(Slot(a), next, books)
  <2>1. IsRow(next) /\ next.budget = row[Slot(a)].budget /\ next.phase \notin Open \cup {"provider_claimed"}
    BY <1>5, <1>6 DEF RowIs, Open
  <2>2. QED
    BY <1>2, <2>1, PhaseMoves
<1> QED
  BY <1>1, <1>2, <1>4, <1>7, <1>8, <1>9, TransactKeeps

LEMMA RestoreKeeps ==
  ASSUME SlotInv, NEW a \in Attempts, Restore(a), UNCHANGED plan
  PROVE  SlotInv' /\ Quiet(a)
<1> DEFINE r == Row(a)
           next == [r EXCEPT !.phase = r.from, !.from = "none"]
           then == FactOr(a, next, AfterRecovery(a, next))
           failed == To(a, "done")
<1>1. UNCHANGED <<plan, store, history>>
  BY DEF Restore
<1>2. IsJob(job[a]) /\ Slot(a) \in Slots /\ SlotOk(Slot(a)) /\ job[a].bytes = None /\ job[a].fence = 0
  BY AtEarly DEF Restore, At, Early
<1>3. \/ /\ r.phase = "recovery_blocked" /\ Redrivable(r.from)
         /\ Commits(a, next, books, then, failed)
      \/ Fails(a, failed)
  BY DEF Restore, Transact, Commits, Fails
<1>4. r = row[Slot(a)] /\ RowIs(r, r.phase, r.from, r.budget, r.manifest, r.final, r.published)
  BY <1>2, RowOf
<1>5. RowIs(next, r.from, "none", r.budget, r.manifest, r.final, r.published)
  BY <1>4, RowColumns
<1> HIDE DEF r, next
<1>6. Fine(a, then) /\ Fine(a, failed)
  BY <1>2, FineTo, FineRecovery, FineFact
<1>7. ASSUME r.phase = "recovery_blocked", Redrivable(r.from)
      PROVE  Follows(Slot(a), next) /\ Booked(Slot(a), next, books)
  <2>1. Evidence(Slot(a), r)
    BY <1>2, <1>4 DEF SlotOk
  <2>2. r.from \notin Open \cup {"provider_claimed", "recovery_blocked"}
    BY <1>7 DEF Redrivable, Open
  <2>3. Reached(r) = r.from /\ Reached(next) = r.from
    BY <1>5, <1>7, <2>2 DEF Reached, RowIs
  <2>4. Evidence(Slot(a), next)
    BY <1>5, <2>1, <2>3 DEF Evidence, RowIs
  <2>5. IsRow(next) /\ next.budget = row[Slot(a)].budget /\ next.phase \notin Open \cup {"provider_claimed"}
    BY <1>4, <1>5, <2>2 DEF RowIs
  <2>6. QED
    BY <1>2, <2>4, <2>5, PhaseMoves
<1> HIDE DEF then, failed
<1> QED
  BY <1>1, <1>2, <1>3, <1>6, <1>7, TransactKeeps

LEMMA MissingKeeps ==
  ASSUME SlotInv, NEW a \in Attempts, Missing(a), UNCHANGED plan
  PROVE  SlotInv' /\ Quiet(a)
<1> DEFINE r == Row(a)
           next == IF r.phase = "none" THEN [r EXCEPT !.phase = "provider_claimed"] ELSE r
           then == To(a, IF r.phase = "recovery_blocked" THEN "done" ELSE "block_recovery")
           failed == To(a, "done")
<1>1. job[a].at = "missing" /\ UNCHANGED <<plan, store, history>>
  BY DEF Missing, At
<1>2. IsJob(job[a]) /\ Slot(a) \in Slots /\ SlotOk(Slot(a)) /\ job[a].fence = 0
  BY <1>1, Working DEF Suits
<1>3. \/ r.budget = "none" /\ Commits(a, next, books, then, failed)
      \/ Fails(a, failed)
  BY DEF Missing, Transact, Commits, Fails
<1>4. r = row[Slot(a)] /\ RowIs(r, r.phase, r.from, r.budget, r.manifest, r.final, r.published)
  BY <1>2, RowOf
<1>5. Fine(a, then) /\ Fine(a, failed)
  BY <1>2, FineTo DEF Plain
<1>6. CASE r.phase = "none"
  <2>1. next = [r EXCEPT !.phase = "provider_claimed"]
    BY <1>6
  <2> HIDE DEF r
  <2>2. RowIs([r EXCEPT !.phase = "provider_claimed"], "provider_claimed", r.from, r.budget, r.manifest,
              r.final, r.published)
    BY <1>4, RowColumn
  <2> HIDE DEF next, then, failed
  <2>3. RowIs(next, "provider_claimed", r.from, r.budget, r.manifest, r.final, r.published)
    BY <2>1, <2>2
  <2>4. ASSUME r.budget = "none"
        PROVE  Follows(Slot(a), next) /\ Booked(Slot(a), next, books)
    <3>1. RowFits(next) /\ Owes(Slot(a), next) = Owes(Slot(a), row[Slot(a)])
      BY <1>4, <2>3, <2>4 DEF RowFits, RowIs, Owes
    <3>2. Slot(a) \notin stopped
      BY <1>2, <1>4, <1>6 DEF SlotOk, Stays, Open
    <3>3. Evidence(Slot(a), next)
      BY <1>2, <1>4, <2>3 DEF SlotOk, Evidence, Reached, RowIs, StagedPhases
    <3>4. Follows(Slot(a), next)
      BY <1>4, <2>3, <3>1, <3>2, <3>3 DEF Follows, Stays, RowIs, Open
    <3>5. QED
      BY <1>2, <3>1, <3>4, SameBooks
  <2>5. QED
    BY <1>1, <1>2, <1>3, <1>5, <2>4, TransactKeeps
<1>7. CASE r.phase # "none"
  <2>1. next = row[Slot(a)]
    BY <1>4, <1>7
  <2>2. Follows(Slot(a), row[Slot(a)]) /\ Booked(Slot(a), row[Slot(a)], books)
    BY <1>2, SameBooks DEF SlotOk, Follows
  <2> HIDE DEF r, next, then, failed
  <2>3. QED
    BY <1>1, <1>2, <1>3, <1>5, <2>1, <2>2, TransactKeeps
<1> QED
  BY <1>6, <1>7

\* A block keeps what the row says of the objects.
LEMMA BlockFollows ==
  ASSUME SlotInv, NEW s \in Slots, NEW r, r = row[s], NEW phase, CanBlock(r, phase), phase \in BlockedPhases,
         NEW next, NEW from, from = (IF phase = "recovery_blocked" THEN r.phase ELSE r.from),
         RowIs(next, phase, from, r.budget, r.manifest, r.final, r.published)
  PROVE  Follows(s, next) /\ Booked(s, next, books)
<1>1. Evidence(s, r)
  BY DEF SlotInv, SlotOk
<1>2. Evidence(s, next)
  <2>1. /\ {next.manifest, next.final, next.published} \subseteq {None, bundle[s]}
        /\ next.manifest = r.manifest /\ next.published = r.published
    BY <1>1 DEF Evidence, RowIs
  <2>2. CASE phase = "recovery_blocked"
    <3>1. r.phase # "recovery_blocked"
      BY <2>2 DEF CanBlock
    <3>2. Reached(next) = Reached(r)
      BY <2>2, <3>1 DEF Reached, RowIs
    <3>3. QED
      BY <1>1, <2>1, <3>2 DEF Evidence
  <2>3. CASE phase = "publication_unknown"
    <3>1. r.phase = "publication_claimed"
      BY <2>3 DEF CanBlock
    <3>2. next.manifest \in staged[s]
      BY <1>1, <2>1, <3>1 DEF Evidence, Reached, StagedPhases
    <3>3. Reached(next) = "publication_unknown"
      BY <2>3 DEF Reached, RowIs
    <3>4. QED
      BY <2>1, <3>2, <3>3 DEF Evidence
  <2>4. CASE phase \in BlockedPhases \ {"recovery_blocked", "publication_unknown"}
    <3>1. Reached(next) = phase
      BY <2>4 DEF Reached, RowIs
    <3>2. phase \notin StagedPhases /\ phase # "staging_prepared" /\ phase # "publication_complete"
      BY <2>4 DEF BlockedPhases, StagedPhases
    <3>3. QED
      BY <2>1, <3>1, <3>2 DEF Evidence
  <2>5. QED
    BY <2>2, <2>3, <2>4
<1>3. IsRow(next) /\ next.budget = row[s].budget /\ next.phase \notin Open \cup {"provider_claimed"}
  BY DEF RowIs, BlockedPhases, Open
<1> QED
  BY <1>2, <1>3, PhaseMoves

LEMMA BlockKeeps ==
  ASSUME SlotInv, NEW a \in Attempts, NEW step, step # "new", NEW phase \in BlockedPhases,
         Block(a, step, phase), UNCHANGED plan
  PROVE  SlotInv' /\ Quiet(a)
<1> DEFINE r == Row(a)
           from == IF phase = "recovery_blocked" THEN r.phase ELSE r.from
           next == [r EXCEPT !.phase = phase, !.from = from]
           done == To(a, "done")
<1>1. job[a].at # "new" /\ UNCHANGED <<plan, store, outputs>> /\ stopped' \subseteq stopped \cup {Slot(a)}
  BY DEF Block, At
<1>2. IsJob(job[a]) /\ Slot(a) \in Slots /\ SlotOk(Slot(a))
  BY <1>1, Working
<1>3. r = row[Slot(a)] /\ RowIs(r, r.phase, r.from, r.budget, r.manifest, r.final, r.published)
  BY <1>2, RowOf
<1>4. [r EXCEPT !.phase = phase, !.from = IF phase = "recovery_blocked" THEN r.phase ELSE @] = next
  OBVIOUS
<1>5. Fine(a, done)
  BY <1>2, FineTo
<1>6. CASE CanBlock(r, phase) /\ Commits(a, next, books, done, done)
  <2> HIDE DEF from, r
  <2>1. RowIs(next, phase, from, r.budget, r.manifest, r.final, r.published)
    BY <1>3, RowColumns
  <2> HIDE DEF next, done
  <2>2. Follows(Slot(a), next) /\ Booked(Slot(a), next, books)
    BY <1>2, <1>3, <1>6, <2>1, BlockFollows DEF from
  <2>3. next.phase \notin Open \cup {"provider_claimed"}
    BY <2>1 DEF RowIs, Open, BlockedPhases
  <2>4. row' = [row EXCEPT ![Slot(a)] = next] /\ books' = books /\ Become(a, done)
    BY <1>6 DEF Commits
  <2>5. QED
    BY <1>1, <1>2, <1>5, <2>2, <2>3, <2>4, RowFollows
<1>7. CASE Fails(a, done)
  <2>1. row' = row /\ books' = books /\ Become(a, done)
    BY <1>7 DEF Fails
  <2>2. stopped' = stopped
    BY <2>1 DEF Block
  <2>3. UNCHANGED <<plan, row, books, store, outputs, stopped>>
    BY <1>1, <2>1, <2>2
  <2>4. QED
    BY <1>2, <1>5, <2>1, <2>3, FineKeeps
<1> QED
  BY <1>4, <1>6, <1>7 DEF Block, Transact, Commits, Fails

LEMMA BlocksKeep ==
  ASSUME SlotInv, NEW a \in Attempts, Blocks(a), UNCHANGED plan
  PROVE  SlotInv' /\ Quiet(a)
<1>1. job[a].verdict \in Verdicts
  BY DEF SlotInv, AttemptOk, Carries, IsJob
<1>2. PICK step, phase : /\ step # "new" /\ phase \in BlockedPhases
                         /\ Block(a, step, phase)
  BY <1>1 DEF Blocks, BlockedPhases, Verdicts
<1> QED
  BY <1>2, BlockKeeps

\* The usage of a slot leaves the reserved books and part of it is committed.
LEMMA BooksSettle ==
  ASSUME SlotInv, NEW s \in Slots, NEW r, NEW used \in 0..Quote[s],
         row[s].budget \in {"reserved", "unknown"}, r.budget \notin {"reserved", "unknown"}
  PROVE  Booked(s, r, [reserved |-> books.reserved - Quote[s], committed |-> books.committed + used])
<1> DEFINE bk == [reserved |-> books.reserved - Quote[s], committed |-> books.committed + used]
<1>1. /\ books.reserved \in Int /\ books.committed \in Int
      /\ books.reserved + books.committed <= Limit
  BY DEF SlotInv, Tables, BudgetBacked
<1>2. Quote[s] \in Int /\ used \in Int /\ used <= Quote[s] /\ Limit \in Int
  BY QuoteAssumption, SMT
<1>3. Owes(s, row[s]) = Quote[s] /\ Owes(s, r) = 0
  BY DEF Owes
<1>4. /\ bk.reserved = books.reserved - Quote[s] /\ bk.committed = books.committed + used
      /\ bk = [reserved |-> bk.reserved, committed |-> bk.committed]
  OBVIOUS
<1> HIDE DEF bk
<1>5. /\ bk.committed \in Int /\ bk.reserved + bk.committed <= Limit
      /\ bk.reserved = books.reserved - Owes(s, row[s]) + Owes(s, r)
  BY <1>1, <1>2, <1>3, <1>4, SMT
<1>6. Booked(s, r, bk)
  BY <1>4, <1>5 DEF Booked
<1> QED
  BY <1>6 DEF bk

LEMMA SettleKeeps ==
  ASSUME SlotInv, NEW a \in Attempts, Settle(a), UNCHANGED plan
  PROVE  SlotInv' /\ Quiet(a)
<1> DEFINE r == Row(a)
           next == [r EXCEPT !.budget = "committed"]
           then == To(a, "preserve")
           failed == To(a, "mark_unknown")
<1>1. job[a].at = "settle" /\ UNCHANGED <<plan, store, history>>
  BY DEF Settle, At
<1>2. /\ IsJob(job[a]) /\ Slot(a) \in Slots /\ SlotOk(Slot(a))
      /\ Suits("settle", Slot(a), job[a].bytes, job[a].manifest, job[a].fence)
  BY <1>1, Working
<1>3. PICK used \in 0..Quote[Slot(a)] :
        LET bk == IF r.budget = "committed" THEN books
                  ELSE [reserved |-> books.reserved - Quote[Slot(a)],
                        committed |-> books.committed + used]
        IN \/ r.budget \in {"reserved", "committed"} /\ Commits(a, next, bk, then, failed)
           \/ Fails(a, failed)
  BY DEF Settle, Transact, Commits, Fails
<1> DEFINE bk == IF r.budget = "committed" THEN books
                 ELSE [reserved |-> books.reserved - Quote[Slot(a)], committed |-> books.committed + used]
<1>4. \/ r.budget \in {"reserved", "committed"} /\ Commits(a, next, bk, then, failed)
      \/ Fails(a, failed)
  BY <1>3
<1>5. r = row[Slot(a)] /\ RowIs(r, r.phase, r.from, r.budget, r.manifest, r.final, r.published)
  BY <1>2, RowOf
<1> HIDE DEF r
<1>6. RowIs(next, r.phase, r.from, "committed", r.manifest, r.final, r.published)
  BY <1>5, RowColumn
<1>7. Fine(a, then) /\ Fine(a, failed)
  <2>1. Suits("preserve", Slot(a), job[a].bytes, job[a].manifest, job[a].fence) /\ job[a].fence = 0
    BY <1>2 DEF Suits, Early, Publishing, Copied
  <2>2. QED
    BY <1>2, <2>1, FineSame, FineTo DEF Plain, Dispatching
<1> HIDE DEF next, then, failed
<1>8. ASSUME r.budget \in {"reserved", "committed"}
      PROVE  Follows(Slot(a), next) /\ Booked(Slot(a), next, bk)
  <2>1. RowFits(next)
    BY <1>2, <1>5, <1>6, <1>8 DEF SlotOk, RowFits, RowIs
  <2>2. Evidence(Slot(a), next) /\ Stays(Slot(a), next)
    BY <1>2, <1>5, <1>6 DEF SlotOk, Evidence, Reached, Stays, RowIs
  <2>3. Follows(Slot(a), next)
    BY <1>5, <1>6, <2>1, <2>2 DEF Follows, RowIs, Held
  <2>4. next.budget = "committed"
    BY <1>6 DEF RowIs
  <2>5. CASE r.budget = "committed"
    <3>1. Owes(Slot(a), next) = Owes(Slot(a), row[Slot(a)]) /\ bk = books
      BY <1>5, <2>4, <2>5 DEF Owes
    <3> HIDE DEF bk
    <3>2. QED
      BY <1>2, <2>3, <3>1, SameBooks
  <2>6. CASE r.budget = "reserved"
    <3>1. Booked(Slot(a), next, [reserved |-> books.reserved - Quote[Slot(a)],
                                 committed |-> books.committed + used])
      BY <1>2, <1>5, <2>4, <2>6, BooksSettle
    <3>2. QED
      BY <2>3, <2>6, <3>1
  <2>7. QED
    BY <1>8, <2>5, <2>6
<1> HIDE DEF bk
<1> QED
  BY <1>1, <1>2, <1>4, <1>7, <1>8, TransactKeeps

LEMMA RestageKeeps ==
  ASSUME SlotInv, NEW a \in Attempts, Restage(a), UNCHANGED plan
  PROVE  SlotInv' /\ Quiet(a)
<1> DEFINE r == Row(a)
           budget == IF r.budget = "none" THEN r.budget ELSE "committed"
           prepared == [r EXCEPT !.phase = RestagedPhase, !.manifest = job[a].bytes, !.budget = budget]
           again == r.phase \notin Recoverable
           next == IF again THEN r ELSE prepared
           bk == IF again THEN books ELSE Charged(r, Slot(a))
           retry == [To(a, "reserve") EXCEPT !.quoted = FALSE, !.bytes = None]
           then == IF job[a].kind = "execute" THEN retry ELSE AfterRecovery(a, next)
           failed == To(a, "done")
<1>1. job[a].at = "restage" /\ UNCHANGED <<plan, store, history>>
  BY DEF Restage, At
<1>2. /\ IsJob(job[a]) /\ Slot(a) \in Slots /\ SlotOk(Slot(a))
      /\ Suits("restage", Slot(a), job[a].bytes, job[a].manifest, job[a].fence)
  BY <1>1, Working
<1>3. job[a].fence = 0 /\ job[a].bytes = bundle[Slot(a)] /\ bundle[Slot(a)] # None
  BY <1>2 DEF Suits
<1>4. \/ (again \/ r.budget # "released") /\ Commits(a, next, bk, then, failed)
      \/ Fails(a, failed)
  BY DEF Restage, Transact, Commits, Fails
<1>5. r = row[Slot(a)] /\ RowIs(r, r.phase, r.from, r.budget, r.manifest, r.final, r.published)
  BY <1>2, RowOf
<1> HIDE DEF r, budget
<1>6. RowIs(prepared, "staging_prepared", r.from, budget, job[a].bytes, r.final, r.published)
  BY <1>5, RowColumns DEF RestagedPhase
<1>7. Fine(a, retry)
  <2>1. JobIs(To(a, "reserve"), "reserve", Slot(a), job[a].bytes, job[a].manifest, job[a].fence)
    BY <1>2, ToJob
  <2>2. JobIs(retry, "reserve", Slot(a), None, job[a].manifest, job[a].fence)
    BY <2>1, JobColumns
  <2>3. Suits("reserve", Slot(a), None, job[a].manifest, job[a].fence) /\ "reserve" \notin Dispatching
    BY <1>3 DEF Suits, Early, Publishing, Copied, Dispatching
  <2> HIDE DEF retry
  <2>4. QED
    BY <1>2, <2>2, <2>3, FineJob
<1> HIDE DEF prepared, retry
<1>8. Fine(a, then) /\ Fine(a, failed)
  BY <1>2, <1>3, <1>7, FineRecovery, FineTo
<1>9. CASE again
  <2>1. next = row[Slot(a)] /\ bk = books
    BY <1>5, <1>9
  <2>2. Follows(Slot(a), row[Slot(a)]) /\ Booked(Slot(a), row[Slot(a)], books)
    BY <1>2, SameBooks DEF SlotOk, Follows
  <2> HIDE DEF next, bk, then, failed, again
  <2>3. QED
    BY <1>1, <1>2, <1>4, <1>8, <2>1, <2>2, TransactKeeps
<1>10. CASE ~again
  <2>1. next = prepared /\ bk = Charged(r, Slot(a))
    BY <1>10
  <2>2. Evidence(Slot(a), prepared)
    BY <1>2, <1>3, <1>5, <1>6 DEF SlotOk, Evidence, Reached, RowIs, StagedPhases
  <2>3. RowFits(prepared) /\ Stays(Slot(a), prepared) /\ prepared.phase \notin Open
    BY <1>6 DEF RowIs, RowFits, Stays, Open
  <2>4. prepared.budget = budget
    BY <1>6 DEF RowIs
  <2>5. Follows(Slot(a), prepared)
    BY <1>5, <2>2, <2>3, <2>4 DEF Follows, Held, budget
  <2>6. Booked(Slot(a), prepared, Charged(r, Slot(a)))
    <3>1. CASE r.budget \in {"reserved", "unknown"}
      <4>1. Charged(r, Slot(a)) = [reserved |-> books.reserved - Quote[Slot(a)],
                                   committed |-> books.committed + Quote[Slot(a)]]
        BY <3>1 DEF Charged
      <4>2. Quote[Slot(a)] \in 0..Quote[Slot(a)]
        BY <1>2, QuoteAssumption, SMT
      <4>3. row[Slot(a)].budget \in {"reserved", "unknown"} /\ prepared.budget \notin {"reserved", "unknown"}
        BY <1>5, <2>4, <3>1 DEF budget
      <4>4. QED
        BY <1>2, <4>1, <4>2, <4>3, BooksSettle
    <3>2. CASE r.budget \notin {"reserved", "unknown"}
      <4>1. Charged(r, Slot(a)) = books
        BY <3>2 DEF Charged
      <4>2. Owes(Slot(a), prepared) = Owes(Slot(a), row[Slot(a)])
        BY <1>5, <2>4, <3>2 DEF Owes, budget
      <4>3. QED
        BY <1>2, <4>1, <4>2, SameBooks
    <3>3. QED
      BY <3>1, <3>2
  <2> HIDE DEF next, bk, then, failed, again
  <2>7. QED
    BY <1>1, <1>2, <1>4, <1>8, <2>1, <2>5, <2>6, TransactKeeps
<1> QED
  BY <1>9, <1>10

-----------------------------------------------------------------------------
(* The dispatch *)

\* No attempt dispatches for a slot that may be claimed, and nothing was generated.
LEMMA NobodyDispatches ==
  ASSUME SlotInv, NEW s \in Slots, Acquirable(row[s])
  PROVE  outputs[s] = 0 /\ \A b \in Attempts : ~(Dispatches(b) /\ job[b].slot = s)
<1>1. row[s].phase \in Open \/ row[s].budget \notin Held
  BY DEF Acquirable, Open, Held
<1>2. Generated(s, row[s])
  BY DEF SlotInv, SlotOk
<1>3. outputs[s] = 0
  BY <1>1, <1>2 DEF Generated
<1>4. ASSUME NEW b \in Attempts, Dispatches(b), job[b].slot = s
      PROVE  FALSE
  BY <1>1, <1>4 DEF SlotInv, AttemptOk, Waiting
<1> QED
  BY <1>3, <1>4

LEMMA ReserveKeeps ==
  ASSUME SlotInv, NEW a \in Attempts, Reserve(a), UNCHANGED plan
  PROVE  SlotInv' /\ Quiet(a)
<1> DEFINE r == Row(a)
           phase == IF r.phase \in {"none", "provider_not_dispatched"} THEN "provider_claimed" ELSE r.phase
           next == [r EXCEPT !.phase = phase, !.budget = "reserved"]
           bk == [books EXCEPT !.reserved = @ + Quote[Slot(a)]]
           grant == [To(a, "generate") EXCEPT !.manifest = None]
           then == IF Acquired(r).phase = "provider_claimed" THEN grant ELSE To(a, "done")
           failed == To(a, "done")
<1>1. UNCHANGED <<plan, store, outputs, stopped>>
  BY DEF Reserve, history
<1>2. IsJob(job[a]) /\ Slot(a) \in Slots /\ SlotOk(Slot(a)) /\ job[a].fence = 0
  BY AtEarly DEF Reserve, At, Early
<1>3. Acquirable(r) /\ Allows(Slot(a))
  BY DEF Reserve
<1>4. r = row[Slot(a)] /\ RowIs(r, r.phase, r.from, r.budget, r.manifest, r.final, r.published)
  BY <1>2, RowOf
<1>5. Acquired(r) = next
  BY DEF Acquired
<1>6. \/ Commits(a, next, bk, then, failed)
      \/ Fails(a, failed)
  BY <1>5 DEF Reserve, Transact, Commits, Fails
<1> HIDE DEF r, phase
<1>7. RowIs(next, phase, r.from, "reserved", r.manifest, r.final, r.published)
  BY <1>4, RowColumns
<1>8. JobIs(grant, "generate", Slot(a), job[a].bytes, None, job[a].fence)
  <2>1. JobIs(To(a, "generate"), "generate", Slot(a), job[a].bytes, job[a].manifest, job[a].fence)
    BY <1>2, ToJob
  <2>2. QED
    BY <2>1, JobColumn
<1>9. Booked(Slot(a), next, bk)
  <2>1. /\ books = [reserved |-> books.reserved, committed |-> books.committed]
        /\ books.reserved \in Int /\ books.committed \in Int
    BY DEF SlotInv, Tables
  <2>2. /\ bk.reserved = books.reserved + Quote[Slot(a)] /\ bk.committed = books.committed
        /\ bk = [reserved |-> bk.reserved, committed |-> bk.committed]
    BY <2>1, SMT
  <2>3. r.budget \notin {"reserved", "unknown"}
    BY <1>2, <1>3, <1>4 DEF Acquirable, SlotOk, RowFits
  <2>4. Owes(Slot(a), row[Slot(a)]) = 0 /\ Owes(Slot(a), next) = Quote[Slot(a)]
    BY <1>4, <1>7, <2>3 DEF Owes, RowIs
  <2>5. books.committed + books.reserved + Quote[Slot(a)] <= Limit
    BY <1>3 DEF Allows
  <2>6. Quote[Slot(a)] \in Int /\ Limit \in Int
    BY <1>2, QuoteAssumption, SMT
  <2> HIDE DEF bk, next
  <2>7. /\ bk.reserved = books.reserved - Owes(Slot(a), row[Slot(a)]) + Owes(Slot(a), next)
        /\ bk.reserved + bk.committed <= Limit
    BY <2>1, <2>2, <2>4, <2>5, <2>6, SMT
  <2>8. QED
    BY <2>1, <2>2, <2>7 DEF Booked
<1> HIDE DEF next, bk, grant
<1>10. outputs[Slot(a)] = 0 /\ \A b \in Attempts : ~(Dispatches(b) /\ job[b].slot = Slot(a))
  BY <1>2, <1>3, <1>4, NobodyDispatches
<1>11. RowHolds(Slot(a), next)
  <2>1. IsRow(next) /\ next.phase = phase /\ next.budget = "reserved"
    BY <1>7 DEF RowIs
  <2>2. phase \notin Open
    BY DEF phase, Open
  <2>3. RowFits(next)
    BY <2>1, <2>2 DEF RowFits, Open
  <2>4. Generated(Slot(a), next)
    BY <1>10, SMT DEF Generated
  <2>5. Evidence(Slot(a), next)
    <3>1. Evidence(Slot(a), r)
      BY <1>2, <1>4 DEF SlotOk
    <3>2. CASE phase = r.phase
      BY <1>7, <3>1, <3>2 DEF Evidence, Reached, RowIs
    <3>3. CASE phase = "provider_claimed"
      BY <1>7, <3>1, <3>3 DEF Evidence, Reached, RowIs, StagedPhases
    <3>4. QED
      BY <3>2, <3>3 DEF phase
  <2>6. QED
    BY <2>3, <2>4, <2>5 DEF RowHolds
<1>12. next.phase \notin Open /\ next.budget \in Held
  BY <1>7 DEF RowIs, phase, Open, Held
<1>13. Slot(a) \in stopped => next.phase \notin Open \cup {"provider_claimed"}
  <2>1. Stays(Slot(a), r)
    BY <1>2, <1>4 DEF SlotOk
  <2>2. QED
    BY <1>7, <2>1 DEF RowIs, Stays, phase, Open
<1>14. Carries(grant) /\ grant.slot = Slot(a)
  <2>1. IsJob(grant) /\ grant.at = "generate" /\ grant.slot = Slot(a) /\ grant.fence = 0
    BY <1>2, <1>8 DEF JobIs
  <2>2. QED
    BY <1>2, <2>1 DEF Carries, Early, Publishing, Copied
<1>15. Fine(a, failed)
  BY <1>2, FineTo
<1>16. CASE Commits(a, next, bk, then, failed)
  <2>1. row' = [row EXCEPT ![Slot(a)] = next] /\ books' = bk
    BY <1>16 DEF Commits
  <2>2. PICK j : Become(a, j) /\ Carries(j) /\ j.slot = Slot(a)
    BY <1>14, <1>15, <1>16 DEF Commits, Fine
  <2>3. stopped' \subseteq stopped \cup {Slot(a)} /\ UNCHANGED <<plan, store, outputs>>
    BY <1>1
  <2>4. Slot(a) \in stopped' => next.phase \notin Open \cup {"provider_claimed"}
    BY <1>1, <1>13
  <2>5. SlotInv'
    BY <1>2, <1>9, <1>10, <1>11, <1>12, <2>1, <2>2, <2>3, <2>4, RowMoves
  <2>6. CASE Slot(a) \in stopped
    <3>1. Become(a, failed) /\ failed.at \notin Dispatching
      BY <1>5, <1>13, <1>15, <1>16, <2>6 DEF Commits, Fine
    <3>2. QED
      BY <2>5, <3>1, FineQuiet
  <2>7. CASE Slot(a) \notin stopped
    BY <2>5, <2>7 DEF Quiet
  <2>8. QED
    BY <2>6, <2>7
<1>17. CASE Fails(a, failed)
  <2>1. Become(a, failed) /\ UNCHANGED <<plan, row, books, store, outputs, stopped>>
    BY <1>1, <1>17 DEF Fails
  <2>2. QED
    BY <1>2, <1>15, <2>1, FineKeeps
<1> QED
  BY <1>6, <1>16, <1>17

LEMMA NotDispatchedKeeps ==
  ASSUME SlotInv, NEW a \in Attempts, NotDispatched(a), UNCHANGED plan
  PROVE  SlotInv' /\ Quiet(a)
<1> DEFINE r == Row(a)
           next == [r EXCEPT !.phase = "provider_not_dispatched", !.budget = "released"]
           bk == [books EXCEPT !.reserved = @ - Quote[Slot(a)]]
           done == To(a, "done")
<1>1. /\ job[a].at = "not_dispatched" /\ Dispatches(a)
      /\ UNCHANGED <<plan, store, outputs, stopped>>
  BY DEF NotDispatched, At, Dispatches, Dispatching, history
<1>2. IsJob(job[a]) /\ Slot(a) \in Slots /\ SlotOk(Slot(a))
  BY <1>1, Working
<1>3. r = row[Slot(a)] /\ RowIs(r, r.phase, r.from, r.budget, r.manifest, r.final, r.published)
  BY <1>2, RowOf
<1>4. \/ /\ r.phase = "provider_claimed" /\ r.budget = "reserved"
         /\ Commits(a, next, bk, done, done)
      \/ Fails(a, done)
  BY DEF NotDispatched, Transact, Commits, Fails
<1>5. Fine(a, done)
  BY <1>2, FineTo
<1> HIDE DEF r, done
<1>6. RowIs(next, "provider_not_dispatched", r.from, "released", r.manifest, r.final, r.published)
  BY <1>3, RowColumns
<1>7. Waiting(Slot(a)) /\ \A b \in Attempts \ {a} : ~(Dispatches(b) /\ job[b].slot = Slot(a))
  BY <1>1 DEF SlotInv, AttemptOk, Slot
<1>8. CASE r.phase = "provider_claimed" /\ r.budget = "reserved" /\ Commits(a, next, bk, done, done)
  <2>1. Booked(Slot(a), next, bk)
    <3>1. /\ books = [reserved |-> books.reserved, committed |-> books.committed]
          /\ books.reserved \in Int /\ books.committed \in Int
          /\ books.reserved + books.committed <= Limit
      BY DEF SlotInv, Tables, BudgetBacked
    <3>2. /\ bk.reserved = books.reserved - Quote[Slot(a)] /\ bk.committed = books.committed
          /\ bk = [reserved |-> bk.reserved, committed |-> bk.committed]
      BY <3>1, SMT
    <3>3. Owes(Slot(a), row[Slot(a)]) = Quote[Slot(a)] /\ Owes(Slot(a), next) = 0
      BY <1>3, <1>6, <1>8 DEF Owes, RowIs
    <3>4. Quote[Slot(a)] \in Nat /\ Limit \in Int
      BY <1>2, QuoteAssumption, SMT
    <3> HIDE DEF bk, next
    <3>5. /\ bk.reserved = books.reserved - Owes(Slot(a), row[Slot(a)]) + Owes(Slot(a), next)
          /\ bk.reserved + bk.committed <= Limit
      BY <3>1, <3>2, <3>3, <3>4, SMT
    <3>6. QED
      BY <3>1, <3>2, <3>5 DEF Booked
  <2> HIDE DEF bk, next
  <2>2. RowHolds(Slot(a), next)
    <3>1. IsRow(next) /\ next.phase = "provider_not_dispatched" /\ next.budget = "released"
      BY <1>6 DEF RowIs
    <3>2. RowFits(next)
      BY <3>1 DEF RowFits
    <3>3. Generated(Slot(a), next)
      <4>1. outputs[Slot(a)] = 0
        BY <1>7 DEF Waiting
      <4>2. QED
        BY <4>1, SMT DEF Generated
    <3>4. Evidence(Slot(a), next)
      BY <1>2, <1>3, <1>6 DEF SlotOk, Evidence, Reached, RowIs, StagedPhases
    <3>5. QED
      BY <3>2, <3>3, <3>4 DEF RowHolds
  <2>3. Slot(a) \notin stopped'
    BY <1>1, <1>2, <1>3, <1>8 DEF SlotOk, Stays
  <2>4. row' = [row EXCEPT ![Slot(a)] = next] /\ books' = bk /\ Become(a, done)
    BY <1>8 DEF Commits
  <2>5. Carries(done) /\ done.slot = Slot(a) /\ done.at \notin Dispatching
    BY <1>5 DEF Fine
  <2>6. stopped' \subseteq stopped \cup {Slot(a)} /\ UNCHANGED <<plan, store, outputs>>
    BY <1>1
  <2>7. QED
    BY <1>2, <1>7, <2>1, <2>2, <2>3, <2>4, <2>5, <2>6, RowMoves, FineQuiet
<1>9. CASE Fails(a, done)
  <2>1. Become(a, done) /\ UNCHANGED <<plan, row, books, store, outputs, stopped>>
    BY <1>1, <1>9 DEF Fails
  <2>2. QED
    BY <1>2, <1>5, <2>1, FineKeeps
<1> QED
  BY <1>4, <1>8, <1>9

LEMMA GenerateKeeps ==
  ASSUME SlotInv, NEW a \in Attempts, Generate(a), UNCHANGED plan
  PROVE  SlotInv' /\ Quiet(a)
<1>1. /\ job[a].at = "generate" /\ Dispatches(a)
      /\ UNCHANGED <<plan, row, books, store, stopped>>
      /\ outputs' = [outputs EXCEPT ![Slot(a)] = outputs[Slot(a)] + 1]
  BY DEF Generate, At, Dispatches, Dispatching
<1>2. /\ IsJob(job[a]) /\ Slot(a) \in Slots /\ SlotOk(Slot(a))
      /\ Suits("generate", Slot(a), job[a].bytes, job[a].manifest, job[a].fence)
  BY <1>1, Working
<1>s. PICK s \in Slots : s = Slot(a)
  BY <1>2
<1>3. Waiting(s) /\ \A b \in Attempts \ {a} : ~(Dispatches(b) /\ job[b].slot = s)
  BY <1>s, <1>1 DEF SlotInv, AttemptOk, Slot
<1>4. PICK b \in Outputs, v \in Verdicts : Become(a, [To(a, "answer") EXCEPT !.bytes = b, !.verdict = v])
  BY DEF Generate, Verdicts
<1>5. PICK j : j = [To(a, "answer") EXCEPT !.bytes = b, !.verdict = v]
  OBVIOUS
<1>6. JobIs(j, "answer", s, b, job[a].manifest, 0)
  <2>1. job[a].fence = 0
    BY <1>2 DEF Suits
  <2>2. JobIs(To(a, "answer"), "answer", Slot(a), job[a].bytes, job[a].manifest, job[a].fence)
    BY <1>2, ToJob
  <2>3. QED
    BY <1>s, <1>4, <1>5, <2>1, <2>2, JobColumns
<1>7. /\ job' = [c \in Attempts |-> job'[c]] /\ job'[a] = j
      /\ \A c \in Attempts \ {a} : job'[c] = job[c]
  BY <1>4, <1>5, BecomesJob DEF SlotInv
<1>8. /\ outputs' = [t \in Slots |-> outputs'[t]] /\ outputs'[s] = 1
      /\ \A t \in Slots \ {s} : outputs'[t] = outputs[t]
  <2>1. outputs = [t \in Slots |-> outputs[t]] /\ outputs[s] = 0
    BY <1>3 DEF SlotInv, Tables, Waiting
  <2>2. 0 + 1 = 1
    BY SMT
  <2>3. QED
    BY <1>s, <1>1, <2>1, <2>2
<1>9. Grows /\ Elsewhere(s)
  BY <1>1, <1>8 DEF Grows, Elsewhere, store
<1>10. Tables' /\ BudgetBacked'
  BY <1>1, <1>7, <1>8 DEF SlotInv, Tables, BudgetBacked, store
<1>11. Carries(job[a])'
  <2>1. IsJob(j) /\ j.at = "answer" /\ j.slot = s /\ j.bytes = b /\ j.fence = 0
    BY <1>6 DEF JobIs
  <2>2. Carries(j)
    BY <1>4, <2>1 DEF Carries, Early, Publishing, Copied
  <2>3. Carries(j)'
    BY <1>9, <2>2, CarriesOn
  <2>4. QED
    BY <1>7, <2>3 DEF Carries
<1>12. SlotOk(s)'
  <2>1. RowFits(row[s])'
    BY <1>s, <1>1, <1>2 DEF SlotOk, RowFits, IsRow
  <2>2. Generated(s, row[s])'
    BY <1>1, <1>3, <1>8 DEF Generated, Waiting
  <2>3. Stays(s, row[s])'
    BY <1>s, <1>1, <1>2 DEF SlotOk, Stays
  <2>4. Evidence(s, row[s])' /\ Objects(s)'
    BY <1>s, <1>1, <1>2 DEF SlotOk, Evidence, Reached, Objects, store
  <2>5. QED
    BY <2>1, <2>2, <2>3, <2>4 DEF SlotOk
<1>13. job'[a].slot = s /\ ~Dispatches(a)'
  BY <1>6, <1>7 DEF JobIs, Dispatches, Dispatching
<1> QED
  BY <1>1, <1>3, <1>7, <1>9, <1>10, <1>11, <1>12, <1>13, StepKeeps DEF Quiet

-----------------------------------------------------------------------------
(* The object store *)

\* What a call may leave in the store of a slot.
Stored(s, B, G, F) ==
  /\ bundle[s] # None => B = bundle[s]
  /\ staged[s] \subseteq G /\ final[s] \subseteq F
  /\ B \in Content /\ G \cup F \subseteq {B} /\ None \notin G \cup F

StoreIs(s, B, G, F) ==
  /\ bundle' = [bundle EXCEPT ![s] = B]
  /\ staged' = [staged EXCEPT ![s] = G]
  /\ final' = [final EXCEPT ![s] = F]

StoreNow(s, B, G, F) ==
  /\ bundle' = [t \in Slots |-> bundle'[t]] /\ bundle'[s] = B
  /\ staged' = [t \in Slots |-> staged'[t]] /\ staged'[s] = G
  /\ final' = [t \in Slots |-> final'[t]] /\ final'[s] = F
  /\ \A t \in Slots \ {s} : bundle'[t] = bundle[t] /\ staged'[t] = staged[t] /\ final'[t] = final[t]

LEMMA StoreTables ==
  ASSUME SlotInv, NEW s \in Slots, NEW B, NEW G, NEW F, StoreIs(s, B, G, F)
  PROVE  StoreNow(s, B, G, F)
<1>1. /\ bundle = [t \in Slots |-> bundle[t]] /\ staged = [t \in Slots |-> staged[t]]
      /\ final = [t \in Slots |-> final[t]]
  BY DEF SlotInv, Tables
<1> QED
  BY <1>1 DEF StoreIs, StoreNow

LEMMA StoreMoves ==
  ASSUME SlotInv, NEW a \in Attempts, NEW s \in Slots, NEW B, NEW G, NEW F,
         StoreIs(s, B, G, F), Stored(s, B, G, F),
         UNCHANGED <<plan, row, books, outputs, stopped>>,
         NEW j, Become(a, j), j.slot = s, Carries(j)', j.at \notin Dispatching
  PROVE  SlotInv' /\ Quiet(a)
<1>0. StoreNow(s, B, G, F)
  BY StoreTables
<1>1. /\ bundle' = [t \in Slots |-> bundle'[t]] /\ bundle'[s] = B
      /\ staged' = [t \in Slots |-> staged'[t]] /\ staged'[s] = G
      /\ final' = [t \in Slots |-> final'[t]] /\ final'[s] = F
      /\ \A t \in Slots \ {s} : bundle'[t] = bundle[t] /\ staged'[t] = staged[t] /\ final'[t] = final[t]
  BY <1>0 DEF StoreNow
<1>2. /\ job' = [b \in Attempts |-> job'[b]] /\ job'[a] = j
      /\ \A b \in Attempts \ {a} : job'[b] = job[b]
  BY BecomesJob DEF SlotInv
<1>3. Grows
  <2>1. ASSUME NEW t \in Slots
        PROVE  /\ bundle[t] # None => bundle'[t] = bundle[t]
               /\ staged[t] \subseteq staged'[t] /\ final[t] \subseteq final'[t]
    <3>1. CASE t = s
      <4>1. bundle'[t] = B /\ staged'[t] = G /\ final'[t] = F
        BY <1>1, <3>1
      <4>2. QED
        BY <3>1, <4>1 DEF Stored
    <3>2. CASE t # s
      BY <1>1, <3>2
    <3>3. QED
      BY <3>1, <3>2
  <2>2. QED
    BY <2>1 DEF Grows
<1>4. Elsewhere(s)
  BY <1>1 DEF Elsewhere
<1>5. Tables' /\ BudgetBacked'
  BY <1>1, <1>2 DEF SlotInv, Tables, BudgetBacked
<1>6. Carries(job[a])'
  BY <1>2 DEF Carries
<1>7. SlotOk(s)'
  <2>1. SlotOk(s)
    BY DEF SlotInv
  <2>2. RowFits(row[s])' /\ Generated(s, row[s])' /\ Stays(s, row[s])'
    BY <2>1 DEF SlotOk, RowFits, IsRow, Generated, Stays
  <2>3. Evidence(s, row[s])'
    <3>1. Evidence(s, row[s])
      BY <2>1 DEF SlotOk
    <3>2. /\ bundle[s] # None => bundle'[s] = bundle[s]
          /\ staged[s] \subseteq staged'[s] /\ final[s] \subseteq final'[s]
      BY <1>3 DEF Grows
    <3>3. QED
      BY <3>1, <3>2 DEF Evidence, Reached
  <2>4. Objects(s)'
    BY <1>1 DEF Objects, Stored
  <2>5. QED
    BY <2>2, <2>3, <2>4 DEF SlotOk
<1>8. job'[a].slot = s /\ ~Dispatches(a)'
  BY <1>2 DEF Dispatches
<1>9. ASSUME NEW b \in Attempts \ {a}, Dispatches(b), job[b].slot = s
      PROVE  Waiting(s)'
  BY <1>9 DEF SlotInv, AttemptOk, Waiting
<1> QED
  BY <1>2, <1>3, <1>4, <1>5, <1>6, <1>7, <1>8, <1>9, StepKeeps, FineQuiet

\* The first bundle of a slot stays.
LEMMA BundleStored ==
  ASSUME NEW s \in Slots, Objects(s), NEW by \in Outputs
  PROVE  Stored(s, Preserved(s, by), staged[s], final[s]) /\ Preserved(s, by) # None
<1>1. by # None /\ by \in Content
  BY NoneAssumption DEF Content
<1>2. CASE bundle[s] = None
  <2>1. Preserved(s, by) = by
    BY <1>2 DEF Preserved
  <2>2. staged[s] \cup final[s] = {}
    BY <1>2 DEF Objects
  <2>3. QED
    BY <1>1, <1>2, <2>1, <2>2 DEF Stored
<1>3. CASE bundle[s] # None
  <2>1. Preserved(s, by) = bundle[s]
    BY <1>3 DEF Preserved
  <2>2. QED
    BY <1>3, <2>1 DEF Stored, Objects
<1> QED
  BY <1>2, <1>3

\* An attempt that ends or blocks keeps its place whatever is stored.
LEMMA PlainOn ==
  ASSUME NEW j, Carries(j), j.at \in Plain \cup {"done", "block_publication"}
  PROVE  Carries(j)'
BY DEF Carries, Plain, Early, Publishing, Copied

LEMMA PreserveFetchedKeeps ==
  ASSUME SlotInv, NEW a \in Attempts, PreserveFetched(a), UNCHANGED plan
  PROVE  SlotInv' /\ Quiet(a)
<1>1. /\ job[a].at = "preserve_fetched" /\ UNCHANGED <<plan, row, books, outputs, stopped>>
      /\ UNCHANGED <<staged, final>>
      /\ bundle' = [bundle EXCEPT ![Slot(a)] = Preserved(Slot(a), job[a].bytes)]
  BY DEF PreserveFetched, At, history
<1>2. /\ IsJob(job[a]) /\ Slot(a) \in Slots /\ SlotOk(Slot(a))
      /\ Suits("preserve_fetched", Slot(a), job[a].bytes, job[a].manifest, job[a].fence)
  BY <1>1, Working
<1>3. job[a].bytes \in Outputs /\ job[a].fence = 0
  BY <1>2 DEF Suits
<1>4. PICK s \in Slots : s = Slot(a)
  BY <1>2
<1>5. PICK B : B = Preserved(s, job[a].bytes)
  OBVIOUS
<1>6. PICK G, F : G = staged[s] /\ F = final[s]
  OBVIOUS
<1>7. StoreIs(s, B, G, F)
  <2>1. staged = [t \in Slots |-> staged[t]] /\ final = [t \in Slots |-> final[t]]
    BY DEF SlotInv, Tables
  <2>2. QED
    BY <1>1, <1>4, <1>5, <1>6, <2>1 DEF StoreIs
<1>8. Stored(s, B, G, F) /\ B # None
  BY <1>2, <1>3, <1>4, <1>5, <1>6, BundleStored DEF SlotOk
<1>9. bundle'[s] = B
  BY <1>7, StoreTables DEF StoreNow
<1>10. CASE Become(a, [To(a, "restage") EXCEPT !.bytes = bundle'[Slot(a)]])
  <2>1. PICK j : j = [To(a, "restage") EXCEPT !.bytes = B]
    OBVIOUS
  <2>2. Become(a, j)
    BY <1>4, <1>9, <1>10, <2>1
  <2>3. JobIs(To(a, "restage"), "restage", Slot(a), job[a].bytes, job[a].manifest, job[a].fence)
    BY <1>2, ToJob
  <2>4. JobIs(j, "restage", Slot(a), B, job[a].manifest, job[a].fence)
    BY <2>1, <2>3, JobColumn
  <2>5. IsJob(j) /\ j.at = "restage" /\ j.slot = s /\ j.bytes = B /\ j.fence = 0
    BY <1>3, <1>4, <2>4 DEF JobIs
  <2>6. Carries(j)' /\ j.at \notin Dispatching
    BY <1>8, <1>9, <2>5 DEF Carries, Early, Publishing, Copied, Dispatching
  <2>7. QED
    BY <1>1, <1>7, <1>8, <2>2, <2>5, <2>6, StoreMoves
<1>11. CASE Become(a, To(a, "done"))
  <2>1. PICK j : j = To(a, "done")
    OBVIOUS
  <2>2. Fine(a, j) /\ j.at = "done"
    BY <1>2, <2>1, FineTo, ToJob DEF JobIs
  <2>3. Carries(j)' /\ j.slot = s /\ j.at \notin Dispatching
    BY <1>4, <2>2, PlainOn DEF Fine
  <2>4. QED
    BY <1>1, <1>7, <1>8, <1>11, <2>1, <2>3, StoreMoves
<1> QED
  BY <1>10, <1>11 DEF PreserveFetched

\* The attempt goes on to a step that needs nothing, or ends.
LEMMA StorePlain ==
  ASSUME SlotInv, NEW a \in Attempts, IsJob(job[a]), Slot(a) \in Slots,
         NEW B, NEW G, NEW F, StoreIs(Slot(a), B, G, F), Stored(Slot(a), B, G, F),
         UNCHANGED <<plan, row, books, outputs, stopped>>,
         NEW step, Go(a, step), step \in Plain \cup {"block_publication"}, step \in Plain => job[a].fence = 0
  PROVE  SlotInv' /\ Quiet(a)
<1>1. PICK s \in Slots : s = Slot(a)
  OBVIOUS
<1>2. PICK j : j = To(a, step)
  OBVIOUS
<1>3. Become(a, j) /\ Fine(a, j)
  BY <1>2, FineTo DEF Go
<1>4. j.at = step
  <2>1. step # "done"
    BY DEF Plain
  <2>2. JobIs(To(a, step), step, Slot(a), job[a].bytes, job[a].manifest, job[a].fence)
    BY <2>1, ToJob
  <2>3. QED
    BY <1>2, <2>2 DEF JobIs
<1>5. Carries(j)' /\ j.slot = s /\ j.at \notin Dispatching
  BY <1>1, <1>3, <1>4, PlainOn DEF Fine
<1> QED
  BY <1>1, <1>3, <1>5, StoreMoves

\* A store that does not change.
LEMMA StoreSame ==
  ASSUME SlotInv, NEW s \in Slots, UNCHANGED store
  PROVE  StoreIs(s, bundle[s], staged[s], final[s]) /\ Stored(s, bundle[s], staged[s], final[s])
<1>1. /\ bundle = [t \in Slots |-> bundle[t]] /\ staged = [t \in Slots |-> staged[t]]
      /\ final = [t \in Slots |-> final[t]]
  BY DEF SlotInv, Tables
<1>2. StoreIs(s, bundle[s], staged[s], final[s])
  BY <1>1 DEF StoreIs, store
<1>3. Objects(s)
  BY DEF SlotInv, SlotOk
<1> QED
  BY <1>2, <1>3 DEF Stored, Objects

LEMMA PreserveKeeps ==
  ASSUME SlotInv, NEW a \in Attempts, Preserve(a), UNCHANGED plan
  PROVE  SlotInv' /\ Quiet(a)
<1> DEFINE failed == IF job[a].verdict = "passed" THEN "block_provider" ELSE "block_staging"
<1>1. /\ job[a].at = "preserve" /\ UNCHANGED <<plan, row, books, outputs, stopped>>
      /\ UNCHANGED <<staged, final>>
  BY DEF Preserve, At, history
<1>2. /\ IsJob(job[a]) /\ Slot(a) \in Slots /\ SlotOk(Slot(a))
      /\ Suits("preserve", Slot(a), job[a].bytes, job[a].manifest, job[a].fence)
  BY <1>1, Working
<1>3. job[a].bytes \in Outputs /\ job[a].fence = 0
  BY <1>2 DEF Suits
<1>4. failed \in Plain
  BY DEF Plain
<1>5. CASE bundle' = [bundle EXCEPT ![Slot(a)] = Preserved(Slot(a), job[a].bytes)]
  <2>1. PICK s \in Slots : s = Slot(a)
    BY <1>2
  <2>2. PICK B : B = Preserved(s, job[a].bytes)
    OBVIOUS
  <2>3. PICK G, F : G = staged[s] /\ F = final[s]
    OBVIOUS
  <2>4. StoreIs(s, B, G, F)
    <3>1. staged = [t \in Slots |-> staged[t]] /\ final = [t \in Slots |-> final[t]]
      BY DEF SlotInv, Tables
    <3>2. QED
      BY <1>1, <1>5, <2>1, <2>2, <2>3, <3>1 DEF StoreIs
  <2>5. Stored(s, B, G, F) /\ B # None
    BY <1>2, <1>3, <2>1, <2>2, <2>3, BundleStored DEF SlotOk
  <2>6. bundle'[s] = B
    BY <2>4, StoreTables DEF StoreNow
  <2>7. CASE bundle'[Slot(a)] = job[a].bytes /\ Go(a, "prepare")
    <3>1. PICK j : j = To(a, "prepare")
      OBVIOUS
    <3>2. JobIs(j, "prepare", Slot(a), job[a].bytes, job[a].manifest, job[a].fence)
      BY <1>2, <3>1, ToJob
    <3>3. IsJob(j) /\ j.at = "prepare" /\ j.slot = s /\ j.bytes = B /\ j.fence = 0
      BY <1>3, <2>1, <2>6, <2>7, <3>2 DEF JobIs
    <3>4. Carries(j)' /\ j.at \notin Dispatching
      BY <2>5, <2>6, <3>3 DEF Carries, Early, Publishing, Copied, Dispatching
    <3>5. Become(a, j)
      BY <2>7, <3>1 DEF Go
    <3>6. QED
      BY <1>1, <2>4, <2>5, <3>3, <3>4, <3>5, StoreMoves
  <2>8. CASE Go(a, failed)
    BY <1>1, <1>2, <1>3, <1>4, <2>1, <2>4, <2>5, <2>8, StorePlain
  <2>9. QED
    BY <1>5, <2>7, <2>8 DEF Preserve, Plain
<1>6. CASE UNCHANGED bundle /\ Go(a, failed)
  <2>1. UNCHANGED store
    BY <1>1, <1>6 DEF store
  <2> HIDE DEF failed
  <2>2. QED
    BY <1>1, <1>2, <1>3, <1>4, <1>6, <2>1, StoreSame, StorePlain
<1> QED
  BY <1>5, <1>6 DEF Preserve

LEMMA StageKeeps ==
  ASSUME SlotInv, NEW a \in Attempts, Stage(a), UNCHANGED plan
  PROVE  SlotInv' /\ Quiet(a)
<1>1. /\ job[a].at = "stage" /\ UNCHANGED <<plan, row, books, outputs, stopped>>
      /\ UNCHANGED <<bundle, final>>
  BY DEF Stage, At, history
<1>2. /\ IsJob(job[a]) /\ Slot(a) \in Slots /\ SlotOk(Slot(a))
      /\ Suits("stage", Slot(a), job[a].bytes, job[a].manifest, job[a].fence)
  BY <1>1, Working
<1>3. /\ job[a].fence = 0 /\ job[a].bytes \in {None, bundle[Slot(a)]}
      /\ job[a].manifest = bundle[Slot(a)] /\ bundle[Slot(a)] # None
  BY <1>2 DEF Suits
<1>4. CASE /\ staged' = [staged EXCEPT ![Slot(a)] = staged[Slot(a)] \cup {bundle[Slot(a)]}]
           /\ Go(a, "commit_staged")
  <2>1. PICK s \in Slots : s = Slot(a)
    BY <1>2
  <2>2. PICK B, G, F : B = bundle[s] /\ G = staged[s] \cup {bundle[s]} /\ F = final[s]
    OBVIOUS
  <2>3. StoreIs(s, B, G, F)
    <3>1. bundle = [t \in Slots |-> bundle[t]] /\ final = [t \in Slots |-> final[t]]
      BY DEF SlotInv, Tables
    <3>2. QED
      BY <1>1, <1>4, <2>1, <2>2, <3>1 DEF StoreIs
  <2>4. Stored(s, B, G, F)
    BY <1>2, <1>3, <2>1, <2>2 DEF SlotOk, Objects, Stored
  <2>5. bundle'[s] = B /\ staged'[s] = G
    <3>1. StoreNow(s, B, G, F)
      BY <2>3, StoreTables
    <3>2. QED
      BY <3>1 DEF StoreNow
  <2>6. PICK j : j = To(a, "commit_staged")
    OBVIOUS
  <2>7. JobIs(j, "commit_staged", Slot(a), job[a].bytes, job[a].manifest, job[a].fence)
    BY <1>2, <2>6, ToJob
  <2>8. IsJob(j) /\ j.at = "commit_staged" /\ j.slot = s /\ j.bytes \in {None, B} /\ j.manifest = B /\ j.fence = 0
    BY <1>3, <2>1, <2>2, <2>7 DEF JobIs
  <2>9. B # None /\ B \in G
    BY <1>3, <2>1, <2>2
  <2>10. Carries(j)' /\ j.at \notin Dispatching
    BY <2>5, <2>8, <2>9 DEF Carries, Early, Publishing, Copied, Dispatching
  <2>11. Become(a, j)
    BY <1>4, <2>6 DEF Go
  <2>12. QED
    BY <1>1, <2>3, <2>4, <2>8, <2>10, <2>11, StoreMoves
<1>5. CASE UNCHANGED staged /\ Go(a, "block_staging")
  <2>1. UNCHANGED store /\ "block_staging" \in Plain
    BY <1>1, <1>5 DEF store, Plain
  <2>2. QED
    BY <1>1, <1>2, <1>3, <1>5, <2>1, StoreSame, StorePlain
<1> QED
  BY <1>3, <1>4, <1>5 DEF Stage

LEMMA CopyKeeps ==
  ASSUME SlotInv, NEW a \in Attempts, Copy(a), UNCHANGED plan
  PROVE  SlotInv' /\ Quiet(a)
<1>1. /\ job[a].at = "copy" /\ UNCHANGED <<plan, row, books, outputs, stopped>>
      /\ UNCHANGED <<bundle, staged>>
  BY DEF Copy, At, history
<1>2. /\ IsJob(job[a]) /\ Slot(a) \in Slots /\ SlotOk(Slot(a))
      /\ Suits("copy", Slot(a), job[a].bytes, job[a].manifest, job[a].fence)
  BY <1>1, Working
<1>3. job[a].manifest \in staged[Slot(a)]
  BY <1>2 DEF Suits, Publishing
<1>4. CASE /\ final' = [final EXCEPT ![Slot(a)] = final[Slot(a)] \cup {job[a].manifest}]
           /\ Go(a, "renew_after")
  <2>1. PICK s \in Slots : s = Slot(a)
    BY <1>2
  <2>2. PICK B, G, F : B = bundle[s] /\ G = staged[s] /\ F = final[s] \cup {job[a].manifest}
    OBVIOUS
  <2>3. StoreIs(s, B, G, F)
    <3>1. bundle = [t \in Slots |-> bundle[t]] /\ staged = [t \in Slots |-> staged[t]]
      BY DEF SlotInv, Tables
    <3>2. QED
      BY <1>1, <1>4, <2>1, <2>2, <3>1 DEF StoreIs
  <2>4. Stored(s, B, G, F)
    <3>1. job[a].manifest = bundle[s] /\ bundle[s] # None
      BY <1>2, <1>3, <2>1 DEF SlotOk, Objects
    <3>2. QED
      BY <1>2, <2>1, <2>2, <3>1 DEF SlotOk, Objects, Stored
  <2>5. staged'[s] = G /\ final'[s] = F
    <3>1. StoreNow(s, B, G, F)
      BY <2>3, StoreTables
    <3>2. QED
      BY <3>1 DEF StoreNow
  <2>6. PICK j : j = To(a, "renew_after")
    OBVIOUS
  <2>7. JobIs(j, "renew_after", Slot(a), job[a].bytes, job[a].manifest, job[a].fence)
    BY <1>2, <2>6, ToJob
  <2>8. IsJob(j) /\ j.at = "renew_after" /\ j.slot = s /\ j.manifest \in G /\ j.manifest \in F
    BY <1>3, <2>1, <2>2, <2>7 DEF JobIs
  <2>9. Carries(j)' /\ j.at \notin Dispatching
    BY <2>5, <2>8 DEF Carries, Early, Publishing, Copied, Dispatching
  <2>10. Become(a, j)
    BY <1>4, <2>6 DEF Go
  <2>11. QED
    BY <1>1, <2>3, <2>4, <2>8, <2>9, <2>10, StoreMoves
<1>5. CASE UNCHANGED final /\ Go(a, "block_publication")
  <2>1. UNCHANGED store /\ "block_publication" \notin Plain
    BY <1>1, <1>5 DEF store, Plain
  <2>2. QED
    BY <1>1, <1>2, <1>5, <2>1, StoreSame, StorePlain
<1> QED
  BY <1>4, <1>5 DEF Copy

LEMMA LeaseExpiresKeeps ==
  ASSUME SlotInv, NEW s \in Slots, LeaseExpires(s), UNCHANGED plan
  PROVE  SlotInv'
<1>1. PICK r : r = [row[s] EXCEPT !.live = FALSE]
  OBVIOUS
<1>2. UNCHANGED <<plan, books, store, job, outputs, stopped>> /\ row' = [row EXCEPT ![s] = r]
  BY <1>1 DEF LeaseExpires, history
<1>3. SlotOk(s)
  BY DEF SlotInv
<1>4. RowIs(r, row[s].phase, row[s].from, row[s].budget, row[s].manifest, row[s].final, row[s].published)
  <2>1. RowIs(row[s], row[s].phase, row[s].from, row[s].budget, row[s].manifest, row[s].final, row[s].published)
    BY <1>3 DEF SlotOk, RowFits, RowIs
  <2>2. QED
    BY <1>1, <2>1, RowColumn
<1>5. /\ row' = [t \in Slots |-> row'[t]] /\ row'[s] = r
      /\ \A t \in Slots \ {s} : row'[t] = row[t]
  <2>1. row = [t \in Slots |-> row[t]]
    BY DEF SlotInv, Tables
  <2>2. QED
    BY <1>2, <2>1
<1>6. BudgetBacked'
  <2>1. Owes(s, r) = Owes(s, row[s])
    BY <1>4 DEF RowIs, Owes
  <2>2. Booked(s, r, books)
    BY <2>1, SameBooks
  <2>3. QED
    BY <1>2, <2>2, BooksMove
<1>7. Tables'
  BY <1>2, <1>5 DEF SlotInv, Tables, store
<1>8. IsRow(row'[s]) /\ row'[s].phase = row[s].phase /\ row'[s].from = row[s].from
      /\ row'[s].budget = row[s].budget /\ row'[s].manifest = row[s].manifest
      /\ row'[s].final = row[s].final /\ row'[s].published = row[s].published
  BY <1>4, <1>5 DEF RowIs
<1>9. SlotOk(s)'
  <2>1. RowFits(row[s])'
    <3>1. RowFits(r)
      BY <1>3, <1>4 DEF SlotOk, RowFits, RowIs
    <3>2. QED
      BY <1>5, <3>1, SMT DEF RowFits, IsRow
  <2>2. Generated(s, row[s])' /\ Stays(s, row[s])'
    BY <1>2, <1>3, <1>8 DEF SlotOk, Generated, Stays
  <2>3. Evidence(s, row[s])'
    BY <1>2, <1>3, <1>8 DEF SlotOk, Evidence, Reached, store
  <2>4. Objects(s)'
    BY <1>2, <1>3 DEF SlotOk, Objects, store
  <2>5. QED
    BY <2>1, <2>2, <2>3, <2>4 DEF SlotOk
<1>10. Elsewhere(s) /\ Grows
  BY <1>2, <1>5 DEF Elsewhere, Grows, store
<1>11. \A t \in Slots : SlotOk(t)'
  BY <1>9, <1>10, OthersKeep DEF SlotInv
<1>12. ASSUME NEW b \in Attempts
       PROVE  AttemptOk(b)'
  <2>1. Carries(job[b]) /\ (Dispatches(b) => Waiting(job[b].slot)) /\ job'[b] = job[b]
    BY <1>2 DEF SlotInv, AttemptOk
  <2>2. Carries(job[b])'
    <3>1. PICK j : j = job[b]
      OBVIOUS
    <3>2. Carries(j)'
      BY <1>10, <2>1, <3>1, CarriesOn
    <3>3. QED
      BY <2>1, <3>1, <3>2 DEF Carries
  <2>3. ASSUME Dispatches(b)'
        PROVE  Waiting(job[b].slot)'
    <3>1. PICK t \in Slots : t = job[b].slot
      BY <2>1, <2>3 DEF Carries, Dispatches, Dispatching
    <3>2. Waiting(t)
      BY <2>1, <2>3, <3>1 DEF Dispatches
    <3>3. row'[t].phase = row[t].phase /\ row'[t].budget = row[t].budget /\ outputs'[t] = outputs[t]
      BY <1>2, <1>5, <1>8, <3>1
    <3>4. QED
      BY <2>1, <3>1, <3>2, <3>3 DEF Waiting
  <2>4. QED
    BY <2>2, <2>3 DEF AttemptOk
<1>13. \A b, c \in Attempts : Dispatches(b)' /\ Dispatches(c)' /\ job'[b].slot = job'[c].slot => b = c
  BY <1>2 DEF SlotInv, Dispatches
<1> QED
  BY <1>6, <1>7, <1>11, <1>12, <1>13 DEF SlotInv

-----------------------------------------------------------------------------
(* The invariant holds *)

LEMMA SlotInvInit == SlotInit => SlotInv
<1> SUFFICES ASSUME SlotInit PROVE SlotInv
  OBVIOUS
<1> DEFINE j == Job("new", CHOOSE s \in Slots : TRUE, "execute")
<1>1. /\ row = [s \in Slots |-> NoRow] /\ books = [reserved |-> 0, committed |-> 0]
      /\ bundle = [s \in Slots |-> None] /\ staged = [s \in Slots |-> {}] /\ final = [s \in Slots |-> {}]
      /\ outputs = [s \in Slots |-> 0] /\ stopped = {} /\ plan \in Plans
      /\ job = [a \in Attempts |-> j]
  BY DEF SlotInit
<1>2. PICK s0 : s0 = CHOOSE s \in Slots : TRUE
  OBVIOUS
<1>3. JobIs(j, "new", s0, None, None, 0)
  BY <1>2, NewJob
<1> HIDE DEF j
<1>4. books.reserved = 0 /\ books.committed = 0
  BY <1>1
<1>5. Tables
  <2>1. 0 \in Int
    BY SMT
  <2>2. QED
    BY <1>1, <1>4, <2>1 DEF Tables
<1>6. BudgetBacked
  <2>1. {s \in Slots : row[s].budget \in {"reserved", "unknown"}} = {}
    BY <1>1 DEF NoRow
  <2>2. 0 + 0 <= Limit
    BY QuoteAssumption, SMT
  <2>3. QED
    BY <1>4, <2>1, <2>2, SumEmpty DEF BudgetBacked
<1>7. ASSUME NEW s \in Slots
      PROVE  SlotOk(s)
  <2>1. row[s] = NoRow /\ bundle[s] = None /\ staged[s] = {} /\ final[s] = {} /\ outputs[s] = 0 /\ s \notin stopped
    BY <1>1
  <2>2. RowFits(NoRow)
    BY SMT DEF RowFits, IsRow, NoRow
  <2>3. Generated(s, row[s]) /\ Stays(s, row[s])
    BY <2>1, SMT DEF Generated, Stays
  <2>4. Evidence(s, row[s]) /\ Objects(s)
    <3>1. /\ row[s].phase = "none" /\ row[s].manifest = None /\ row[s].final = None
          /\ row[s].published = None
      BY <2>1, SMT DEF NoRow
    <3>2. Reached(row[s]) = "none"
      BY <3>1 DEF Reached
    <3>3. QED
      BY <2>1, <3>1, <3>2 DEF Evidence, Objects, Content, StagedPhases
  <2>5. QED
    BY <2>1, <2>2, <2>3, <2>4 DEF SlotOk
<1>8. ASSUME NEW a \in Attempts
      PROVE  AttemptOk(a) /\ ~Dispatches(a)
  <2>1. job[a] = j /\ IsJob(j) /\ j.at = "new" /\ j.fence = 0
    BY <1>1, <1>3 DEF JobIs
  <2>2. Carries(j)
    BY <2>1 DEF Carries, Early, Publishing, Copied
  <2>3. ~Dispatches(a)
    BY <2>1 DEF Dispatches, Dispatching
  <2>4. QED
    BY <2>1, <2>2, <2>3 DEF AttemptOk
<1> QED
  BY <1>5, <1>6, <1>7, <1>8 DEF SlotInv

LEMMA StepInv ==
  ASSUME SlotInv, NEW a \in Attempts, Step(a), UNCHANGED plan
  PROVE  SlotInv' /\ Quiet(a)
<1>1. CASE Stop(a) \/ ReadExecute(a) \/ ReadRecover(a) \/ ReadPersist(a) \/ ReadFact(a)
  BY <1>1, StopKeeps, ReadExecuteKeeps, ReadRecoverKeeps, ReadPersistKeeps, ReadFactKeeps
<1>2. CASE RecoverBundle(a) \/ Fetch(a) \/ PreserveFetched(a) \/ Restage(a) \/ Reserve(a)
  BY <1>2, RecoverBundleKeeps, FetchKeeps, PreserveFetchedKeeps, RestageKeeps, ReserveKeeps
<1>3. CASE ReserveAgain(a) \/ Generate(a) \/ Prove(a) \/ Answer(a) \/ GenerateFails(a)
  BY <1>3, ReserveAgainKeeps, GenerateKeeps, ProveKeeps, AnswerKeeps, GenerateFailsKeeps
<1>4. CASE Settle(a) \/ MarkUnknown(a) \/ NotDispatched(a) \/ Preserve(a) \/ RecoverClaimed(a)
  BY <1>4, SettleKeeps, MarkUnknownKeeps, NotDispatchedKeeps, PreserveKeeps, RecoverClaimedKeeps
<1>5. CASE Prepare(a) \/ Stage(a) \/ CommitStaged(a) \/ Reread(a) \/ Claim(a)
  BY <1>5, PrepareKeeps, StageKeeps, CommitStagedKeeps, RereadKeeps, ClaimKeeps
<1>6. CASE RereadClaim(a) \/ Renew(a) \/ Copy(a) \/ Complete(a) \/ Blocks(a)
  BY <1>6, RereadClaimKeeps, RenewKeeps, CopyKeeps, CompleteKeeps, BlocksKeep
<1>7. CASE Restore(a) \/ Missing(a)
  BY <1>7, RestoreKeeps, MissingKeeps
<1> QED
  BY <1>1, <1>2, <1>3, <1>4, <1>5, <1>6, <1>7 DEF Step

LEMMA SlotInvNext == SlotInv /\ [SlotNext]_slotVars => SlotInv'
<1> SUFFICES ASSUME SlotInv, [SlotNext]_slotVars PROVE SlotInv'
  OBVIOUS
<1>1. ASSUME NEW a \in Attempts, Step(a), UNCHANGED plan
      PROVE  SlotInv'
  BY <1>1, StepInv
<1>2. ASSUME NEW a \in Attempts, NEW s \in Slots, NEW kind \in Kinds, Start(a, s, kind), UNCHANGED plan
      PROVE  SlotInv'
  BY <1>2, StartKeeps
<1>3. ASSUME NEW s \in Slots, LeaseExpires(s), UNCHANGED plan
      PROVE  SlotInv'
  BY <1>3, LeaseExpiresKeeps
<1>4. CASE UNCHANGED slotVars
  <2>1. UNCHANGED <<plan, row, books, bundle, staged, final, job, outputs, stopped>>
    BY <1>4 DEF slotVars, store, history
  <2>2. Tables' /\ BudgetBacked'
    BY <2>1 DEF SlotInv, Tables, BudgetBacked
  <2>3. \A s \in Slots : SlotOk(s)'
    BY <2>1, ZenonT(40) DEF SlotInv, SlotOk, RowFits, IsRow, Generated, Stays, Evidence, Reached, Objects
  <2>4. \A a \in Attempts : AttemptOk(a)'
    BY <2>1, ZenonT(40) DEF SlotInv, AttemptOk, Carries, IsJob, Dispatches, Waiting
  <2>5. QED
    BY <2>1, <2>2, <2>3, <2>4 DEF SlotInv, Dispatches
<1> QED
  BY <1>1, <1>2, <1>3, <1>4 DEF SlotNext

\* The inductive invariant: rows fit together with the objects, the attempts and
\* the provider's history.
THEOREM SlotInvariant == SlotSpec => []SlotInv
BY SlotInvInit, SlotInvNext, PTL DEF SlotSpec

\* The provider generates at most once for a slot, over all retries, recoveries
\* and redrives of ExecuteSlotV3 and RecoverEffectV3.
THEOREM GeneratesOnce == SlotSpec => []OneGeneration
<1>1. SlotInv => OneGeneration
  <2>1. ASSUME SlotInv, NEW s \in Slots
        PROVE  outputs[s] <= 1
    <3>1. Generated(s, row[s])
      BY <2>1 DEF SlotInv, SlotOk
    <3>2. QED
      BY <3>1, SMT DEF Generated
  <2>2. QED
    BY <2>1, SMT DEF OneGeneration
<1> QED
  BY <1>1, SlotInvariant, PTL

\* Usage that may have been incurred is never given back.
THEOREM GenerationStaysHeld == SlotSpec => []GeneratedIsHeld
<1>1. SlotInv => GeneratedIsHeld
  <2>1. ASSUME SlotInv, NEW s \in Slots, outputs[s] > 0
        PROVE  row[s].budget \in {"reserved", "unknown", "committed"}
    <3>1. Generated(s, row[s])
      BY <2>1 DEF SlotInv, SlotOk
    <3>2. outputs[s] = 1
      BY <2>1, <3>1, SMT DEF Generated
    <3>3. QED
      BY <3>1, <3>2 DEF Generated, Held
  <2>2. QED
    BY <2>1, SMT DEF GeneratedIsHeld
<1> QED
  BY <1>1, SlotInvariant, PTL

\* The run's reserved usage is what its slots hold, and stays within the limit
\* together with the committed usage (BudgetPolicy, ReserveSlotProviderV3).
THEOREM BudgetBalances == SlotSpec => []BudgetBacked
<1>1. SlotInv => BudgetBacked
  BY DEF SlotInv
<1> QED
  BY <1>1, SlotInvariant, PTL

\* Row, staging area, published prefix and published result have one content.
THEOREM ContentIsOne == SlotSpec => []OneContent
<1>1. SlotInv => OneContent
  BY DEF SlotInv, SlotOk, Evidence, Objects, OneContent
<1> QED
  BY <1>1, SlotInvariant, PTL

\* A row never runs ahead of the object store.
THEOREM EvidenceIsStored == SlotSpec => []EvidenceStored
<1>1. SlotInv => EvidenceStored
  BY DEF SlotInv, SlotOk, Evidence, Reached, EvidenceStored
<1> QED
  BY <1>1, SlotInvariant, PTL

-----------------------------------------------------------------------------
(* What a step may never do *)

\* A step of attempt b moves b and no other attempt.
LEMMA MovesItself ==
  ASSUME SlotInv, NEW b \in Attempts, Step(b)
  PROVE  \E j : Become(b, j)
<1>1. CASE Stop(b) \/ ReadExecute(b) \/ ReadRecover(b) \/ ReadPersist(b) \/ ReadFact(b)
  BY <1>1 DEF Stop, ReadExecute, ReadRecover, ReadPersist, ReadFact, Go
<1>2. CASE RecoverBundle(b) \/ Fetch(b) \/ PreserveFetched(b) \/ ReserveAgain(b) \/ Generate(b)
  BY <1>2 DEF RecoverBundle, Fetch, PreserveFetched, ReserveAgain, Generate
<1>3. CASE Restage(b) \/ Reserve(b)
  BY <1>3 DEF Restage, Reserve, Transact
<1>4. CASE Prove(b)
  <2>1. job = [a \in Attempts |-> job[a]] /\ job' = job
    BY <1>4 DEF SlotInv, Tables, Prove
  <2>2. Become(b, job[b])
    BY <2>1 DEF Become
  <2>3. QED
    BY <2>2
<1>5. CASE Answer(b) \/ GenerateFails(b) \/ Preserve(b) \/ RecoverClaimed(b) \/ Stage(b)
  BY <1>5 DEF Answer, GenerateFails, Preserve, RecoverClaimed, Stage, Go
<1>6. CASE Settle(b) \/ MarkUnknown(b) \/ NotDispatched(b) \/ Prepare(b) \/ CommitStaged(b)
  BY <1>6 DEF Settle, MarkUnknown, NotDispatched, Prepare, CommitStaged, Transact
<1>7. CASE Reread(b) \/ RereadClaim(b) \/ Renew(b) \/ Copy(b)
  BY <1>7 DEF Reread, RereadClaim, Renew, Copy, Go
<1>8. CASE Claim(b) \/ Complete(b) \/ Restore(b) \/ Missing(b)
  BY <1>8 DEF Claim, Complete, Restore, Missing, Transact
<1>9. CASE Blocks(b)
  BY <1>9 DEF Blocks, Block, Transact
<1> QED
  BY <1>1, <1>2, <1>3, <1>4, <1>5, <1>6, <1>7, <1>8, <1>9 DEF Step

LEMMA WhoMoves ==
  ASSUME SlotInv, SlotNext, NEW a \in Attempts, job'[a] # job[a]
  PROVE  (Step(a) /\ UNCHANGED plan) \/ (job'[a].at = "read" /\ row' = row)
<1>1. ASSUME NEW b \in Attempts, Step(b), UNCHANGED plan
      PROVE  Step(a) /\ UNCHANGED plan
  <2>1. PICK j : Become(b, j)
    BY <1>1, MovesItself
  <2>2. b = a
    BY <2>1, BecomesJob DEF SlotInv
  <2>3. QED
    BY <1>1, <2>2
<1>2. ASSUME NEW b \in Attempts, NEW s \in Slots, NEW kind \in Kinds, Start(b, s, kind)
      PROVE  job'[a].at = "read" /\ row' = row
  <2>1. Become(b, Job("read", s, kind)) /\ row' = row
    BY <1>2 DEF Start
  <2>2. b = a /\ job'[a] = Job("read", s, kind)
    BY <2>1, BecomesJob DEF SlotInv
  <2>3. Job("read", s, kind).at = "read"
    BY SMT DEF Job
  <2>4. QED
    BY <2>1, <2>2, <2>3
<1>3. ASSUME NEW s \in Slots, LeaseExpires(s)
      PROVE  FALSE
  BY <1>3 DEF LeaseExpires
<1> QED
  BY <1>1, <1>2, <1>3 DEF SlotNext

\* The steps of an attempt with a fence.
Leased == {"renew", "copy", "renew_after", "complete", "block_publication"}

\* What an attempt does with a fence that the row does not have any more.
LEMMA StaleStep ==
  ASSUME SlotInv, NEW a \in Attempts, job[a].fence # 0, job[a].fence # Row(a).fence, Step(a)
  PROVE  row' = row
<1>1. job[a].at \in Leased
  BY DEF SlotInv, AttemptOk, Carries, Leased
<1>2. ~Holds(a, Row(a))
  BY DEF Holds
<1>3. /\ ~ReadExecute(a) /\ ~ReadRecover(a) /\ ~ReadPersist(a) /\ ~ReadFact(a) /\ ~RecoverBundle(a)
      /\ ~Fetch(a) /\ ~PreserveFetched(a) /\ ~Restage(a) /\ ~Reserve(a) /\ ~ReserveAgain(a)
  BY <1>1 DEF Leased, At, ReadExecute, ReadRecover, ReadPersist, ReadFact, RecoverBundle, Fetch,
              PreserveFetched, Restage, Reserve, ReserveAgain
<1>4. /\ ~Generate(a) /\ ~Prove(a) /\ ~Answer(a) /\ ~GenerateFails(a) /\ ~Settle(a) /\ ~MarkUnknown(a)
      /\ ~NotDispatched(a) /\ ~Preserve(a) /\ ~RecoverClaimed(a) /\ ~Prepare(a)
  BY <1>1 DEF Leased, At, Generate, Prove, Answer, GenerateFails, Settle, MarkUnknown, NotDispatched,
              Preserve, RecoverClaimed, Prepare
<1>5. /\ ~Stage(a) /\ ~CommitStaged(a) /\ ~Reread(a) /\ ~Claim(a) /\ ~RereadClaim(a) /\ ~Restore(a)
      /\ ~Missing(a) /\ ~Renew(a)
  BY <1>1, <1>2 DEF Leased, At, Stage, CommitStaged, Reread, Claim, RereadClaim, Restore, Missing, Renew
<1>6. Stop(a) \/ Copy(a) => row' = row
  BY DEF Stop, Copy
<1>7. Complete(a) => row' = row
  BY <1>2 DEF Complete, Transact
<1>8. ASSUME NEW step, NEW phase, Block(a, step, phase),
             step \in Leased => phase = "publication_unknown"
      PROVE  row' = row
  <2>1. phase = "publication_unknown"
    BY <1>1, <1>8 DEF Block, At
  <2>2. QED
    BY <1>2, <1>8, <2>1 DEF Block, Transact
<1>9. Blocks(a) => row' = row
  BY <1>8 DEF Blocks, Leased
<1> QED
  BY <1>3, <1>4, <1>5, <1>6, <1>7, <1>9 DEF Step

\* An attempt whose publication lease was taken over changes nothing any more:
\* completion and block compare the fence of the row with its own.
THEOREM StaleHolderStaysHarmless == SlotSpec => StaleHolderIsHarmless
<1>1. ASSUME SlotInv, [SlotNext]_slotVars
      PROVE  [\A a \in Attempts :
                job[a].fence # 0 /\ job[a].fence # Row(a).fence /\ job'[a] # job[a]
                  => row' = row]_slotVars
  <2>1. ASSUME SlotNext, NEW a \in Attempts, job[a].fence # 0, job[a].fence # Row(a).fence, job'[a] # job[a]
        PROVE  row' = row
    BY <1>1, <2>1, WhoMoves, StaleStep
  <2>2. QED
    BY <1>1, <2>1
<1> QED
  BY <1>1, SlotInvariant, PTL DEF SlotSpec, StaleHolderIsHarmless

\* A slot that was once blocked for recovery never reaches the provider again:
\* only ReserveSlotProviderV3 leads there, from phases that no redrive restores.
THEOREM StoppedStaysUndispatched == SlotSpec => StoppedIsNotDispatched
<1>1. ASSUME SlotInv, [SlotNext]_slotVars
      PROVE  [\A a \in Attempts :
                ~At(a, "generate") /\ job'[a].at = "generate" => Slot(a) \notin stopped]_slotVars
  <2>1. ASSUME SlotNext, NEW a \in Attempts, ~At(a, "generate"), job'[a].at = "generate"
        PROVE  Slot(a) \notin stopped
    <3>1. job'[a] # job[a]
      BY <2>1 DEF At
    <3>2. Step(a) /\ UNCHANGED plan
      BY <1>1, <2>1, <3>1, WhoMoves
    <3>3. Quiet(a)
      BY <1>1, <3>2, StepInv
    <3>4. QED
      BY <2>1, <3>3 DEF Quiet, At
  <2>2. QED
    BY <1>1, <2>1
<1> QED
  BY <1>1, SlotInvariant, PTL DEF SlotSpec, StoppedIsNotDispatched

=============================================================================
