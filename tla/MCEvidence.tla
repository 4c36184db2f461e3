----------------------------- MODULE MCEvidence -----------------------------
(* Journals that fill and are replayed, and what a reviewer makes of them.  *)
(* Three histories are about replay alone: an equivocation under a decision, *)
(* a claim that two verifiers judge differently, claims of matching and of  *)
(* doubled tasks.  Four are under review: receipts for and against one      *)
(* claim, by the submitters too; foreign events, a false receipt and a      *)
(* wrong decision; a claim whose task waits for a dependency that may turn   *)
(* out equivocal.  The loops of replay run by themselves on three graphs.    *)
EXTENDS EvidenceVerdict, ReplayLoop, TLC

CONSTANTS a, b, w1, w2, w3, v3, here, t1, t2, t3, c1, c3, e1, e3, e5, q1, q3, q5,
          s1, s2, sb, f3, fa, x3, x2, l2, d1,
          p1, p2, g0, g1, g2, h0, h1, h2, j0, j1, j2, r0, r1, u0, u1, u2, u3, x1, y1, d0, d2,
          m, n, o, k1, k2, k3, k4, k5, k6, missing

Event(actor, number, parents, body) ==
    [actor |-> actor, sequence |-> number, parents |-> parents, body |-> body]
Task(envelope, needs) ==
    [kind |-> "task", envelope |-> envelope, domain |-> "sums", operation |-> "sum",
     input |-> "x", predicate |-> "total", dependencies |-> needs]
Claim == [kind |-> "claim", domain |-> "sums", method |-> "sum", subject |-> "x",
          predicate |-> "total"]
Evidence(c, input) == [kind |-> "evidence", claim |-> c, input |-> input]
Request(c, e, verifier) ==
    [kind |-> "verification_request", claim |-> c, evidence |-> <<e>>, verifier |-> verifier]
Outcome(verdict) == [verdict |-> verdict, artifact |-> verdict]
Vouch(q, c, e, verifier, verdict) ==
    [kind |-> "verification", request |-> q, claim |-> c, evidence |-> <<e>>,
     verifier |-> verifier, result |-> Outcome(verdict)]
Receipt(q, e, verdict) == Vouch(q, c1, e, "sum", verdict)
Deciding(c, v, accepted, rejected) ==
    [kind |-> "decision", claims |-> {c}, verifications |-> {v},
     result |-> [accepted |-> accepted, rejected |-> rejected, unresolved |-> {}]]
Capability == [kind |-> "capability"]

\* The histories of replay alone.
Replayed ==
    \* Two tasks that say the same; a claim of none, of one and of both.
       p1 :> Event(a, 1, {}, Task("one", {}))
    @@ p2 :> Event(a, 9, {}, Task("other", {}))
    @@ g0 :> Event(a, 2, {}, Claim)
    @@ g1 :> Event(a, 3, {p1}, Claim)
    @@ g2 :> Event(a, 4, {p1, p2}, Claim)
    @@ h0 :> Event(a, 5, {g0}, Evidence(g0, "x"))
    @@ h1 :> Event(a, 6, {g1}, Evidence(g1, "x"))
    @@ h2 :> Event(a, 7, {g2}, Evidence(g2, "x"))
    @@ j0 :> Event(a, 8, {g0, h0}, Request(g0, h0, "sum"))
    @@ j1 :> Event(a, 10, {g1, h1}, Request(g1, h1, "sum"))
    @@ j2 :> Event(a, 11, {g0, h0}, Request(g0, h0, "other"))
    @@ r0 :> Event(w1, 1, {j0, g0, h0}, Vouch(j0, g0, h0, "sum", "SUPPORTED"))
    @@ r1 :> Event(w1, 1, {j1, g1, h1}, Vouch(j1, g1, h1, "sum", "SUPPORTED"))
    \* The second verifier refutes g0; w2 misreports the first on g0; w2 agrees
    \* on g1; v3 has no business in the domain.
    @@ u0 :> Event(w2, 1, {j2, g0, h0}, Vouch(j2, g0, h0, "other", "REFUTED"))
    @@ u1 :> Event(w2, 2, {j0, g0, h0}, Vouch(j0, g0, h0, "sum", "REFUTED"))
    @@ u2 :> Event(w2, 1, {j1, g1, h1}, Vouch(j1, g1, h1, "sum", "SUPPORTED"))
    @@ u3 :> Event(v3, 1, {j1, g1, h1}, Vouch(j1, g1, h1, "sum", "SUPPORTED"))
    \* w1 fills the slot of its receipt twice, and has an honest event.
    @@ x1 :> Event(w1, 1, {g1}, [kind |-> "challenge", claim |-> g1])
    @@ y1 :> Event(w1, 2, {}, Capability)
    @@ d0 :> Event(a, 12, {g0, r0}, Deciding(g0, r0, {g0}, {}))
    @@ d2 :> Event(a, 13, {g1, r1}, Deciding(g1, r1, {g1}, {}))

\* The histories under review.
Reviewed ==
       t1 :> Event(b, 1, {}, Task("first", {}))
    @@ c1 :> Event(a, 1, {t1}, Claim)
    @@ e1 :> Event(a, 2, {c1}, Evidence(c1, "x"))
    @@ q1 :> Event(a, 3, {c1, e1}, Request(c1, e1, "sum"))
    \* Evidence and request that get the claim refuted.
    @@ e3 :> Event(w3, 1, {c1}, Evidence(c1, "x"))
    @@ q3 :> Event(w3, 2, {c1, e3}, Request(c1, e3, "sum"))
    @@ s1 :> Event(w1, 1, {q1, c1, e1}, Receipt(q1, e1, "SUPPORTED"))
    @@ s2 :> Event(w2, 1, {q1, c1, e1}, Receipt(q1, e1, "SUPPORTED"))
    @@ sb :> Event(b, 2, {q1, c1, e1}, Receipt(q1, e1, "SUPPORTED"))
    @@ f3 :> Event(w3, 3, {q3, c1, e3}, Receipt(q3, e3, "REFUTED"))
    @@ fa :> Event(a, 4, {q3, c1, e3}, Receipt(q3, e3, "REFUTED"))
    @@ x3 :> Event(w3, 3, {}, Capability)
    \* Another input, another verifier, a result nobody gets, a wrong count.
    @@ e5 :> Event(a, 5, {c1}, Evidence(c1, "y"))
    @@ q5 :> Event(a, 6, {c1, e1}, Request(c1, e1, "other"))
    @@ l2 :> Event(w2, 2, {q1, c1, e1}, Receipt(q1, e1, "REFUTED"))
    @@ d1 :> Event(a, 7, {c1, s1}, Deciding(c1, s1, {}, {c1}))
    \* A task with a dependency, and the slot of that filled twice.
    @@ t2 :> Event(b, 3, {}, Task("second", {}))
    @@ x2 :> Event(b, 3, {}, Capability)
    @@ t3 :> Event(b, 4, {t2}, Task("third", {t2}))
    @@ c3 :> Event(a, 8, {t3}, Claim)

\* The graphs of the loops: k2 and k3 fill a slot; k4 has a poisoned and a
\* clean parent, k5 follows it; the parent of k6 never came.
Looped ==
       k1 :> Event(m, 1, {}, Capability)
    @@ k2 :> Event(n, 1, {k1}, Capability)
    @@ k3 :> Event(n, 1, {}, Capability)
    @@ k4 :> Event(o, 1, {k1, k2}, Capability)
    @@ k5 :> Event(o, 2, {k4}, Capability)
    @@ k6 :> Event(m, 2, {missing}, Capability)

MCev == Replayed @@ Reviewed @@ Looped

MCEvents == DOMAIN MCev

MCInputs == {{k1, k2, k3, k4, k5, k6}, {k1, k2, k4, k5, k6}, {k2, k3, k4, k5}}

MCResult ==
       <<"sum", g0, <<h0>>>> :> Outcome("SUPPORTED")
    @@ <<"sum", g1, <<h1>>>> :> Outcome("SUPPORTED")
    @@ <<"other", g0, <<h0>>>> :> Outcome("REFUTED")
    @@ <<"sum", c1, <<e1>>>> :> Outcome("SUPPORTED")
    @@ <<"sum", c1, <<e3>>>> :> Outcome("REFUTED")
    @@ <<"other", c1, <<e1>>>> :> Outcome("SUPPORTED")

MCAdmitted == {a, b, w1, w2, w3} \X {"sums"}

Review(t, envelope, c, pinned) ==
    [policy |-> here, task |-> t, claim |-> c,
     pins |-> [policy |-> here, task |-> envelope, claim |-> pinned]]

MCReviews ==
    {Review(t1, "first", c1, c1), Review(t3, "third", c3, c3), Review(t1, "first", c1, c3)}

From(held, coming) == [stored |-> held, arriving |-> coming]

Orphaned == From({}, {t2, x2, t3, c3})

MCOrphans == {From({t1, c1, e1, q1}, {s1, s2, sb, e5, q5, l2}), Orphaned}

MCHistories ==
    MCOrphans \cup
    {From({p1}, {g1, h1, j1, r1, x1, y1, u2, d2}),
     From({g0, h0}, {j0, j2, r0, u0, u1, d0}),
     From({}, {p1, p2, g1, g2, h2, h1, j1, u3}),
     From({t1, c1, e1, q1, e3, q3}, {s1, s2, f3, fa, x3}),
     From({t1, c1, e1, q1}, {s1, s2, l2, d1})}

-----------------------------------------------------------------------------
(* A behaviour is a journal that fills while no loop runs, or a run of the   *)
(* loops without a journal.                                                  *)

NoLoop ==
    /\ events = {} /\ todo = {} /\ poisoned = {} /\ admitted = {}
    /\ phase = "done"
    /\ changed = FALSE

NoJournal == arriving = {} /\ received = {} /\ quarantine = {} /\ ready = {}

MCInit ==
    \/ Init /\ NoLoop
    \/ LoopInit /\ NoJournal

MCNext ==
    \/ Next /\ UNCHANGED loopVars
    \/ LoopNext /\ UNCHANGED vars

MCSpec ==
    /\ MCInit /\ [][MCNext]_<<vars, loopVars>>
    /\ WF_loopVars(LoopNext)
=============================================================================
