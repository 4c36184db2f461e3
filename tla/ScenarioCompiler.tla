-------------------------- MODULE ScenarioCompiler --------------------------
(***************************************************************************)
(* compile(scenario, mutation): a request of a room is authorized, turned  *)
(* into a process, reduced, put into a block, observed by four nodes,      *)
(* judged by their agreement and by a quorum, replayed and reported        *)
(* (compile.ts, observe.ts, qlf.ts).  diffReality() compares two results.  *)
(* A digest is the record of what it is taken of.  What reduces a process  *)
(* is a parameter.                                                         *)
(***************************************************************************)
EXTENDS RhoProcess

CONSTANTS
    Null,           \* null
    Reducer(_)      \* reduce(), from a process to its execution

Scenarios == {"exchange-commit", "exchange-abort", "hello-rho", "cap-payment"}

Applies(m) ==
    CASE m = "drop-capability" -> Scenarios \ {"hello-rho"}
      [] m = "force-abort" -> {"exchange-commit"}
      [] m = "tamper-trace" -> Scenarios \ {"exchange-abort"}
      [] OTHER -> Scenarios

Mutations == {"none", "node-c-lied", "drop-capability", "force-abort", "dup-validator",
              "no-justification", "tamper-trace"}

\* The layers in the order of the pipeline.
Layers == <<"quantumos", "qlf", "rholang", "rspace", "block", "sentinel", "lattice",
            "verification">>
Rank(layer) == CHOOSE i \in DOMAIN Layers : Layers[i] = layer

-----------------------------------------------------------------------------
(* From the request to the block.                                           *)

Capability(s, m) ==
    IF s = "hello-rho" THEN "cap:room:write"
    ELSE IF m = "drop-capability" THEN Null ELSE "cap:exchange:bob:prepare"

IsExchange(s) == s \in {"exchange-commit", "exchange-abort"}
Aborts(s, m) == s = "exchange-abort" \/ (s = "exchange-commit" /\ m = "force-abort")

Process(s, m) ==
    IF s = "hello-rho" THEN HelloProc
    ELSE IF s = "cap-payment" THEN ExchangeProc(<<"authorize", "transfer">>)
    ELSE IF Aborts(s, m) THEN ExchangeProc(<<"deposit", "prepare", "abort">>)
    ELSE ExchangeProc(<<"deposit", "prepare", "prepareReceive", "commit", "commit">>)

ProposeBlock(height, shard, deploy, post) ==
    [height |-> height, shard |-> shard, post |-> post,
     hash |-> <<"block", height, shard, deploy, post>>]

\* The second block is the remote leg's.
Blocks(s, m, execution) ==
    LET deploy == Process(s, m) IN
    <<ProposeBlock(18492, IF IsExchange(s) THEN "shard-A" ELSE "root", deploy, execution.state)>>
    \o IF IsExchange(s) /\ ~Aborts(s, m)
       THEN <<ProposeBlock(8841, "shard-B", <<deploy, "_b">>, <<"state-b", execution.state>>)>>
       ELSE <<>>

\* Each COMM is a send and a receive; a request without authority is a send alone.
Certify(positive, negative) ==
    [positive |-> positive, negative |-> negative,
     gap |-> IF positive > negative THEN positive - negative ELSE negative - positive]
Balanced(qlf) == qlf.positive = qlf.negative

-----------------------------------------------------------------------------
(* What four nodes observe, and two judgements on it.                       *)

Nodes == <<"A", "B", "C", "D">>
Lie == <<"lie", "node-C">>

\* Mutant: an advertised identity is taken over without a mark.
ObserveBlockMutant(block, opts) ==
    [i \in DOMAIN Nodes |->
        [letter |-> Nodes[i], reachable |-> Nodes[i] # opts.unreachable, height |-> block.height,
         hash |-> IF Nodes[i] = opts.lie THEN Lie ELSE block.hash,
         justified |-> Nodes[i] # opts.unjustified, duplicate |-> FALSE]]

ObserveBlock(block, opts) ==
    [i \in DOMAIN Nodes |->
        [letter |-> Nodes[i], reachable |-> Nodes[i] # opts.unreachable, height |-> block.height,
         hash |-> IF Nodes[i] = opts.lie THEN Lie ELSE block.hash,
         justified |-> Nodes[i] # opts.unjustified, duplicate |-> Nodes[i] = opts.duplicate]]

\* The cross check measures against the first node that can be reached.
CrossNode(obs) ==
    LET reachable == {i \in DOMAIN obs : obs[i].reachable}
        common == IF reachable = {} THEN Null ELSE obs[Min(reachable)].hash
        agreeing == Cardinality({i \in reachable : obs[i].hash = common})
        agree == reachable # {} /\ agreeing = Cardinality(reachable)
    IN  [target |-> Len(obs), reachable |-> Cardinality(reachable), agreeing |-> agreeing,
         quorum |-> agreeing >= (Len(obs) * 2) \div 3 + 1,
         common |-> common, hashAgreement |-> agree,
         status |-> IF ~agree THEN "FAIL"
                    ELSE IF Cardinality(reachable) < Len(obs) THEN "WARN" ELSE "PASS"]

CasperStatus(obs) ==
    IF \E i \in DOMAIN obs : obs[i].reachable /\ (obs[i].duplicate \/ ~obs[i].justified)
    THEN "FAIL" ELSE "PASS"

\* What the votes that count, and a vote for something else, say of a block.
Certificates(votes, conflict) ==
    [prepared |-> votes >= 3, committed |-> votes >= 3, conflicting |-> conflict, votes |-> votes,
     status |-> IF votes >= 3 THEN "PASS" ELSE "FAIL"]

\* Mutant: a replica that reports another digest has its vote counted.
LatticeAnalyzeMutant(block, obs) ==
    Certificates(Cardinality({i \in DOMAIN obs : obs[i].reachable}),
                 \E i \in DOMAIN obs : obs[i].reachable /\ obs[i].hash # block.hash)

\* A replica that reports another digest for the same slot has both its votes
\* dropped, one that is unreachable casts none; 2f + 1 of four are a quorum.
LatticeAnalyze(block, obs) ==
    Certificates(Cardinality({i \in DOMAIN obs : obs[i].reachable /\ obs[i].hash = block.hash}),
                 \E i \in DOMAIN obs : obs[i].reachable /\ obs[i].hash # block.hash)

-----------------------------------------------------------------------------
(* The report.                                                              *)

Entry(id, layer, content) == [id |-> id, layer |-> layer, content |-> content]

\* What the envelopes are made of, in the order of the pipeline.
Entries(r) ==
    LET asked == <<Entry(<<"evt", r.scenario>>, "quantumos", r.capability),
                   Entry(<<"qlf", r.qlf>>, "qlf", r.qlf)>>
        ran == IF r.execution = Null THEN <<>>
               ELSE <<Entry(<<"rho", r.execution.rules>>, "rholang", r.execution.comms),
                      Entry(<<"trace", Len(r.execution.rules)>>, "rspace",
                            <<r.execution.rules, r.execution.state>>)>>
        seen == IF r.blocks = <<>> THEN <<>>
                ELSE <<Entry(<<"block", r.blocks[1].height>>, "block", r.blocks[1]),
                       Entry(<<"obs_set">>, "sentinel",
                             <<r.cross.agreeing, [i \in DOMAIN r.observations |->
                                  IF r.observations[i].reachable
                                  THEN r.observations[i].hash ELSE "UNAVAILABLE"]>>),
                       Entry(<<"lattice_cert">>, "lattice",
                             <<r.lattice.votes, r.lattice.prepared, r.lattice.committed>>)>>
        entries == asked \o ran \o seen
    IN  Append(entries, Entry(<<"verify_final">>, "verification", Len(entries) + 1))

\* The hash of an envelope is of its content and of the hash of the one before.
Envelope(e, parent, prev) ==
    [id |-> e.id, parent |-> parent, layer |-> e.layer, prev |-> prev,
     hash |-> <<"env", <<e.id, parent, e.layer, e.content>>, prev>>]

\* The chain of envelopes: each carries the hash of the one before, and the
\* event before as its parent.
Link(chain, e) ==
    Append(chain, IF chain = <<>> THEN Envelope(e, Null, Null)
                  ELSE Envelope(e, chain[Len(chain)].id, chain[Len(chain)].hash))

LinkEnvelopes(r) ==
    LET entries == Entries(r)
        chain[i \in 0 .. Len(entries)] == IF i = 0 THEN <<>> ELSE Link(chain[i - 1], entries[i])
    IN  chain[Len(entries)]

Finding(id, layer, status) == [id |-> id, layer |-> layer, status |-> status]
PassIf(holds) == IF holds THEN "PASS" ELSE "FAIL"

\* The invariants in the order in which evaluate() lists them.
Evaluated(r) ==
    LET obs == r.observations
        observed(bad) == IF obs = <<>> THEN "UNAVAILABLE" ELSE PassIf(~bad)
        off == \E i \in DOMAIN obs : obs[i].reachable /\ obs[i].hash # r.cross.common
        doubled == \E i \in DOMAIN obs : obs[i].duplicate
        bare == \E i \in DOMAIN obs : obs[i].reachable /\ ~obs[i].justified
    IN  <<Finding("I-QOS-01", "quantumos", PassIf(r.capability # Null)),
          Finding("I-QLF-01", "qlf", PassIf(Balanced(r.qlf))),
          Finding("I-RHO-01", "rspace",
                  IF r.execution = Null THEN "UNAVAILABLE"
                  ELSE IF r.execution.stuck THEN "WARN" ELSE "PASS")>>
        \o (IF r.execution = Null THEN <<>>
            ELSE <<Finding("I-RPL-01", "rspace", PassIf(r.replay.match))>>)
        \o (IF r.blocks = <<>> THEN <<Finding("I-01", "sentinel", "UNAVAILABLE")>>
            ELSE <<Finding("I-01", "sentinel", "PASS"),
                   Finding("I-02", "sentinel", PassIf(~off))>>)
        \o <<Finding("I-05", "sentinel", observed(doubled)),
             Finding("I-06", "sentinel", observed(bare))>>
        \o (IF r.blocks = <<>> THEN <<>>
            ELSE <<Finding("L-01", "lattice", PassIf(r.lattice.committed)),
                   Finding("L-02", "lattice", PassIf(r.lattice.conflicting => r.lattice.prepared))>>)

\* The checks, which alone go into the sealed record.
Checks(r) ==
    (IF r.blocks = <<>> THEN <<>>
     ELSE <<Finding("finalized_block_cross_check", "sentinel", PassIf(r.cross.hashAgreement))>>)
    \o (IF r.execution = Null THEN <<>>
        ELSE <<Finding("replay_match", "rspace", PassIf(r.replay.match))>>)
    \o <<Finding("capability_gate", "quantumos", PassIf(r.capability # Null))>>

\* The findings of a status, by their places.
Having(findings, status) == {i \in DOMAIN findings : findings[i].status = status}

\* The first failure, or else the first warning; some mutations name their own.
Witness(r) ==
    LET found == Evaluated(r)
        failed == Having(found, "FAIL")
        warned == Having(found, "WARN")
    IN  IF failed \cup warned = {} THEN Null
        ELSE CASE r.mutation = "node-c-lied" -> Finding("I-02", "sentinel", "FAIL")
               [] r.mutation = "drop-capability" -> Finding("I-QOS-01", "quantumos", "FAIL")
               [] r.mutation = "tamper-trace" /\ r.execution # Null -> Finding("I-RPL-01", "rspace", "FAIL")
               [] OTHER -> found[Min(IF failed # {} THEN failed ELSE warned)]

\* What is unavailable does not weigh.
OverallStatus(r) ==
    LET findings == Evaluated(r) \o Checks(r)
    IN  IF Having(findings, "FAIL") # {} THEN "FAIL"
        ELSE IF Having(findings, "WARN") # {} THEN "WARN" ELSE "PASS"

\* What a mutation does to the observations.
Faults(m) ==
    [lie |-> IF m = "node-c-lied" THEN "C" ELSE Null, unreachable |-> Null,
     unjustified |-> IF m = "no-justification" THEN "A" ELSE Null,
     duplicate |-> IF m = "dup-validator" THEN "C" ELSE Null]

\* The reality that a scenario and a mutation make.  There is a replay when
\* there is an execution, and there are judgements when there is a block.  Its
\* report is what LinkEnvelopes, Evaluated, Checks, Witness and OverallStatus
\* say of it.
Compile(s, m) ==
    LET capability == Capability(s, m)
        execution == IF capability = Null THEN Null ELSE Reducer(Process(s, m))
        blocks == IF execution = Null THEN <<>> ELSE Blocks(s, m, execution)
        observations == IF blocks = <<>> THEN <<>> ELSE ObserveBlock(blocks[1], Faults(m))
    IN  [scenario |-> s, mutation |-> m, capability |-> capability, execution |-> execution,
         qlf |-> IF capability = Null THEN Certify(1, 0) ELSE Certify(execution.comms, execution.comms),
         blocks |-> blocks, observations |-> observations,
         replay |-> IF execution = Null THEN Null
                    ELSE [expected |-> execution.state, match |-> m # "tamper-trace"],
         cross |-> IF blocks = <<>> THEN Null ELSE CrossNode(observations),
         casper |-> IF blocks = <<>> THEN Null ELSE CasperStatus(observations),
         lattice |-> IF blocks = <<>> THEN Null ELSE LatticeAnalyze(blocks[1], observations)]

\* The layers of the rows of diffReality, in its order, and what a reality has in them.
RowLayers == <<"quantumos", "quantumos", "qlf", "qlf", "rspace", "rspace", "rspace", "block",
               "sentinel", "sentinel", "lattice", "lattice", "verification">>

Rows(r) ==
    LET run(value) == IF r.execution = Null THEN Null ELSE value
        seen(value) == IF r.blocks = <<>> THEN Null ELSE value
    IN  <<r.capability, r.capability # Null,
          <<r.qlf.positive, r.qlf.negative>>, r.qlf.gap,
          run(r.execution.comms), run(r.execution.rules),
          run(r.execution.state),
          seen(r.blocks[1].hash),
          seen(<<r.cross.agreeing, r.cross.target>>), seen(r.cross.hashAgreement),
          seen(r.lattice.committed), seen(r.lattice.conflicting),
          OverallStatus(r)>>

\* The rows that differ: the first of them, and what is downstream of it.
DiffReality(a, b) == {i \in DOMAIN RowLayers : Rows(a)[i] # Rows(b)[i]}

-----------------------------------------------------------------------------
(* The sealed record of a reality (reality-record-adapter.ts).              *)

VerificationState(status) ==
    CASE status = "PASS" -> "VERIFIED"
      [] status = "FAIL" -> "DIVERGENT"
      [] OTHER -> "INCOMPLETE"

ReplayState(r) ==
    IF r.execution = Null THEN "INCOMPLETE" ELSE IF r.replay.match THEN "REPRODUCED" ELSE "DIVERGENT"

\* The state of the record, as deriveRealityState() finds it: verifications there
\* always are, and a replay that is complete has been reproduced.
RecordState(r) ==
    LET states == {VerificationState(Checks(r)[i].status) : i \in DOMAIN Checks(r)} \cup {ReplayState(r)}
    IN  IF "DIVERGENT" \in states THEN "DIVERGENT"
        ELSE IF "INCOMPLETE" \in states THEN "INCOMPLETE" ELSE "REPRODUCED"
=============================================================================
