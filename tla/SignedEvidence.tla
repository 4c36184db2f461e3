--------------------------- MODULE SignedEvidence ---------------------------
(***************************************************************************)
(* The signed evidence of a release: src/lib/compiler/attestation-crypto,  *)
(* attestation-producer-node, and the adapters that turn a signed          *)
(* attestation of a Sentinel, of a native replay host or of a builder into *)
(* a Reality Record or a build provenance (sentinel-adapter,               *)
(* sentinel-signed-adapter, native-replay-signed-adapter,                  *)
(* build-provenance-signed-adapter, reality-record).                       *)
(*                                                                         *)
(* Bytes are left out: a digest is the value it is the digest of, a        *)
(* signature is the pair of key and content it was made with, identifiers  *)
(* are normalised.  A field of evidence that the code reads as true, false *)
(* or null is "yes", "no" or "unknown".                                    *)
(***************************************************************************)
EXTENDS Integers, FiniteSets, Sequences, Functions

CONSTANT None   \* what an optional field holds when it is absent

-----------------------------------------------------------------------------
(* Envelopes.                                                               *)

\* The producer's envelope: the digest and the signature cover the payload.
SignEnvelope(schema, payload, key) ==
    [schema |-> schema, payload |-> payload, digest |-> payload,
     key |-> key, keyId |-> key, signature |-> <<key, schema, payload>>]

\* The pinned key signed exactly this payload under exactly this schema.
VerifyPinned(schema, e, expected) ==
    /\ e.key = e.keyId
    /\ e.key = expected
    /\ e.digest = e.payload
    /\ e.signature = <<e.key, schema, e.payload>>

-----------------------------------------------------------------------------
(* Reality Records.                                                         *)

States(r) == {v[2] : v \in r.verification} \cup {r.replay}

RealityState(r) ==
    IF "DIVERGENT" \in States(r) THEN "DIVERGENT"
    ELSE IF "INCOMPLETE" \in States(r) THEN "INCOMPLETE"
    ELSE IF r.verification = {} THEN "OBSERVED"
    ELSE "REPRODUCED"

\* A record as it is sealed: its digest is the one of its content, and nobody
\* has vouched for it in this process.
Seal(source, id, content, verification, replay) ==
    [source |-> source, id |-> id, content |-> content, verification |-> verification,
     replay |-> replay, digest |-> <<source, id, content>>,
     verified |-> FALSE, challenged |-> FALSE, signer |-> None]

RecordIntact(r) == r.digest = <<r.source, r.id, r.content>>

-----------------------------------------------------------------------------
(* Sentinel: payload [nonce, at, view]; view [block, available, canonical,  *)
(* finalityMatch, full, finalized, reachable, network, genesis, targets,    *)
(* targetCount, conflicting, agreement, domains].                           *)

\* Answered with yes or no: VERIFIED or DIVERGENT; not answered: no entry.
Judged(id, answer) ==
    IF answer = "unknown" THEN {}
    ELSE {<<id, IF answer = "yes" THEN "VERIFIED" ELSE "DIVERGENT">>}

CrossNodeConsistent(v) ==
    v.targetCount >= 2 /\ v.agreement /\ v.conflicting = 0

BundleVerification(v) ==
    {<<"payload_available", IF v.available THEN "VERIFIED" ELSE "INCOMPLETE">>}
    \cup Judged("canonical_consistency", v.canonical)
    \cup Judged("finality_hash", v.finalityMatch)
    \cup {<<"cross_node_consistency",
            IF CrossNodeConsistent(v) THEN "VERIFIED"
            ELSE IF v.conflicting > 0 THEN "DIVERGENT" ELSE "INCOMPLETE">>}

\* The parts of an unsigned bundle are fetched by three requests, and may be of
\* different moments: block of one view, network and cross-node report of others.
Bundle(block, network, crossNode) ==
    [v \in DOMAIN block |->
        CASE v \in {"reachable", "network"} -> network[v]
          [] v \in {"targets", "targetCount", "conflicting", "agreement"} -> crossNode[v]
          [] OTHER -> block[v]]

BundleToRecord(url, at, v) ==
    Seal("rchain-sentinel", <<v.block, at>>, [url |-> url, at |-> at, view |-> v],
         BundleVerification(v), "INCOMPLETE")

Field(s, f) == {s[i][f] : i \in DOMAIN s}

DomainsValid(v) ==
    /\ \A i \in DOMAIN v.domains : None \notin Range(v.domains[i])
    /\ IsInjective(v.targets)
    /\ IsInjective([i \in DOMAIN v.domains |-> v.domains[i].node])
    /\ Field(v.domains, "node") = Range(v.targets)
    /\ v.targetCount = Len(v.targets) /\ Len(v.domains) = Len(v.targets)
    /\ Cardinality(Field(v.domains, "operator")) >= 2
    /\ Cardinality(Field(v.domains, "domain")) >= 2

VerifySentinel(e, expected, nonce) ==
    /\ e.schema = "sentinel" /\ "nonce" \in DOMAIN e.payload
    /\ nonce # None => e.payload.nonce = nonce
    /\ DomainsValid(e.payload.view)
    /\ VerifyPinned("sentinel", e, expected)

GenesisVerified(g) == g.available /\ g.match /\ g.height = 0

SignedVerification(v) ==
    BundleVerification(v)
    \cup {<<"genesis_identity",
            IF GenesisVerified(v.genesis) THEN "VERIFIED"
            ELSE IF v.genesis.available THEN "DIVERGENT" ELSE "INCOMPLETE">>,
          <<"failure_domain_declarations", "VERIFIED">>,
          <<"attestation_signature", "VERIFIED">>}

\* The record of a snapshot that VerifySentinel accepted.
SentinelToRecord(url, e, nonce) ==
    LET p == e.payload IN
    [Seal("rchain-sentinel", <<p.view.block, p.at>>,
          [url |-> url, at |-> p.at, view |-> p.view, payload |-> p, keyId |-> e.key],
          SignedVerification(p.view), "INCOMPLETE")
     EXCEPT !.verified = TRUE, !.challenged = (nonce # None), !.signer = e.key]

-----------------------------------------------------------------------------
(* Native replay: payload [release, subject, expected, observed, inputs,    *)
(* recovery]; recovery is None or [previous, process, disk, checkpoint,     *)
(* trusted, started, finished], process and disk as <<before, after>>.      *)

RecoveryValid(c, inputs) ==
    /\ c.process[1] # c.process[2]
    /\ c.disk[1] # c.disk[2]
    /\ c.checkpoint \in inputs
    /\ c.trusted
    /\ c.started > 0 /\ c.finished >= c.started

VerifyNativeReplay(e, expected) ==
    /\ e.schema = "native" /\ "recovery" \in DOMAIN e.payload
    /\ e.payload.release.binary # None
    /\ e.payload.recovery # None => RecoveryValid(e.payload.recovery, e.payload.inputs)
    /\ VerifyPinned("native", e, expected)

\* The previous record's digest is kept beside the record's own digest.
NativeToRecord(e) ==
    LET p == e.payload
        match == IF p.expected = p.observed THEN "VERIFIED" ELSE "DIVERGENT"
    IN [Seal("rchain-rust-native-replay", <<"native", p>>, [payload |-> p, keyId |-> e.key],
             {<<"attestation_signature", "VERIFIED">>, <<"state_digest", match>>},
             IF p.expected = p.observed THEN "REPRODUCED" ELSE "DIVERGENT")
        EXCEPT !.verified = TRUE, !.signer = e.key]

Previous(r) == IF r.content.payload.recovery = None THEN None
               ELSE r.content.payload.recovery.previous

\* The producer of recovery evidence hashes the artifacts itself, counts the
\* checkpoint among the inputs, and refuses what was not independent.
SignRecovery(run, previous, key) ==
    SignEnvelope("native",
        [run.replay EXCEPT !.inputs = @ \cup {run.checkpoint},
                           !.recovery = [previous |-> previous, process |-> run.process,
                                         disk |-> run.disk, checkpoint |-> run.checkpoint,
                                         trusted |-> TRUE, started |-> run.started,
                                         finished |-> run.finished]], key)

RecoveryRunAccepted(run) ==
    /\ run.process[1] # run.process[2]
    /\ run.disk[1] # run.disk[2]
    /\ run.started > 0 /\ run.finished >= run.started

-----------------------------------------------------------------------------
(* Build provenance: payload [repository, commit, binary, statement];       *)
(* statement [subjects, dependencies, builder, external].                   *)

\* A dependency binds a release by its repository and its commit.
DependencyMatches(d, p) == d.repository = p.repository /\ d.commit = p.commit

BuildPayloadValid(p) ==
    /\ p.binary \in p.statement.subjects
    /\ \E d \in p.statement.dependencies : DependencyMatches(d, p)
    /\ p.statement.external \in {None, p.repository}

VerifyBuild(e, expected) ==
    /\ e.schema = "build" /\ "statement" \in DOMAIN e.payload
    /\ BuildPayloadValid(e.payload)
    /\ VerifyPinned("build", e, expected)

BuildToVerified(e) ==
    [repository |-> e.payload.repository, commit |-> e.payload.commit,
     binary |-> e.payload.binary, statement |-> e.payload.statement, payload |-> e.payload,
     builder |-> e.payload.statement.builder, signer |-> e.key, verified |-> TRUE]

\* The producer hashes the artifact it is given.
SignBuild(repository, commit, binary, builder, key) ==
    SignEnvelope("build",
        [repository |-> repository, commit |-> commit, binary |-> binary,
         statement |-> [subjects |-> {binary}, builder |-> builder, external |-> repository,
                        dependencies |-> {[repository |-> repository, commit |-> commit]}]], key)
=============================================================================
