--------------------------- MODULE AssuranceFabric ---------------------------
(***************************************************************************)
(* src/lib/compiler/assurance-fabric.ts and assurance-package.ts: the      *)
(* certificate of a release, issued from records of signed evidence and    *)
(* from checks made of them, and its verification by a reviewer who has    *)
(* the envelopes and nothing else.                                         *)
(*                                                                         *)
(* A verifier process asks Sentinels for snapshots signed with its nonce,  *)
(* verifies the attestations it has on file, makes the checks, and issues  *)
(* certificates while time passes.  What it verified is known by object    *)
(* identity (WeakSets, a Symbol): a restart, after which the records are   *)
(* read back as plain data, loses it.                                      *)
(***************************************************************************)
EXTENDS SignedEvidence

CONSTANTS
    Dossiers,      \* [release, network, trust, maxAge, natives, builds]: what is declared,
                   \* and the attestations on file
    Sentinels,     \* observer keys, each with a Sentinel of its own at its own address
    Views,         \* what each Sentinel may see of its network
    Nonces,
    Searches,      \* what possibility searches may report
    Skew,          \* of each Sentinel's clock against the verifier's
    MaxTime, MaxSnapshots, MaxRecords

\* freshness.maxObservationAgeMs must be finite and positive; maxAge is that many
\* whole units of the model's time.  A field that is missing holds None.
ASSUME FabricAssumption ==
    /\ Skew \in [Sentinels -> Int]
    /\ MaxTime \in Nat
    /\ \A d \in Dossiers : d.maxAge \in Nat
    /\ \A s \in Sentinels : \A v \in Views[s] :
        {"id", "shard", "genesis", "epoch"} \subseteq DOMAIN v.network

VARIABLES dossier, now, asked, snapshots, live, natives, provenance, checks, cert,
          vouched  \* the envelopes this process has verified (history)

vars == <<dossier, now, asked, snapshots, live, natives, provenance, checks, cert, vouched>>

-----------------------------------------------------------------------------
(* The checks of a certificate.  in: [release, network, trust, maxAge,      *)
(* records, checks, provenance, waived]; a record is given with the class   *)
(* its caller claims for it.                                                *)

SourceBinding ==
    [SYNTHETIC |-> {"rchain-reality-compiler"},
     LIVE_OBSERVATION |-> {"rchain-sentinel"},
     NATIVE_REPLAY |-> {"rchain-rust-native-replay"}]

SourceClassVerified(x) == x.record.source \in SourceBinding[x.class]

OfClass(in, class) == {x \in in.records : x.class = class}

\* Sourced, intact, and its signature verified in this process.
Signed(in, class) ==
    {x \in OfClass(in, class) :
        SourceClassVerified(x) /\ RecordIntact(x.record) /\ x.record.verified}

RequiredVerifications ==
    {"payload_available", "canonical_consistency", "finality_hash", "genesis_identity",
     "cross_node_consistency", "failure_domain_declarations", "attestation_signature"}

\* Evidence of promotion grade.
LiveQuality(x) ==
    LET r == x.record  v == r.content.view IN
    /\ SourceClassVerified(x) /\ "payload" \in DOMAIN r.content
    /\ RecordIntact(r)
    /\ \A id \in RequiredVerifications : <<id, "VERIFIED">> \in r.verification
    /\ v.available /\ v.full /\ v.finalized
    /\ v.finalityMatch = "yes" /\ v.canonical = "yes"
    /\ v.reachable
    /\ GenesisVerified(v.genesis)
    /\ CrossNodeConsistent(v)
    /\ DomainsValid(v)
    /\ r.verified /\ r.challenged

Check(id, plane, state) ==
    [id |-> id, plane |-> plane, state |-> state, critical |-> TRUE,
     producer |-> None, trusted |-> FALSE]

PassOr(other, holds) == IF holds THEN "PASS" ELSE other

\* Of every record: is it what it is said to be, whole, and free of divergence.
RealityChecks(in) ==
    UNION {LET Of(name, state) == Check(<<name, x.record.id>>, "REALITY", state)
           IN {Of("reality_source_class", PassOr("FAIL", SourceClassVerified(x))),
               Of("reality_integrity", PassOr("FAIL", RecordIntact(x.record))),
               Of("reality_divergence",
                  PassOr("FAIL", RealityState(x.record) # "DIVERGENT"))}
              \cup IF x.class = "LIVE_OBSERVATION"
                   THEN {Of("reality_live_challenge", PassOr("BLOCKED", x.record.challenged)),
                         Of("reality_live_quality", PassOr("BLOCKED", LiveQuality(x)))}
                   ELSE {}
              \cup IF x.class = "NATIVE_REPLAY"
                   THEN {Of("reality_native_replay_signature",
                            PassOr("BLOCKED", x.record.verified))}
                   ELSE {}
           : x \in in.records}

BuildProvenance(in) ==
    LET p == in.provenance  rel == in.release IN
    IF p = None THEN "BLOCKED"
    ELSE IF ~p.verified THEN "FAIL"
    ELSE IF rel.binary = None \/ rel.statement = None THEN "BLOCKED"
    ELSE IF <<p.repository, p.commit, p.binary, p.statement>>
                # <<rel.repository, rel.commit, rel.binary, rel.statement>> THEN "FAIL"
    ELSE IF in.trust.builderKeys = {} \/ in.trust.builders = {} THEN "BLOCKED"
    ELSE PassOr("FAIL", p.signer \in in.trust.builderKeys /\ p.builder \in in.trust.builders)

ReleaseIdentity(in) == PassOr("BLOCKED", None \notin {in.release.binary, in.release.statement})

\* Every verified observation is by an authorised key; an altered one counts too.
ObserverAuthorization(in) ==
    LET signed == {x \in OfClass(in, "LIVE_OBSERVATION") : x.record.verified} IN
    IF in.trust.observers = {} THEN "BLOCKED"
    ELSE IF \E x \in signed : x.record.signer \notin in.trust.observers THEN "FAIL"
    ELSE PassOr("BLOCKED", signed # {})

FailureDomains(in) ==
    PassOr("BLOCKED", \E x \in Signed(in, "LIVE_OBSERVATION") :
        /\ <<"failure_domain_declarations", "VERIFIED">> \in x.record.verification
        /\ DomainsValid(x.record.content.view))

ReplayAuthorization(in) ==
    LET signed == Signed(in, "NATIVE_REPLAY") IN
    IF signed = {} \/ in.trust.replayers = {} THEN "BLOCKED"
    ELSE PassOr("FAIL", \A x \in signed : x.record.signer \in in.trust.replayers)

\* Mutant: one replay of the release is enough.
ReplayReleaseBindingMutant(in) ==
    LET signed == Signed(in, "NATIVE_REPLAY")  rel == in.release IN
    IF signed = {} \/ rel.binary = None THEN "BLOCKED"
    ELSE PassOr("FAIL", \E x \in signed :
            LET of == x.record.content.payload.release
            IN <<of.repository, of.commit, of.binary>> = <<rel.repository, rel.commit, rel.binary>>)

\* Every signed native replay is of the declared release.
ReplayReleaseBinding(in) ==
    LET signed == Signed(in, "NATIVE_REPLAY")  rel == in.release IN
    IF signed = {} \/ rel.binary = None THEN "BLOCKED"
    ELSE PassOr("FAIL", \A x \in signed :
            LET of == x.record.content.payload.release
            IN <<of.repository, of.commit, of.binary>> = <<rel.repository, rel.commit, rel.binary>>)

\* The networks the signed observations name, with the genesis if it was verified.
ObservedNetworks(in) ==
    {[x.record.content.view.network EXCEPT !.genesis =
        IF GenesisVerified(x.record.content.view.genesis)
        THEN x.record.content.view.genesis.hash ELSE None]
        : x \in Signed(in, "LIVE_OBSERVATION")}

NetworkIdentity(in) ==
    LET expected == in.network
        comparable == {n \in ObservedNetworks(in) : None \notin {n.id, n.shard, n.genesis}}
    IN IF None \in {expected.id, expected.shard, expected.genesis} \/ comparable = {}
       THEN "BLOCKED"
       ELSE PassOr("FAIL", \A n \in comparable :
                /\ <<n.id, n.shard, n.genesis>> = <<expected.id, expected.shard, expected.genesis>>
                /\ expected.epoch \in {None, n.epoch})

\* Mutant: one observation of the past excuses those of the future.
FreshnessMutant2(in, at) ==
    LET times == {x.record.content.at : x \in {y \in OfClass(in, "LIVE_OBSERVATION") :
                                                    LiveQuality(y)}}
    IN IF times = {} THEN "BLOCKED"
       ELSE IF \A t \in times : t > at THEN "FAIL"
       ELSE PassOr("BLOCKED", \E t \in times : at - t \in 0..in.maxAge)

\* Mutant: an observation of the future is only not yet fresh.
FreshnessMutant(in, at) ==
    LET times == {x.record.content.at : x \in {y \in OfClass(in, "LIVE_OBSERVATION") :
                                                    LiveQuality(y)}}
    IN PassOr("BLOCKED", \E t \in times : at - t \in 0..in.maxAge)

\* The youngest observation of promotion grade must not be too old, and none may
\* be of a time after the certificate's.
Freshness(in, at) ==
    LET times == {x.record.content.at : x \in {y \in OfClass(in, "LIVE_OBSERVATION") :
                                                    LiveQuality(y)}}
    IN IF times = {} THEN "BLOCKED"
       ELSE IF \E t \in times : t > at THEN "FAIL"
       ELSE PassOr("BLOCKED", \E t \in times : at - t <= in.maxAge)

-----------------------------------------------------------------------------
(* Checks made outside the fabric and given to it.                          *)

TrustedProducers ==
    {"weighted-possibility-search", "cbc-fragility-adapter",
     "casper-reachability-counterexample-search",
     "reality-record-conformance", "reality-record-recovery"}

\* attested is the Symbol only trustedCheck sets.
Made(plane, producer, state, about) ==
    [id |-> <<plane, producer, about>>, plane |-> plane, state |-> state, critical |-> TRUE,
     producer |-> producer, attested |-> TRUE, about |-> about]

\* A search that hit its limit says nothing.
PossibilityCheck(s) ==
    Made("POSSIBILITY", s.producer,
         CASE s.producer = "weighted-possibility-search" ->
                IF s.status = "LIMIT_REACHED" THEN "BLOCKED"
                ELSE PassOr("FAIL", s.status = s.expected)
           [] s.producer = "casper-reachability-counterexample-search" ->
                IF s.status = "COUNTEREXAMPLE_FOUND" THEN "FAIL"
                ELSE PassOr("BLOCKED", s.status # "LIMIT_REACHED")
           [] OTHER -> PassOr("FAIL", s.status = "SATISFIED"), {})

IsNative(r) == r.source = "rchain-rust-native-replay"

ConformanceCheck(r) ==
    LET p == r.content.payload IN
    Made("CONFORMANCE", "reality-record-conformance",
         IF p.expected # p.observed THEN "FAIL"
         ELSE PassOr("BLOCKED", IsNative(r) /\ RecordIntact(r) /\ r.verified),
         {<<"record", r.digest>>})

RecoveryCheck(before, after) ==
    LET b == before.content.payload  a == after.content.payload
        complete == /\ IsNative(before) /\ IsNative(after)
                    /\ RecordIntact(before) /\ RecordIntact(after)
                    /\ before.verified /\ after.verified
                    /\ Previous(after) = before.digest
                    /\ b.subject = a.subject
                    /\ a.recovery # None /\ RecoveryValid(a.recovery, a.inputs)
    IN Made("RECOVERY", "reality-record-recovery",
            IF b.observed # a.observed THEN "FAIL" ELSE PassOr("BLOCKED", complete),
            {<<"before", before.digest>>, <<"after", after.digest>>})

\* The diagnostic helper for free-form digests is attested, but no trusted producer.
DigestCheck(plane, critical) ==
    [Made(plane, "digest", "PASS", {}) EXCEPT !.critical = critical]

IsTrusted(c) == c.attested /\ c.producer \in TrustedProducers

\* A pass nobody trusted vouches for is a block.
Supplied(in) ==
    {[id |-> c.id, plane |-> c.plane, critical |-> c.critical, producer |-> c.producer,
      trusted |-> IsTrusted(c), about |-> c.about,
      state |-> IF ~IsTrusted(c) /\ c.state = "PASS" THEN "BLOCKED" ELSE c.state]
        : c \in in.checks}

\* The check is about records that are in the certificate.
Bound(c, in) ==
    LET available == {x.record.digest : x \in Signed(in, "NATIVE_REPLAY")}
        roles == {r[1] : r \in c.about}
    IN /\ c.plane = "CONFORMANCE" => "record" \in roles
       /\ c.plane = "RECOVERY" => {"before", "after"} \subseteq roles
       /\ \A r \in c.about : r[2] \in available

HasPass(in, plane) ==
    \E c \in Supplied(in) :
        c.plane = plane /\ c.critical /\ c.trusted /\ c.state = "PASS" /\ Bound(c, in)

-----------------------------------------------------------------------------
(* The certificate.                                                         *)

HasLiveObservation(in) == \E x \in OfClass(in, "LIVE_OBSERVATION") : LiveQuality(x)

\* What is required of a release.
Required(in, at) ==
    [release_artifact_identity |-> ReleaseIdentity(in) = "PASS",
     build_provenance |-> BuildProvenance(in) = "PASS",
     native_replay_signature |-> Signed(in, "NATIVE_REPLAY") # {},
     native_replay_authorization |-> ReplayAuthorization(in) = "PASS",
     native_replay_release_binding |-> ReplayReleaseBinding(in) = "PASS",
     live_observation |-> HasLiveObservation(in),
     failure_domain_declarations |-> FailureDomains(in) = "PASS",
     observer_signature |-> Signed(in, "LIVE_OBSERVATION") # {},
     observer_authorization |-> ObserverAuthorization(in) = "PASS",
     network_identity |-> NetworkIdentity(in) = "PASS",
     freshness |-> Freshness(in, at) = "PASS",
     possibility |-> HasPass(in, "POSSIBILITY"),
     conformance |-> HasPass(in, "CONFORMANCE"),
     recovery |-> HasPass(in, "RECOVERY")]

\* Requirements cannot be turned off, but one given as undefined is: its gate is
\* not critical then.
Gates(in, at) ==
    {[Check(<<"gate", g>>, "GATE",
            PassOr(IF g \in in.waived THEN "NOT_TESTED" ELSE "BLOCKED", Required(in, at)[g]))
      EXCEPT !.critical = g \notin in.waived] : g \in DOMAIN Required(in, at)}

Status(all) ==
    LET critical == {c.state : c \in {d \in all : d.critical}} IN
    IF "FAIL" \in critical THEN "FAIL"
    ELSE PassOr("BLOCKED", critical \subseteq {"PASS"})

AllChecks(in, at) ==
    RealityChecks(in) \cup Gates(in, at) \cup Supplied(in)
    \cup {Check(<<"supply_chain", "release_identity">>, "SUPPLY_CHAIN", ReleaseIdentity(in)),
          Check(<<"supply_chain", "build_provenance">>, "SUPPLY_CHAIN", BuildProvenance(in)),
          Check(<<"reality", "observer_authorization">>, "REALITY", ObserverAuthorization(in)),
          Check(<<"reality", "failure_domains">>, "REALITY", FailureDomains(in)),
          Check(<<"reality", "replay_authorization">>, "REALITY", ReplayAuthorization(in)),
          Check(<<"reality", "replay_release_binding">>, "REALITY", ReplayReleaseBinding(in)),
          Check(<<"reality", "network_identity">>, "REALITY", NetworkIdentity(in)),
          Check(<<"reality", "freshness">>, "REALITY", Freshness(in, at))}

Certificate(in, at) == [in |-> in, at |-> at, status |-> Status(AllChecks(in, at))]

\* What a certificate is checked for wherever it is read: the policy was not
\* weakened, no two checks have one id, a pass has every gate.
CertificateValid(c) ==
    /\ c.in.waived = {}
    /\ \A x, y \in c.in.records : x.record.id = y.record.id => x = y
    /\ \A d, e \in Supplied(c.in) : d.id = e.id => d = e
    /\ \A d \in Supplied(c.in) : d.state = "PASS" => d.trusted
    /\ c.status = "PASS" => \A g \in Gates(c.in, c.at) : g.state = "PASS"

-----------------------------------------------------------------------------
(* The package: the certificate with the envelopes it was made from, each   *)
(* listed once, verified with no memory of the process that issued it.      *)

Count(records, d) == Cardinality({r \in records : r.digest = d})

\* Mutant: every envelope given is referred to, but not the other way round.
MatchesMutant(rebuilt, c, class) ==
    {r.digest : r \in rebuilt} \subseteq {x.record.digest : x \in OfClass(c.in, class)}

\* Exactly the digests the certificate refers to, as often.
Matches(rebuilt, c, class) ==
    LET referred == {x.record : x \in OfClass(c.in, class)}
        digests == {r.digest : r \in rebuilt} \cup {r.digest : r \in referred}
    IN \A d \in digests : Count(rebuilt, d) = Count(referred, d)

PackageVerifies(c, build, sentinel, native) ==
    /\ c.status = "PASS" /\ CertificateValid(c)
    /\ build.keyId \in c.in.trust.builderKeys
    /\ VerifyBuild(build, build.keyId)
    /\ c.in.provenance = BuildToVerified(build)
    /\ \A e \in sentinel : e.keyId \in c.in.trust.observers /\ VerifySentinel(e, e.keyId, None)
    /\ Matches({SentinelToRecord(e.keyId, e, None) : e \in sentinel}, c, "LIVE_OBSERVATION")
    /\ \A e \in native : e.keyId \in c.in.trust.replayers /\ VerifyNativeReplay(e, e.keyId)
    /\ Matches({NativeToRecord(e) : e \in native}, c, "NATIVE_REPLAY")

-----------------------------------------------------------------------------
(* The verifier process and what surrounds it.                              *)

NoCertificate == [status |-> "NONE"]

Init ==
    /\ dossier \in Dossiers
    /\ now = 0
    /\ asked = {} /\ snapshots = {}
    /\ live = {} /\ natives = {} /\ provenance = None /\ checks = {}
    /\ cert = NoCertificate
    /\ vouched = {}

\* A request with a nonce; its answer may come any time, or never.  The caller may
\* give the nonce itself, so one may be asked with again.
Ask(n) ==
    /\ n \notin asked
    /\ asked' = asked \cup {n}
    /\ UNCHANGED <<dossier, now, snapshots, live, natives, provenance, checks, cert, vouched>>

\* A Sentinel signs what it sees, at the time of its own clock.
SentinelSigns(s, n, v) ==
    /\ n \in asked /\ Cardinality(snapshots) < MaxSnapshots
    /\ snapshots' = snapshots \cup
            {SignEnvelope("sentinel", [nonce |-> n, at |-> now + Skew[s], view |-> v], s)}
    /\ UNCHANGED <<dossier, now, asked, live, natives, provenance, checks, cert, vouched>>

\* The answer to a request to Sentinel s with nonce n is any snapshot signed so far,
\* an earlier one from a cache included; what is not accepted is thrown away.
Answered(s, n, e) ==
    /\ n \in asked /\ VerifySentinel(e, s, n)
    /\ Cardinality(live) < MaxRecords
    /\ live' = live \cup {SentinelToRecord(s, e, n)}
    /\ vouched' = vouched \cup {e}
    /\ UNCHANGED <<dossier, now, asked, snapshots, natives, provenance, checks, cert>>

\* fetchSentinelRealityRecord: three requests, nothing signed.  (One such record is
\* enough to spoil a certificate.)
FetchedUnsigned(s, block, network, crossNode) ==
    /\ live = {}
    /\ live' = live \cup {BundleToRecord(s, now, Bundle(block, network, crossNode))}
    /\ UNCHANGED <<dossier, now, asked, snapshots, natives, provenance, checks, cert, vouched>>

\* The attestations on file are verified, each under the key pinned for it.
VerifyFiles ==
    LET good == {e \in dossier.natives : VerifyNativeReplay(e, e.keyId)}
        builds == {e \in dossier.builds : VerifyBuild(e, e.keyId)}
    IN /\ natives' = {NativeToRecord(e) : e \in good}
       /\ \E b \in dossier.builds :
            provenance' = IF b \in builds THEN BuildToVerified(b) ELSE None
       /\ vouched' = vouched \cup good \cup builds
       /\ UNCHANGED <<dossier, now, asked, snapshots, live, checks, cert>>

\* The caller makes its checks: of the native records as they are now, of one search,
\* and a free-form comparison for the reader.  (With no native record there is
\* nothing it could pass.)
Assess(search) ==
    /\ natives # {}
    /\ checks' = {PossibilityCheck(search), DigestCheck("CONFORMANCE", FALSE)}
                 \cup {ConformanceCheck(r) : r \in natives}
                 \cup {RecoveryCheck(p[1], p[2]) :
                        p \in {q \in natives \X natives : q[1] # q[2] /\ Previous(q[2]) # None}}
    /\ UNCHANGED <<dossier, now, asked, snapshots, live, natives, provenance, cert, vouched>>

\* A record is a plain object: its time is brought up to date after verification.
Amend(r) ==
    /\ r.content.at # now
    /\ live' = (live \ {r}) \cup {[r EXCEPT !.content.at = now]}
    /\ UNCHANGED <<dossier, now, asked, snapshots, natives, provenance, checks, cert, vouched>>

Forget(r) == [r EXCEPT !.verified = FALSE, !.challenged = FALSE, !.signer = None]

\* The process starts anew and reads back what it had written.
Restart ==
    /\ vouched # {}
    /\ live' = {Forget(r) : r \in live}
    /\ natives' = {Forget(r) : r \in natives}
    /\ provenance' = IF provenance = None THEN None ELSE [provenance EXCEPT !.verified = FALSE]
    /\ checks' = {[c EXCEPT !.attested = FALSE] : c \in checks}
    /\ vouched' = {}
    /\ UNCHANGED <<dossier, now, asked, snapshots, cert>>

Tick ==
    /\ now < MaxTime
    /\ now' = now + 1
    /\ UNCHANGED <<dossier, asked, snapshots, live, natives, provenance, checks, cert, vouched>>

Inputs(waived) ==
    [release |-> dossier.release, network |-> dossier.network, trust |-> dossier.trust,
     maxAge |-> dossier.maxAge, checks |-> checks, provenance |-> provenance, waived |-> waived,
     records |-> [class : {"LIVE_OBSERVATION"}, record : live]
                 \cup [class : {"NATIVE_REPLAY"}, record : natives]]

Issue(waived) ==
    /\ checks # {}
    /\ cert' = Certificate(Inputs(waived), now)
    /\ UNCHANGED <<dossier, now, asked, snapshots, live, natives, provenance, checks, vouched>>

\* A certificate changes nothing but itself, so that what may follow one may also
\* happen without it: one is issued in a behaviour.
Next ==
    /\ cert = NoCertificate
    /\ \/ \E n \in Nonces : Ask(n)
       \/ \E s \in Sentinels, n \in Nonces : \E v \in Views[s] : SentinelSigns(s, n, v)
       \/ \E s \in Sentinels, n \in Nonces, e \in snapshots : Answered(s, n, e)
       \/ \E s \in Sentinels : \E b, w, x \in Views[s] : FetchedUnsigned(s, b, w, x)
       \/ VerifyFiles
       \/ \E s \in Searches : Assess(s)
       \/ \E r \in live : Amend(r)
       \/ Restart
       \/ Tick
       \/ \E w \in {{}, {"recovery"}} : Issue(w)

Spec == Init /\ [][Next]_vars

-----------------------------------------------------------------------------
(* Properties.                                                              *)

Issued == cert # NoCertificate

Vouched(schema) == {e \in vouched : e.schema = schema}

\* A pass stands on evidence this process itself verified: a snapshot signed by an
\* authorised observer with a nonce that was asked, of the declared network and not
\* older than allowed when the certificate was made; the declared release, built as
\* its verified provenance says; and verified replays, all of that release, one of
\* which is of a recovery from another of them.
PassIsGrounded ==
    Issued /\ cert.status = "PASS" =>
        /\ \E e \in vouched : \E x \in OfClass(cert.in, "LIVE_OBSERVATION") :
            /\ e.schema = "sentinel" /\ e.key \in dossier.trust.observers
            /\ e.payload.nonce \in asked /\ cert.at - e.payload.at \in 0..dossier.maxAge
            /\ e.payload.view.genesis.hash = dossier.network.genesis
            /\ e.payload.view.conflicting = 0
            /\ x.record.content.payload = e.payload
        /\ \E e \in vouched :
            /\ e.schema = "build" /\ e.key \in dossier.trust.builderKeys
            /\ e.payload.binary = dossier.release.binary
        /\ LET replays == {e \in vouched : e.schema = "native"} IN
           /\ \A e \in replays : /\ e.key \in dossier.trust.replayers
                                /\ e.payload.release.binary = dossier.release.binary
           /\ cert.in.waived = {} =>
                \E e, f \in replays :
                    /\ f.payload.recovery # None
                    /\ f.payload.recovery.previous = NativeToRecord(e).digest
                    /\ f.payload.observed = e.payload.observed

\* A reviewer who is given the envelopes, and has no memory of the process, comes to
\* the same judgement: the package of a valid pass verifies with the envelopes that
\* the process verified and made its records from, and with no others.
OfflineAgrees ==
    Issued => \A sentinel \in SUBSET snapshots, native \in SUBSET dossier.natives :
        \A build \in dossier.builds :
            PackageVerifies(cert, build, sentinel, native) <=>
                /\ cert.status = "PASS" /\ CertificateValid(cert)
                /\ sentinel \subseteq Vouched("sentinel") /\ native \subseteq Vouched("native")
                /\ build \in Vouched("build") /\ BuildToVerified(build) = cert.in.provenance
                /\ {<<e.keyId, e.payload>> : e \in sentinel}
                        = {<<x.record.content.keyId, x.record.content.payload>> :
                                x \in OfClass(cert.in, "LIVE_OBSERVATION")}
                /\ {NativeToRecord(e).digest : e \in native}
                        = {x.record.digest : x \in OfClass(cert.in, "NATIVE_REPLAY")}

\* Evidence cannot be outweighed: what fails without one of the records fails with it,
\* whichever it is.
FailStands ==
    Issued /\ cert.status # "FAIL" => \A x \in cert.in.records :
        Certificate([cert.in EXCEPT !.records = @ \ {x}], cert.at).status # "FAIL"

\* Waiting improves nothing: the same inputs give, at a later time, no better status,
\* but that an observation of the future, which fails, may have become one of the past.
LaterIsNoBetter ==
    Issued => \A at \in (cert.at + 1)..MaxTime :
        LET later == Certificate(cert.in, at).status IN
        \/ later = cert.status
        \/ cert.status = "PASS" /\ later = "BLOCKED"
        \/ cert.status = "FAIL" /\ Freshness(cert.in, cert.at) = "FAIL"
=============================================================================
