----------------------------- MODULE FabricProofs -----------------------------
(* Proofs about AssuranceFabric: what the status of a certificate follows    *)
(* from, and that a package is judged offline as it was issued.             *)
(* For any dossiers, Sentinels, views, clocks and number of records.        *)
EXTENDS AssuranceFabric, FiniteSetTheorems, TLAPS

-----------------------------------------------------------------------------
(* Statuses.                                                                *)

LEMMA StatusFails ==
    ASSUME NEW all
    PROVE  Status(all) = "FAIL" <=> \E c \in all : c.critical /\ c.state = "FAIL"
<1> DEFINE critical == {c.state : c \in {d \in all : d.critical}}
<1>1. "FAIL" \in critical <=> \E c \in all : c.critical /\ c.state = "FAIL"
  OBVIOUS
<1>2. Status(all) = IF "FAIL" \in critical THEN "FAIL"
                    ELSE PassOr("BLOCKED", critical \subseteq {"PASS"})
  BY DEF Status
<1>3. PassOr("BLOCKED", critical \subseteq {"PASS"}) # "FAIL"
  BY DEF PassOr
<1> QED
  BY <1>1, <1>2, <1>3

LEMMA StatusPasses ==
    ASSUME NEW all
    PROVE  /\ Status(all) = "PASS" <=> \A c \in all : c.critical => c.state = "PASS"
           /\ Status(all) \in {"PASS", "BLOCKED", "FAIL"}
<1> DEFINE critical == {c.state : c \in {d \in all : d.critical}}
<1>1. critical \subseteq {"PASS"} <=> \A c \in all : c.critical => c.state = "PASS"
  OBVIOUS
<1>2. Status(all) = IF "FAIL" \in critical THEN "FAIL"
                    ELSE PassOr("BLOCKED", critical \subseteq {"PASS"})
  BY DEF Status
<1>3. \/ critical \subseteq {"PASS"} /\ PassOr("BLOCKED", critical \subseteq {"PASS"}) = "PASS"
      \/ ~(critical \subseteq {"PASS"}) /\ PassOr("BLOCKED", critical \subseteq {"PASS"}) = "BLOCKED"
  BY DEF PassOr
<1> QED
  BY <1>1, <1>2, <1>3

\* A check has the state it is given.
LEMMA Checks ==
    ASSUME NEW id, NEW plane, NEW state
    PROVE  Check(id, plane, state).state = state /\ Check(id, plane, state).critical
BY DEF Check

LEMMA PassOrs ==
    ASSUME NEW other, NEW holds \in BOOLEAN
    PROVE  PassOr(other, holds) = IF holds THEN "PASS" ELSE other
BY DEF PassOr

\* A gate never fails: what it lacks blocks, or is not tested.
LEMMA GatesNeverFail ==
    ASSUME NEW in, NEW at, NEW c \in Gates(in, at)
    PROVE  c.state # "FAIL"
BY DEF Gates, Check, PassOr

-----------------------------------------------------------------------------
(* More records do not make a failed check pass.                            *)

\* The inputs `out` are those of `in`, less some of the records.
Fewer(out, in) ==
    /\ out.release = in.release /\ out.network = in.network /\ out.trust = in.trust
    /\ out.maxAge = in.maxAge /\ out.checks = in.checks /\ out.provenance = in.provenance
    /\ out.waived = in.waived
    /\ out.records \subseteq in.records

LEMMA RealityKept ==
    ASSUME NEW out, NEW in, Fewer(out, in)
    PROVE  RealityChecks(out) \subseteq RealityChecks(in)
BY DEF RealityChecks, Fewer

LEMMA ClassKept ==
    ASSUME NEW out, NEW in, Fewer(out, in), NEW class
    PROVE  /\ OfClass(out, class) \subseteq OfClass(in, class)
           /\ Signed(out, class) \subseteq Signed(in, class)
BY DEF OfClass, Signed, Fewer

LEMMA ReleaseNeverFails ==
    ASSUME NEW in
    PROVE  ReleaseIdentity(in) # "FAIL" /\ FailureDomains(in) # "FAIL"
BY DEF ReleaseIdentity, FailureDomains, PassOr

LEMMA BuildKept ==
    ASSUME NEW out, NEW in, Fewer(out, in)
    PROVE  BuildProvenance(out) = BuildProvenance(in)
BY DEF BuildProvenance, Fewer

LEMMA SuppliedKept ==
    ASSUME NEW out, NEW in, Fewer(out, in)
    PROVE  Supplied(out) = Supplied(in)
BY DEF Supplied, Fewer

LEMMA ObserversKept ==
    ASSUME NEW out, NEW in, Fewer(out, in), ObserverAuthorization(out) = "FAIL"
    PROVE  ObserverAuthorization(in) = "FAIL"
BY ClassKept DEF ObserverAuthorization, PassOr, Fewer

LEMMA ReplayersKept ==
    ASSUME NEW out, NEW in, Fewer(out, in), ReplayAuthorization(out) = "FAIL"
    PROVE  ReplayAuthorization(in) = "FAIL"
BY ClassKept DEF ReplayAuthorization, PassOr, Fewer

LEMMA BindingKept ==
    ASSUME NEW out, NEW in, Fewer(out, in), ReplayReleaseBinding(out) = "FAIL"
    PROVE  ReplayReleaseBinding(in) = "FAIL"
BY ClassKept DEF ReplayReleaseBinding, PassOr, Fewer

LEMMA NetworksKept ==
    ASSUME NEW out, NEW in, Fewer(out, in)
    PROVE  ObservedNetworks(out) \subseteq ObservedNetworks(in)
BY ClassKept DEF ObservedNetworks

LEMMA NetworkKept ==
    ASSUME NEW out, NEW in, Fewer(out, in), NetworkIdentity(out) = "FAIL"
    PROVE  NetworkIdentity(in) = "FAIL"
BY NetworksKept DEF NetworkIdentity, PassOr, Fewer

LEMMA FreshnessKept ==
    ASSUME NEW out, NEW in, Fewer(out, in), NEW at, Freshness(out, at) = "FAIL"
    PROVE  Freshness(in, at) = "FAIL"
BY ClassKept DEF Freshness, PassOr, Fewer

\* The checks that are made once for a certificate.
Whole(in, at) ==
    {Check(<<"supply_chain", "release_identity">>, "SUPPLY_CHAIN", ReleaseIdentity(in)),
     Check(<<"supply_chain", "build_provenance">>, "SUPPLY_CHAIN", BuildProvenance(in)),
     Check(<<"reality", "observer_authorization">>, "REALITY", ObserverAuthorization(in)),
     Check(<<"reality", "failure_domains">>, "REALITY", FailureDomains(in)),
     Check(<<"reality", "replay_authorization">>, "REALITY", ReplayAuthorization(in)),
     Check(<<"reality", "replay_release_binding">>, "REALITY", ReplayReleaseBinding(in)),
     Check(<<"reality", "network_identity">>, "REALITY", NetworkIdentity(in)),
     Check(<<"reality", "freshness">>, "REALITY", Freshness(in, at))}

LEMMA Parts ==
    ASSUME NEW in, NEW at
    PROVE  AllChecks(in, at) = RealityChecks(in) \cup Gates(in, at) \cup Supplied(in)
                               \cup Whole(in, at)
BY DEF AllChecks, Whole

\* A check made once fails by what it is about.
LEMMA WholeFails ==
    ASSUME NEW in, NEW at
    PROVE  (\E c \in Whole(in, at) : c.critical /\ c.state = "FAIL") <=>
              \/ BuildProvenance(in) = "FAIL"
              \/ ObserverAuthorization(in) = "FAIL"
              \/ ReplayAuthorization(in) = "FAIL"
              \/ ReplayReleaseBinding(in) = "FAIL"
              \/ NetworkIdentity(in) = "FAIL"
              \/ Freshness(in, at) = "FAIL"
BY Checks, ReleaseNeverFails DEF Whole

\* What fails with fewer records fails with all of them.
LEMMA FailKept ==
    ASSUME NEW out, NEW in, Fewer(out, in), NEW at, Status(AllChecks(out, at)) = "FAIL"
    PROVE  Status(AllChecks(in, at)) = "FAIL"
<1>1. PICK c \in AllChecks(out, at) : c.critical /\ c.state = "FAIL"
  BY StatusFails
<1>2. CASE c \in RealityChecks(out) \cup Supplied(out)
  <2>1. c \in AllChecks(in, at)
    BY <1>2, RealityKept, SuppliedKept, Parts
  <2> QED
    BY <1>1, <2>1, StatusFails
<1>3. CASE c \in Gates(out, at)
  BY <1>1, <1>3, GatesNeverFail
<1>4. CASE c \in Whole(out, at)
  <2>1. \E d \in Whole(in, at) : d.critical /\ d.state = "FAIL"
    BY <1>1, <1>4, WholeFails, BuildKept, ObserversKept, ReplayersKept, BindingKept, NetworkKept,
       FreshnessKept
  <2> QED
    BY <2>1, Parts, StatusFails
<1> QED
  BY <1>1, <1>2, <1>3, <1>4, Parts

-----------------------------------------------------------------------------
(* A certificate stays what it was issued as.                               *)

CertInv ==
    Issued => \E w \in {{}, {"recovery"}} : checks # {} /\ cert = Certificate(Inputs(w), now)

THEOREM CertificateKept == Spec => []CertInv
<1>1. Init => CertInv
  BY DEF Init, CertInv, Issued
<1>2. ASSUME CertInv, [Next]_vars
      PROVE  CertInv'
  <2>1. CASE \E w \in {{}, {"recovery"}} : Issue(w)
    <3>1. PICK w \in {{}, {"recovery"}} : Issue(w)
      BY <2>1
    <3>2. /\ Inputs(w)' = Inputs(w) /\ now' = now /\ checks' # {}
          /\ cert' = Certificate(Inputs(w), now)
      BY <3>1 DEF Issue, Inputs
    <3> QED
      BY <3>2 DEF CertInv
  <2>2. CASE cert = NoCertificate /\ cert' = cert
    BY <2>2 DEF CertInv, Issued
  <2>3. CASE UNCHANGED vars
    <3>1. ASSUME NEW w
          PROVE  Inputs(w)' = Inputs(w)
      BY <2>3 DEF vars, Inputs
    <3> QED
      BY <1>2, <2>3, <3>1 DEF CertInv, Issued, vars
  <2> QED
    BY <1>2, <2>1, <2>2, <2>3 DEF Next, Ask, SentinelSigns, Answered, FetchedUnsigned, VerifyFiles,
       Assess, Amend, Restart, Tick
<1> QED
  BY <1>1, <1>2, PTL DEF Spec

\* Evidence cannot be outweighed: what fails without one of its records fails with
\* it.  For any dossier, Sentinels and views.
THEOREM EvidenceCounts == Spec => []FailStands
<1>1. ASSUME CertInv
      PROVE  FailStands
  <2> SUFFICES ASSUME Issued, cert.status # "FAIL", NEW x \in cert.in.records
               PROVE  Certificate([cert.in EXCEPT !.records = @ \ {x}], cert.at).status # "FAIL"
    BY DEF FailStands
  <2>1. PICK w \in {{}, {"recovery"}} : cert = Certificate(Inputs(w), now)
    BY <1>1 DEF CertInv
  <2> DEFINE in == Inputs(w)
             out == [in EXCEPT !.records = in.records \ {x}]
  <2>2. cert.in = in /\ cert.at = now /\ cert.status = Status(AllChecks(in, now))
    BY <2>1 DEF Certificate
  <2>3. Fewer(out, in)
    BY DEF Fewer, Inputs
  <2>4. [cert.in EXCEPT !.records = @ \ {x}] = out
    BY <2>2
  <2> HIDE DEF in, out
  <2>5. Certificate(out, now).status = Status(AllChecks(out, now))
    BY DEF Certificate
  <2> QED
    BY <2>2, <2>3, <2>4, <2>5, FailKept
<1> QED
  BY <1>1, CertificateKept, PTL

-----------------------------------------------------------------------------
(* What a pass needs.                                                       *)

\* A check made once passes by what it is about.
LEMMA WholePasses ==
    ASSUME NEW in, NEW at
    PROVE  (\A c \in Whole(in, at) : c.critical => c.state = "PASS") <=>
              /\ ReleaseIdentity(in) = "PASS"
              /\ BuildProvenance(in) = "PASS"
              /\ ObserverAuthorization(in) = "PASS"
              /\ FailureDomains(in) = "PASS"
              /\ ReplayAuthorization(in) = "PASS"
              /\ ReplayReleaseBinding(in) = "PASS"
              /\ NetworkIdentity(in) = "PASS"
              /\ Freshness(in, at) = "PASS"
BY Checks DEF Whole

\* A gate passes by what it requires, unless the requirement was waived.
LEMMA GatesPass ==
    ASSUME NEW in, NEW at
    PROVE  (\A c \in Gates(in, at) : c.critical => c.state = "PASS") <=>
              \A g \in DOMAIN Required(in, at) : g \in in.waived \/ Required(in, at)[g]
<1> DEFINE G(g) == [Check(<<"gate", g>>, "GATE",
                          PassOr(IF g \in in.waived THEN "NOT_TESTED" ELSE "BLOCKED",
                                 Required(in, at)[g]))
                    EXCEPT !.critical = g \notin in.waived]
<1>1. Gates(in, at) = {G(g) : g \in DOMAIN Required(in, at)}
  BY DEF Gates
<1>2. ASSUME NEW g
      PROVE  (G(g).critical => G(g).state = "PASS") <=> (g \in in.waived \/ Required(in, at)[g])
  BY DEF Check, PassOr
<1> HIDE DEF G
<1> QED
  BY <1>1, <1>2

\* The times of the observations of promotion grade.
Times(in) ==
    {x.record.content.at : x \in {y \in OfClass(in, "LIVE_OBSERVATION") : LiveQuality(y)}}

\* A later time makes an observation older, and one of the future one of the past.
LEMMA FreshnessWanes ==
    ASSUME NEW in, in.maxAge \in Int, Times(in) \subseteq Int,
           NEW t \in Int, NEW u \in Int, t < u, Freshness(in, t) # "FAIL"
    PROVE  /\ Freshness(in, u) # "FAIL"
           /\ Freshness(in, u) = "PASS" => Freshness(in, t) = "PASS"
<1>1. ASSUME NEW at
      PROVE  Freshness(in, at) = IF Times(in) = {} THEN "BLOCKED"
                                 ELSE IF \E s \in Times(in) : s > at THEN "FAIL"
                                 ELSE PassOr("BLOCKED", \E s \in Times(in) : at - s <= in.maxAge)
  BY DEF Freshness, Times
<1> QED
  BY <1>1 DEF PassOr

\* Only freshness depends on the time of a certificate.
LEMMA RequiredLater ==
    ASSUME NEW in, NEW t, NEW u, Freshness(in, u) = "PASS" => Freshness(in, t) = "PASS",
           NEW g \in DOMAIN Required(in, u), Required(in, u)[g]
    PROVE  g \in DOMAIN Required(in, t) /\ Required(in, t)[g]
<1>1. DOMAIN Required(in, t) = DOMAIN Required(in, u)
  BY DEF Required
<1>2. ASSUME NEW h \in DOMAIN Required(in, u), h # "freshness"
      PROVE  Required(in, u)[h] = Required(in, t)[h]
  BY <1>2 DEF Required
<1>3. CASE g = "freshness"
  <2>1. Freshness(in, u) = "PASS"
    BY <1>3, ZenonT(60) DEF Required
  <2> QED
    BY <1>1, <1>3, <2>1 DEF Required
<1>4. CASE g # "freshness"
  BY <1>1, <1>2, <1>4
<1> QED
  BY <1>3, <1>4

LEMMA StatusLater ==
    ASSUME NEW in, in.maxAge \in Int, Times(in) \subseteq Int,
           NEW t \in Int, NEW u \in Int, t < u, Freshness(in, t) # "FAIL"
    PROVE  /\ Status(AllChecks(in, t)) = "FAIL" <=> Status(AllChecks(in, u)) = "FAIL"
           /\ Status(AllChecks(in, u)) = "PASS" => Status(AllChecks(in, t)) = "PASS"
<1>1. Freshness(in, u) # "FAIL" /\ (Freshness(in, u) = "PASS" => Freshness(in, t) = "PASS")
  BY FreshnessWanes
<1>2. ASSUME NEW at, Freshness(in, at) # "FAIL"
      PROVE  Status(AllChecks(in, at)) = "FAIL" <=>
                \/ \E c \in RealityChecks(in) \cup Supplied(in) : c.critical /\ c.state = "FAIL"
                \/ BuildProvenance(in) = "FAIL"
                \/ ObserverAuthorization(in) = "FAIL"
                \/ ReplayAuthorization(in) = "FAIL"
                \/ ReplayReleaseBinding(in) = "FAIL"
                \/ NetworkIdentity(in) = "FAIL"
  <2>1. (\E c \in AllChecks(in, at) : c.critical /\ c.state = "FAIL") <=>
            \/ \E c \in RealityChecks(in) \cup Supplied(in) : c.critical /\ c.state = "FAIL"
            \/ \E c \in Whole(in, at) : c.critical /\ c.state = "FAIL"
    BY Parts, GatesNeverFail
  <2> QED
    BY <1>2, <2>1, WholeFails, StatusFails
<1>3. ASSUME NEW at
      PROVE  Status(AllChecks(in, at)) = "PASS" <=>
                /\ \A c \in RealityChecks(in) \cup Supplied(in) : c.critical => c.state = "PASS"
                /\ \A c \in Gates(in, at) : c.critical => c.state = "PASS"
                /\ \A c \in Whole(in, at) : c.critical => c.state = "PASS"
  BY Parts, StatusPasses
<1>4. ASSUME Status(AllChecks(in, u)) = "PASS"
      PROVE  Status(AllChecks(in, t)) = "PASS"
  <2>1. \A g \in DOMAIN Required(in, t) : g \in in.waived \/ Required(in, t)[g]
    <3>1. DOMAIN Required(in, t) = DOMAIN Required(in, u)
      BY DEF Required
    <3>2. \A g \in DOMAIN Required(in, u) : g \in in.waived \/ Required(in, u)[g]
      BY <1>3, <1>4, GatesPass
    <3> QED
      BY <1>1, <3>1, <3>2, RequiredLater
  <2>2. \A c \in Gates(in, t) : c.critical => c.state = "PASS"
    BY <2>1, GatesPass
  <2>3. \A c \in Whole(in, t) : c.critical => c.state = "PASS"
    BY <1>1, <1>3, <1>4, WholePasses
  <2> QED
    BY <1>3, <1>4, <2>2, <2>3
<1> QED
  BY <1>1, <1>2, <1>4

-----------------------------------------------------------------------------
(* What the verifier holds, and where it has it from.                       *)

RecordFields == {"source", "id", "content", "verification", "replay", "digest",
                 "verified", "challenged", "signer"}

\* The attestations on file that verify.
Good == {e \in dossier.natives : VerifyNativeReplay(e, e.keyId)}

Held ==
    /\ dossier \in Dossiers
    /\ now \in Nat
    /\ \A e \in snapshots : /\ e.payload.at \in Int
                            /\ \E s \in Sentinels : e.payload.view \in Views[s]
    /\ \A r \in live : DOMAIN r = RecordFields /\ "at" \in DOMAIN r.content /\ r.content.at \in Int
    /\ \A r \in natives : DOMAIN r = RecordFields
    /\ provenance # None => "verified" \in DOMAIN provenance
    /\ \A c \in checks : "attested" \in DOMAIN c

\* A verified record of an observation has the digest of a snapshot that was
\* verified in this process.
LiveGrounded ==
    \A r \in live : r.verified => \E e \in vouched \cap snapshots :
        /\ e.schema = "sentinel"
        /\ r.signer = e.key
        /\ r.challenged => e.payload.nonce \in asked
        /\ r.digest = SentinelToRecord(e.key, e, None).digest

\* The native records are those of all that verifies, once any of it was verified.
NativesGrounded ==
    /\ \A e \in vouched : e.schema = "native" => e \in Good
    /\ (\E e \in vouched : e.schema = "native") \/ (\E r \in natives : r.verified) =>
            Good \subseteq vouched /\ natives = {NativeToRecord(e) : e \in Good}

BuildGrounded ==
    provenance # None /\ provenance.verified => \E e \in vouched :
        VerifyBuild(e, e.keyId) /\ provenance = BuildToVerified(e)

\* Of two replays that were verified, f recovers from e.
Recovers(e, f) ==
    /\ e.schema = "native" /\ f.schema = "native"
    /\ f.payload.recovery # None
    /\ f.payload.recovery.previous = NativeToRecord(e).digest
    /\ f.payload.observed = e.payload.observed

ChecksGrounded ==
    \A c \in checks : c.attested /\ c.plane = "RECOVERY" /\ c.state = "PASS" =>
        \E e, f \in vouched : Recovers(e, f)

EvidenceInv == Held /\ LiveGrounded /\ NativesGrounded /\ BuildGrounded /\ ChecksGrounded

\* What the adapters make of an envelope.
LEMMA SentinelRecords ==
    ASSUME NEW url, NEW e, NEW nonce, NEW r, r = SentinelToRecord(url, e, nonce)
    PROVE  /\ DOMAIN r = RecordFields
           /\ "at" \in DOMAIN r.content /\ r.content.at = e.payload.at
           /\ r.verified /\ (r.challenged <=> nonce # None) /\ r.signer = e.key
           /\ url = e.key => r.digest = SentinelToRecord(e.key, e, None).digest
BY DEF SentinelToRecord, Seal, RecordFields

LEMMA BundleRecords ==
    ASSUME NEW url, NEW at, NEW v, NEW r, r = BundleToRecord(url, at, v)
    PROVE  /\ DOMAIN r = RecordFields
           /\ "at" \in DOMAIN r.content /\ r.content.at = at
           /\ ~r.verified
BY DEF BundleToRecord, Seal, RecordFields

LEMMA NativeRecords ==
    ASSUME NEW e, NEW r, r = NativeToRecord(e)
    PROVE  /\ DOMAIN r = RecordFields
           /\ r.source = "rchain-rust-native-replay"
           /\ r.content.payload = e.payload
           /\ r.digest = <<r.source, r.id, r.content>>
           /\ r.verified /\ r.signer = e.key
BY DEF NativeToRecord, Seal, RecordFields

\* A digest is the one of one content.
LEMMA DigestOfContent ==
    ASSUME NEW r, RecordIntact(r), NEW e, r.digest = SentinelToRecord(e.key, e, None).digest
    PROVE  /\ r.content.at = e.payload.at /\ r.content.view = e.payload.view
           /\ r.content.payload = e.payload
<1> DEFINE content == [url |-> e.key, at |-> e.payload.at, view |-> e.payload.view,
                       payload |-> e.payload, keyId |-> e.key]
           id == <<e.payload.view.block, e.payload.at>>
<1>1. r.digest = <<"rchain-sentinel", id, content>>
  BY DEF SentinelToRecord, Seal
<1>2. content.at = e.payload.at /\ content.view = e.payload.view /\ content.payload = e.payload
  OBVIOUS
<1> HIDE DEF content, id
<1>3. r.digest = <<r.source, r.id, r.content>>
  BY DEF RecordIntact
<1>4. r.content = content
  BY <1>1, <1>3
<1> QED
  BY <1>2, <1>4

LEMMA Forgotten ==
    ASSUME NEW r, DOMAIN r = RecordFields
    PROVE  /\ DOMAIN Forget(r) = RecordFields /\ Forget(r).content = r.content
           /\ ~Forget(r).verified
BY DEF Forget, RecordFields

-----------------------------------------------------------------------------
(* Each step keeps where it is from.                                        *)

\* Steps that leave the records alone and verify nothing.
LEMMA NothingHeld ==
    ASSUME EvidenceInv, UNCHANGED <<dossier, live, natives, provenance, checks, vouched>>,
           asked \subseteq asked', snapshots \subseteq snapshots', now' \in Nat,
           \A e \in snapshots' : /\ e.payload.at \in Int
                                 /\ \E s \in Sentinels : e.payload.view \in Views[s]
    PROVE  EvidenceInv'
<1>1. Held'
  BY DEF EvidenceInv, Held
<1>2. LiveGrounded'
  BY DEF EvidenceInv, LiveGrounded
<1>3. NativesGrounded' /\ BuildGrounded' /\ ChecksGrounded'
  BY DEF EvidenceInv, NativesGrounded, BuildGrounded, ChecksGrounded, Good
<1> QED
  BY <1>1, <1>2, <1>3 DEF EvidenceInv

LEMMA SentinelSignsKeeps ==
    ASSUME EvidenceInv, NEW s \in Sentinels, NEW n, NEW v \in Views[s], SentinelSigns(s, n, v)
    PROVE  EvidenceInv'
<1> DEFINE e == SignEnvelope("sentinel", [nonce |-> n, at |-> now + Skew[s], view |-> v], s)
<1>1. e.payload.at = now + Skew[s] /\ e.payload.view = v
  BY DEF SignEnvelope
<1>2. now + Skew[s] \in Int
  BY FabricAssumption DEF EvidenceInv, Held
<1>3. snapshots' = snapshots \cup {e}
  BY DEF SentinelSigns
<1> HIDE DEF e
<1>4. \A d \in snapshots' : d.payload.at \in Int /\ \E q \in Sentinels : d.payload.view \in Views[q]
  BY <1>1, <1>2, <1>3 DEF EvidenceInv, Held
<1>5. now' \in Nat
  BY DEF SentinelSigns, EvidenceInv, Held
<1> QED
  BY <1>3, <1>4, <1>5, NothingHeld DEF SentinelSigns

\* Records come and go among the live ones, and snapshots are verified.
LEMMA LiveMoves ==
    ASSUME EvidenceInv, UNCHANGED <<dossier, now, asked, snapshots, natives, provenance, checks>>,
           vouched \subseteq vouched', \A e \in vouched' \ vouched : e.schema = "sentinel",
           \A r \in live' : /\ DOMAIN r = RecordFields
                            /\ "at" \in DOMAIN r.content /\ r.content.at \in Int
                            /\ r.verified => \E e \in vouched' \cap snapshots :
                                  /\ e.schema = "sentinel"
                                  /\ r.signer = e.key
                                  /\ r.challenged => e.payload.nonce \in asked
                                  /\ r.digest = SentinelToRecord(e.key, e, None).digest
    PROVE  EvidenceInv'
<1>1. Held'
  BY DEF EvidenceInv, Held
<1>2. LiveGrounded'
  BY DEF LiveGrounded
<1>3. NativesGrounded'
  <2>1. Good' = Good
    BY DEF Good
  <2>2. ASSUME NEW e \in vouched', e.schema = "native"
        PROVE  e \in vouched
    BY <2>2
  <2> QED
    BY <2>1, <2>2 DEF EvidenceInv, NativesGrounded
<1>4. BuildGrounded' /\ ChecksGrounded'
  BY DEF EvidenceInv, BuildGrounded, ChecksGrounded
<1> QED
  BY <1>1, <1>2, <1>3, <1>4 DEF EvidenceInv

\* ... of which those that stay are as good as before.
LEMMA LiveStays ==
    ASSUME EvidenceInv, asked' = asked, snapshots' = snapshots, vouched \subseteq vouched',
           NEW r \in live
    PROVE  /\ DOMAIN r = RecordFields
           /\ "at" \in DOMAIN r.content /\ r.content.at \in Int
           /\ r.verified => \E e \in vouched' \cap snapshots :
                 /\ e.schema = "sentinel"
                 /\ r.signer = e.key
                 /\ r.challenged => e.payload.nonce \in asked
                 /\ r.digest = SentinelToRecord(e.key, e, None).digest
BY DEF EvidenceInv, Held, LiveGrounded

LEMMA AnsweredKeeps ==
    ASSUME EvidenceInv, NEW s, NEW n, NEW e \in snapshots, Answered(s, n, e)
    PROVE  EvidenceInv'
<1>1. PICK r : r = SentinelToRecord(s, e, n)
  OBVIOUS
<1>2. live' = live \cup {r} /\ vouched' = vouched \cup {e}
      /\ UNCHANGED <<dossier, now, asked, snapshots, natives, provenance, checks>>
  BY <1>1 DEF Answered
<1>3. e.schema = "sentinel" /\ e.key = s /\ (n # None => e.payload.nonce = n) /\ n \in asked
  BY DEF Answered, VerifySentinel, VerifyPinned
<1>4. DOMAIN r = RecordFields /\ "at" \in DOMAIN r.content /\ r.content.at \in Int
  BY <1>1, SentinelRecords DEF EvidenceInv, Held
<1>5. /\ r.signer = e.key
      /\ r.challenged => e.payload.nonce \in asked
      /\ r.digest = SentinelToRecord(e.key, e, None).digest
  <2>1. /\ (r.challenged <=> n # None) /\ r.signer = e.key
        /\ s = e.key => r.digest = SentinelToRecord(e.key, e, None).digest
    BY <1>1, SentinelRecords
  <2> QED
    BY <1>3, <2>1
<1>6. ASSUME NEW q \in live'
      PROVE  /\ DOMAIN q = RecordFields
             /\ "at" \in DOMAIN q.content /\ q.content.at \in Int
             /\ q.verified => \E d \in vouched' \cap snapshots :
                   /\ d.schema = "sentinel"
                   /\ q.signer = d.key
                   /\ q.challenged => d.payload.nonce \in asked
                   /\ q.digest = SentinelToRecord(d.key, d, None).digest
  <2>1. CASE q \in live
    BY <1>2, <2>1, LiveStays
  <2>2. CASE q = r
    BY <1>2, <1>3, <1>4, <1>5, <2>2
  <2> QED
    BY <1>2, <2>1, <2>2
<1>7. vouched \subseteq vouched' /\ \A d \in vouched' \ vouched : d.schema = "sentinel"
  BY <1>2, <1>3
<1> QED
  BY <1>2, <1>6, <1>7, LiveMoves

LEMMA FetchedKeeps ==
    ASSUME EvidenceInv, NEW s, NEW b, NEW w, NEW x, FetchedUnsigned(s, b, w, x)
    PROVE  EvidenceInv'
<1>1. PICK r : r = BundleToRecord(s, now, Bundle(b, w, x))
  OBVIOUS
<1>2. live' = live \cup {r} /\ vouched' = vouched
      /\ UNCHANGED <<dossier, now, asked, snapshots, natives, provenance, checks>>
  BY <1>1 DEF FetchedUnsigned
<1>3. DOMAIN r = RecordFields /\ "at" \in DOMAIN r.content /\ r.content.at \in Int /\ ~r.verified
  <2>1. DOMAIN r = RecordFields /\ "at" \in DOMAIN r.content /\ r.content.at = now
        /\ ~r.verified
    BY <1>1, BundleRecords
  <2>2. now \in Int
    BY DEF EvidenceInv, Held
  <2> QED
    BY <2>1, <2>2
<1>4. ASSUME NEW q \in live'
      PROVE  /\ DOMAIN q = RecordFields
             /\ "at" \in DOMAIN q.content /\ q.content.at \in Int
             /\ q.verified => \E d \in vouched' \cap snapshots :
                   /\ d.schema = "sentinel"
                   /\ q.signer = d.key
                   /\ q.challenged => d.payload.nonce \in asked
                   /\ q.digest = SentinelToRecord(d.key, d, None).digest
  <2>1. CASE q \in live
    BY <1>2, <2>1, LiveStays
  <2>2. CASE q = r
    BY <1>3, <2>2
  <2> QED
    BY <1>2, <2>1, <2>2
<1> QED
  BY <1>2, <1>4, LiveMoves

LEMMA AmendKeeps ==
    ASSUME EvidenceInv, NEW r \in live, Amend(r)
    PROVE  EvidenceInv'
<1>1. PICK o : o = [r EXCEPT !.content.at = now]
  OBVIOUS
<1>2. live' = (live \ {r}) \cup {o} /\ vouched' = vouched
      /\ UNCHANGED <<dossier, now, asked, snapshots, natives, provenance, checks>>
  BY <1>1 DEF Amend
<1>3. DOMAIN r = RecordFields /\ "at" \in DOMAIN r.content /\ now \in Int
  BY DEF EvidenceInv, Held
<1>4. /\ DOMAIN o = RecordFields /\ "at" \in DOMAIN o.content /\ o.content.at = now
      /\ o.verified = r.verified /\ o.challenged = r.challenged /\ o.signer = r.signer
      /\ o.digest = r.digest
  BY <1>1, <1>3 DEF RecordFields
<1>5. ASSUME NEW q \in live'
      PROVE  /\ DOMAIN q = RecordFields
             /\ "at" \in DOMAIN q.content /\ q.content.at \in Int
             /\ q.verified => \E d \in vouched' \cap snapshots :
                   /\ d.schema = "sentinel"
                   /\ q.signer = d.key
                   /\ q.challenged => d.payload.nonce \in asked
                   /\ q.digest = SentinelToRecord(d.key, d, None).digest
  <2>1. CASE q \in live
    BY <1>2, <2>1, LiveStays
  <2>2. CASE q = o
    <3>1. r.verified => \E d \in vouched' \cap snapshots :
                   /\ d.schema = "sentinel"
                   /\ r.signer = d.key
                   /\ r.challenged => d.payload.nonce \in asked
                   /\ r.digest = SentinelToRecord(d.key, d, None).digest
      BY <1>2, LiveStays
    <3> QED
      BY <1>3, <1>4, <2>2, <3>1
  <2> QED
    BY <1>2, <2>1, <2>2
<1> QED
  BY <1>2, <1>5, LiveMoves

LEMMA VerifyFilesKeeps ==
    ASSUME EvidenceInv, VerifyFiles
    PROVE  EvidenceInv'
<1> DEFINE builds == {e \in dossier.builds : VerifyBuild(e, e.keyId)}
<1>1. /\ natives' = {NativeToRecord(e) : e \in Good}
      /\ vouched' = vouched \cup Good \cup builds
      /\ UNCHANGED <<dossier, now, asked, snapshots, live, checks>>
  BY DEF VerifyFiles, Good
<1>2. PICK b \in dossier.builds : provenance' = IF b \in builds THEN BuildToVerified(b) ELSE None
  BY DEF VerifyFiles
<1>3. ASSUME NEW e \in builds
      PROVE  e.schema = "build" /\ VerifyBuild(e, e.keyId)
  BY DEF VerifyBuild
<1>4. Good' = Good /\ \A e \in Good : e.schema = "native"
  BY <1>1 DEF Good, VerifyNativeReplay
<1> HIDE DEF builds
<1>5. Held'
  <2>1. \A r \in natives' : DOMAIN r = RecordFields
    BY <1>1, NativeRecords
  <2>2. provenance' # None => "verified" \in DOMAIN provenance'
    BY <1>2 DEF BuildToVerified
  <2> QED
    BY <1>1, <2>1, <2>2 DEF EvidenceInv, Held
<1>6. LiveGrounded'
  BY <1>1 DEF EvidenceInv, LiveGrounded
<1>7. NativesGrounded'
  <2>1. \A e \in vouched' : e.schema = "native" => e \in Good
    BY <1>1, <1>3 DEF EvidenceInv, NativesGrounded
  <2> QED
    BY <1>1, <1>4, <2>1 DEF NativesGrounded
<1>8. BuildGrounded'
  <2>1. CASE b \in builds
    BY <1>1, <1>2, <1>3, <2>1 DEF BuildGrounded
  <2>2. CASE b \notin builds
    BY <1>2, <2>2 DEF BuildGrounded
  <2> QED
    BY <2>1, <2>2
<1>9. ChecksGrounded'
  BY <1>1 DEF EvidenceInv, ChecksGrounded
<1> QED
  BY <1>5, <1>6, <1>7, <1>8, <1>9 DEF EvidenceInv

\* A recovery check that passes is of two replays that were verified.
LEMMA RecoveryGrounded ==
    ASSUME EvidenceInv, NEW b \in natives, NEW a \in natives, Previous(a) # None,
           RecoveryCheck(b, a).state = "PASS"
    PROVE  \E e, f \in vouched : Recovers(e, f)
<1>1. /\ b.content.payload.observed = a.content.payload.observed
      /\ b.verified /\ Previous(a) = b.digest /\ a.content.payload.recovery # None
  BY DEF RecoveryCheck, Made, PassOr
<1>2. Good \subseteq vouched /\ natives = {NativeToRecord(e) : e \in Good}
  BY <1>1 DEF EvidenceInv, NativesGrounded
<1>3. PICK e \in Good : b = NativeToRecord(e)
  BY <1>2
<1>4. PICK f \in Good : a = NativeToRecord(f)
  BY <1>2
<1>5. b.content.payload = e.payload /\ a.content.payload = f.payload
  BY <1>3, <1>4, NativeRecords
<1>6. e.schema = "native" /\ f.schema = "native"
  BY DEF Good, VerifyNativeReplay
<1>7. f.payload.recovery.previous = b.digest
  BY <1>1, <1>5 DEF Previous
<1>8. Recovers(e, f)
  BY <1>1, <1>3, <1>5, <1>6, <1>7 DEF Recovers
<1> QED
  BY <1>2, <1>8

LEMMA AssessKeeps ==
    ASSUME EvidenceInv, NEW search, Assess(search)
    PROVE  EvidenceInv'
<1>1. UNCHANGED <<dossier, now, asked, snapshots, live, natives, provenance, vouched>>
  BY DEF Assess
<1>2. ASSUME NEW c \in checks'
      PROVE  /\ "attested" \in DOMAIN c
             /\ c.plane = "RECOVERY" /\ c.state = "PASS" => \E e, f \in vouched : Recovers(e, f)
  <2>1. CASE c = PossibilityCheck(search)
    BY <2>1 DEF PossibilityCheck, Made
  <2>2. CASE c = DigestCheck("CONFORMANCE", FALSE)
    BY <2>2 DEF DigestCheck, Made
  <2>3. CASE \E r \in natives : c = ConformanceCheck(r)
    BY <2>3 DEF ConformanceCheck, Made
  <2>4. ASSUME NEW b \in natives, NEW a \in natives, Previous(a) # None, c = RecoveryCheck(b, a)
        PROVE  /\ "attested" \in DOMAIN c
               /\ c.plane = "RECOVERY" /\ c.state = "PASS" => \E e, f \in vouched : Recovers(e, f)
    <3>1. "attested" \in DOMAIN c
      BY <2>4 DEF RecoveryCheck, Made
    <3> QED
      BY <2>4, <3>1, RecoveryGrounded
  <2>5. \/ c = PossibilityCheck(search)
        \/ c = DigestCheck("CONFORMANCE", FALSE)
        \/ \E r \in natives : c = ConformanceCheck(r)
        \/ \E b, a \in natives : Previous(a) # None /\ c = RecoveryCheck(b, a)
    BY DEF Assess
  <2> QED
    BY <2>1, <2>2, <2>3, <2>4, <2>5
<1>3. Held'
  BY <1>1, <1>2 DEF EvidenceInv, Held
<1>4. LiveGrounded'
  BY <1>1 DEF EvidenceInv, LiveGrounded
<1>5. NativesGrounded' /\ BuildGrounded'
  BY <1>1 DEF EvidenceInv, NativesGrounded, BuildGrounded, Good
<1>6. ChecksGrounded'
  BY <1>1, <1>2 DEF ChecksGrounded
<1> QED
  BY <1>3, <1>4, <1>5, <1>6 DEF EvidenceInv

\* After a restart nothing is verified any more, and no check is attested.
LEMMA RestartKeeps ==
    ASSUME EvidenceInv, Restart
    PROVE  EvidenceInv'
<1>1. /\ live' = {Forget(r) : r \in live} /\ natives' = {Forget(r) : r \in natives}
      /\ provenance' = IF provenance = None THEN None ELSE [provenance EXCEPT !.verified = FALSE]
      /\ checks' = {[c EXCEPT !.attested = FALSE] : c \in checks}
      /\ vouched' = {}
      /\ UNCHANGED <<dossier, now, asked, snapshots>>
  BY DEF Restart
<1>2. ASSUME NEW r \in live'
      PROVE  /\ DOMAIN r = RecordFields /\ "at" \in DOMAIN r.content /\ r.content.at \in Int
             /\ ~r.verified
  <2>1. PICK q \in live : r = Forget(q)
    BY <1>1
  <2>2. DOMAIN q = RecordFields /\ "at" \in DOMAIN q.content /\ q.content.at \in Int
    BY DEF EvidenceInv, Held
  <2> QED
    BY <2>1, <2>2, Forgotten
<1>3. ASSUME NEW r \in natives'
      PROVE  DOMAIN r = RecordFields /\ ~r.verified
  <2>1. PICK q \in natives : r = Forget(q)
    BY <1>1
  <2>2. DOMAIN q = RecordFields
    BY DEF EvidenceInv, Held
  <2> QED
    BY <2>1, <2>2, Forgotten
<1>4. ASSUME NEW c \in checks'
      PROVE  "attested" \in DOMAIN c /\ ~c.attested
  <2>1. PICK d \in checks : c = [d EXCEPT !.attested = FALSE]
    BY <1>1
  <2>2. "attested" \in DOMAIN d
    BY DEF EvidenceInv, Held
  <2> QED
    BY <2>1, <2>2
<1>5. provenance' # None => "verified" \in DOMAIN provenance' /\ ~provenance'.verified
  <2>1. provenance # None => "verified" \in DOMAIN provenance
    BY DEF EvidenceInv, Held
  <2> QED
    BY <1>1, <2>1
<1>6. Held'
  BY <1>1, <1>2, <1>3, <1>4, <1>5 DEF EvidenceInv, Held
<1>7. LiveGrounded' /\ NativesGrounded'
  BY <1>1, <1>2, <1>3 DEF LiveGrounded, NativesGrounded
<1>8. BuildGrounded' /\ ChecksGrounded'
  BY <1>4, <1>5 DEF BuildGrounded, ChecksGrounded
<1> QED
  BY <1>6, <1>7, <1>8 DEF EvidenceInv

\* What a verifier holds is grounded in what it verified, through every step.
THEOREM EvidenceKept == Spec => []EvidenceInv
<1>1. ASSUME Init
      PROVE  EvidenceInv
  <2>1. Held
    BY <1>1 DEF Init, Held
  <2>2. LiveGrounded /\ NativesGrounded /\ BuildGrounded /\ ChecksGrounded
    BY <1>1 DEF Init, LiveGrounded, NativesGrounded, BuildGrounded, ChecksGrounded
  <2> QED
    BY <2>1, <2>2 DEF EvidenceInv
<1>2. ASSUME EvidenceInv, [Next]_vars
      PROVE  EvidenceInv'
  <2>1. now \in Nat /\ now + 1 \in Nat
        /\ \A e \in snapshots : /\ e.payload.at \in Int
                                /\ \E s \in Sentinels : e.payload.view \in Views[s]
    BY <1>2 DEF EvidenceInv, Held
  <2>2. ASSUME NEW n, Ask(n)
        PROVE  EvidenceInv'
    BY <1>2, <2>1, <2>2, NothingHeld DEF Ask
  <2>3. ASSUME Tick
        PROVE  EvidenceInv'
    BY <1>2, <2>1, <2>3, NothingHeld DEF Tick
  <2>4. ASSUME NEW w, Issue(w)
        PROVE  EvidenceInv'
    BY <1>2, <2>1, <2>4, NothingHeld DEF Issue
  <2>5. CASE UNCHANGED vars
    BY <1>2, <2>1, <2>5, NothingHeld DEF vars
  <2> QED
    BY <1>2, <2>2, <2>3, <2>4, <2>5, SentinelSignsKeeps, AnsweredKeeps, FetchedKeeps, AmendKeeps,
       VerifyFilesKeeps, AssessKeeps, RestartKeeps DEF Next
<1> QED
  BY <1>1, <1>2, PTL DEF Spec

-----------------------------------------------------------------------------
(* A certificate in time.                                                   *)

\* What was put into a certificate.
LEMMA Put ==
    ASSUME NEW w, NEW c, c = Certificate(Inputs(w), now)
    PROVE  /\ c.at = now /\ c.status = Status(AllChecks(c.in, now))
           /\ c.in.release = dossier.release /\ c.in.network = dossier.network
           /\ c.in.trust = dossier.trust /\ c.in.maxAge = dossier.maxAge
           /\ c.in.checks = checks /\ c.in.provenance = provenance /\ c.in.waived = w
           /\ OfClass(c.in, "LIVE_OBSERVATION") = [class : {"LIVE_OBSERVATION"}, record : live]
           /\ OfClass(c.in, "NATIVE_REPLAY") = [class : {"NATIVE_REPLAY"}, record : natives]
<1>1. c.in = Inputs(w) /\ c.at = now /\ c.status = Status(AllChecks(c.in, now))
  BY DEF Certificate
<1>2. /\ c.in.release = dossier.release /\ c.in.network = dossier.network
      /\ c.in.trust = dossier.trust /\ c.in.maxAge = dossier.maxAge
      /\ c.in.checks = checks /\ c.in.provenance = provenance /\ c.in.waived = w
      /\ c.in.records = [class : {"LIVE_OBSERVATION"}, record : live]
                        \cup [class : {"NATIVE_REPLAY"}, record : natives]
  BY <1>1 DEF Inputs
<1>3. /\ OfClass(c.in, "LIVE_OBSERVATION") = [class : {"LIVE_OBSERVATION"}, record : live]
      /\ OfClass(c.in, "NATIVE_REPLAY") = [class : {"NATIVE_REPLAY"}, record : natives]
  BY <1>2 DEF OfClass
<1> QED
  BY <1>1, <1>2, <1>3

\* Waiting improves nothing: a later status is no better, unless the certificate
\* failed on an observation of the future.  For any clocks.
THEOREM WaitingIsVain == Spec => []LaterIsNoBetter
<1>1. ASSUME CertInv, EvidenceInv
      PROVE  LaterIsNoBetter
  <2> SUFFICES ASSUME Issued, NEW at \in (cert.at + 1)..MaxTime
               PROVE  LET later == Certificate(cert.in, at).status IN
                      \/ later = cert.status
                      \/ cert.status = "PASS" /\ later = "BLOCKED"
                      \/ cert.status = "FAIL" /\ Freshness(cert.in, cert.at) = "FAIL"
    BY DEF LaterIsNoBetter
  <2>1. PICK w \in {{}, {"recovery"}} : cert = Certificate(Inputs(w), now)
    BY <1>1 DEF CertInv
  <2>2. PICK in : in = cert.in
    OBVIOUS
  <2>3. /\ cert.at = now /\ cert.status = Status(AllChecks(in, now)) /\ in.maxAge = dossier.maxAge
        /\ OfClass(in, "LIVE_OBSERVATION") = [class : {"LIVE_OBSERVATION"}, record : live]
    BY <2>1, <2>2, Put, ZenonT(60)
  <2>4. dossier \in Dossiers /\ now \in Int /\ \A r \in live : r.content.at \in Int
    BY <1>1 DEF EvidenceInv, Held
  <2>5. in.maxAge \in Int
    BY <2>3, <2>4, FabricAssumption
  <2>6. Times(in) \subseteq Int
    <3>1. ASSUME NEW x \in OfClass(in, "LIVE_OBSERVATION")
          PROVE  x.record.content.at \in Int
      <4>1. x.record \in live
        BY <2>3, ZenonT(60)
      <4> QED
        BY <2>4, <4>1
    <3> QED
      BY <3>1 DEF Times
  <2>7. at \in Int /\ now < at
    BY <2>3, <2>4
  <2>8. Certificate(in, at).status = Status(AllChecks(in, at))
    BY DEF Certificate
  <2>9. /\ Status(AllChecks(in, now)) \in {"PASS", "BLOCKED", "FAIL"}
        /\ Status(AllChecks(in, at)) \in {"PASS", "BLOCKED", "FAIL"}
    BY StatusPasses
  <2>10. CASE Freshness(in, now) = "FAIL"
    <3>1. Status(AllChecks(in, now)) = "FAIL"
      <4>1. \E c \in Whole(in, now) : c.critical /\ c.state = "FAIL"
        BY <2>10, WholeFails
      <4> QED
        BY <4>1, Parts, StatusFails
    <3> QED
      BY <2>2, <2>3, <2>10, <3>1
  <2>11. CASE Freshness(in, now) # "FAIL"
    <3>1. /\ Status(AllChecks(in, now)) = "FAIL" <=> Status(AllChecks(in, at)) = "FAIL"
          /\ Status(AllChecks(in, at)) = "PASS" => Status(AllChecks(in, now)) = "PASS"
      BY <2>4, <2>5, <2>6, <2>7, <2>11, StatusLater
    <3> QED
      BY <2>2, <2>3, <2>8, <2>9, <3>1
  <2> QED
    BY <2>10, <2>11
<1> QED
  BY <1>1, CertificateKept, EvidenceKept, PTL

-----------------------------------------------------------------------------
(* What a pass stands on.                                                   *)

\* Every Sentinel's network says what it is called.  (One that does not is not
\* compared with the declared network, and may yet be the fresh one.)
Named == \A s \in Sentinels : \A v \in Views[s] :
            None \notin {v.network.id, v.network.shard, v.genesis.hash}

LEMMA PassMeans ==
    ASSUME NEW in, NEW at, Status(AllChecks(in, at)) = "PASS"
    PROVE  /\ BuildProvenance(in) = "PASS"
           /\ ObserverAuthorization(in) = "PASS"
           /\ ReplayAuthorization(in) = "PASS"
           /\ ReplayReleaseBinding(in) = "PASS"
           /\ NetworkIdentity(in) = "PASS"
           /\ Freshness(in, at) = "PASS"
           /\ in.waived = {} => HasPass(in, "RECOVERY")
<1>1. /\ \A c \in Gates(in, at) : c.critical => c.state = "PASS"
      /\ \A c \in Whole(in, at) : c.critical => c.state = "PASS"
  BY Parts, StatusPasses
<1>2. ASSUME in.waived = {}
      PROVE  HasPass(in, "RECOVERY")
  <2>1. "recovery" \in DOMAIN Required(in, at) /\ Required(in, at)["recovery"] = HasPass(in, "RECOVERY")
    BY DEF Required
  <2>2. Required(in, at)["recovery"]
    BY <1>1, <1>2, <2>1, GatesPass
  <2> QED
    BY <2>1, <2>2
<1> QED
  BY <1>1, <1>2, WholePasses

\* The observation that makes a pass fresh is of the declared network.
LEMMA FreshObservation ==
    ASSUME Named, EvidenceInv, NEW w, cert = Certificate(Inputs(w), now), cert.status = "PASS"
    PROVE  \E e \in vouched : \E x \in OfClass(cert.in, "LIVE_OBSERVATION") :
            /\ e.schema = "sentinel" /\ e.key \in dossier.trust.observers
            /\ e.payload.nonce \in asked /\ cert.at - e.payload.at \in 0..dossier.maxAge
            /\ e.payload.view.genesis.hash = dossier.network.genesis
            /\ e.payload.view.conflicting = 0
            /\ x.record.content.payload = e.payload
<1>1. PICK in : in = cert.in
  OBVIOUS
<1>2. /\ cert.at = now /\ Status(AllChecks(in, now)) = "PASS"
      /\ in.trust = dossier.trust /\ in.network = dossier.network /\ in.maxAge = dossier.maxAge
      /\ OfClass(in, "LIVE_OBSERVATION") = [class : {"LIVE_OBSERVATION"}, record : live]
  BY <1>1, Put, ZenonT(60)
<1>3. PICK x \in OfClass(in, "LIVE_OBSERVATION") :
        LiveQuality(x) /\ ~(x.record.content.at > now) /\ now - x.record.content.at <= in.maxAge
  <2>1. Freshness(in, now) = "PASS"
    BY <1>2, PassMeans
  <2> QED
    BY <2>1 DEF Freshness, PassOr
<1>4. x.record \in live
  BY <1>2, ZenonT(60)
<1>5. /\ SourceClassVerified(x) /\ RecordIntact(x.record) /\ x.record.verified /\ x.record.challenged
      /\ GenesisVerified(x.record.content.view.genesis) /\ CrossNodeConsistent(x.record.content.view)
  BY <1>3 DEF LiveQuality
<1>6. PICK e \in vouched \cap snapshots :
        /\ e.schema = "sentinel"
        /\ x.record.signer = e.key
        /\ x.record.challenged => e.payload.nonce \in asked
        /\ x.record.digest = SentinelToRecord(e.key, e, None).digest
  BY <1>4, <1>5 DEF EvidenceInv, LiveGrounded
<1>7. /\ x.record.content.at = e.payload.at /\ x.record.content.view = e.payload.view
      /\ x.record.content.payload = e.payload
  BY <1>5, <1>6, DigestOfContent
<1>8. x \in Signed(in, "LIVE_OBSERVATION")
  BY <1>5 DEF Signed
<1>9. e.key \in dossier.trust.observers
  <2>1. ObserverAuthorization(in) = "PASS"
    BY <1>2, PassMeans
  <2>2. x.record.signer \in in.trust.observers
    BY <1>5, <2>1 DEF ObserverAuthorization, PassOr
  <2> QED
    BY <1>2, <1>6, <2>2
<1>10. cert.at - e.payload.at \in 0..dossier.maxAge
  <2>1. now \in Int /\ e.payload.at \in Int /\ dossier.maxAge \in Int
    BY <1>6, FabricAssumption DEF EvidenceInv, Held
  <2> QED
    BY <1>2, <1>3, <1>7, <2>1
<1>11. e.payload.view.genesis.hash = dossier.network.genesis
  <2> DEFINE v == e.payload.view
             n == [v.network EXCEPT !.genesis = v.genesis.hash]
  <2>1. PICK s \in Sentinels : v \in Views[s]
    BY <1>6 DEF EvidenceInv, Held
  <2>2. {"id", "shard", "genesis", "epoch"} \subseteq DOMAIN v.network
    BY <2>1, FabricAssumption
  <2>3. n.id = v.network.id /\ n.shard = v.network.shard /\ n.genesis = v.genesis.hash
    BY <2>2
  <2>4. None \notin {n.id, n.shard, n.genesis}
    BY <2>1, <2>3 DEF Named
  <2>5. n \in ObservedNetworks(in)
    BY <1>5, <1>7, <1>8 DEF ObservedNetworks
  <2>6. NetworkIdentity(in) = "PASS"
    BY <1>2, PassMeans
  <2> HIDE DEF n, v
  <2>7. n.genesis = in.network.genesis
    BY <2>4, <2>5, <2>6 DEF NetworkIdentity, PassOr
  <2> QED
    BY <1>2, <2>3, <2>7 DEF v
<1>12. e.payload.view.conflicting = 0
  BY <1>5, <1>7 DEF CrossNodeConsistent
<1>13. e.payload.nonce \in asked /\ e \in vouched
  BY <1>5, <1>6
<1>14. x \in OfClass(cert.in, "LIVE_OBSERVATION")
  BY <1>1
<1> QED
  BY <1>6, <1>7, <1>9, <1>10, <1>11, <1>12, <1>13, <1>14, Zenon

\* The build of a pass is the declared one, by a builder that is trusted.
LEMMA DeclaredBuild ==
    ASSUME EvidenceInv, NEW w, cert = Certificate(Inputs(w), now), cert.status = "PASS"
    PROVE  \E e \in vouched :
            /\ e.schema = "build" /\ e.key \in dossier.trust.builderKeys
            /\ e.payload.binary = dossier.release.binary
<1>1. PICK in : in = cert.in
  OBVIOUS
<1>2. /\ Status(AllChecks(in, now)) = "PASS" /\ in.trust = dossier.trust
      /\ in.release = dossier.release /\ in.provenance = provenance
  BY <1>1, Put
<1>3. BuildProvenance(in) = "PASS"
  BY <1>2, PassMeans
<1>4. /\ provenance # None /\ provenance.verified
      /\ provenance.binary = dossier.release.binary
      /\ provenance.signer \in dossier.trust.builderKeys
  BY <1>2, <1>3 DEF BuildProvenance, PassOr
<1>5. PICK e \in vouched : VerifyBuild(e, e.keyId) /\ provenance = BuildToVerified(e)
  BY <1>4 DEF EvidenceInv, BuildGrounded
<1>6. e.schema = "build" /\ provenance.binary = e.payload.binary /\ provenance.signer = e.key
  BY <1>5 DEF VerifyBuild, BuildToVerified
<1> QED
  BY <1>4, <1>6

\* Every replay that was verified is of the declared release, by a key it trusts.
LEMMA DeclaredReplays ==
    ASSUME EvidenceInv, NEW w, cert = Certificate(Inputs(w), now), cert.status = "PASS",
           NEW e \in vouched, e.schema = "native"
    PROVE  /\ e.key \in dossier.trust.replayers
           /\ e.payload.release.binary = dossier.release.binary
<1>1. PICK in : in = cert.in
  OBVIOUS
<1>2. /\ Status(AllChecks(in, now)) = "PASS" /\ in.trust = dossier.trust
      /\ in.release = dossier.release
      /\ OfClass(in, "NATIVE_REPLAY") = [class : {"NATIVE_REPLAY"}, record : natives]
  <2>1. Status(AllChecks(in, now)) = "PASS" /\ in.trust = dossier.trust
        /\ in.release = dossier.release
    BY <1>1, Put
  <2>2. OfClass(in, "NATIVE_REPLAY") = [class : {"NATIVE_REPLAY"}, record : natives]
    BY <1>1, Put
  <2> QED
    BY <2>1, <2>2
<1>3. ReplayAuthorization(in) = "PASS" /\ ReplayReleaseBinding(in) = "PASS"
  BY <1>2, PassMeans
<1>4. PICK r : r = NativeToRecord(e)
  OBVIOUS
<1>5. r \in natives
  BY <1>4 DEF EvidenceInv, NativesGrounded
<1>6. PICK x : x = [class |-> "NATIVE_REPLAY", record |-> r]
  OBVIOUS
<1>7. /\ r.source = "rchain-rust-native-replay" /\ r.content.payload = e.payload
      /\ r.digest = <<r.source, r.id, r.content>>
      /\ r.verified /\ r.signer = e.key
  BY <1>4, NativeRecords
<1>8. x \in Signed(in, "NATIVE_REPLAY") /\ x.record = r
  <2>1. x \in OfClass(in, "NATIVE_REPLAY") /\ x.record = r /\ x.class = "NATIVE_REPLAY"
    BY <1>2, <1>5, <1>6
  <2>2. SourceClassVerified(x) /\ RecordIntact(x.record)
    BY <1>7, <2>1 DEF SourceClassVerified, SourceBinding, RecordIntact
  <2> QED
    BY <1>7, <2>1, <2>2 DEF Signed
<1>9. r.signer \in in.trust.replayers
  BY <1>3, <1>8 DEF ReplayAuthorization, PassOr
<1>10. r.content.payload.release.binary = in.release.binary
  <2>1. \A y \in Signed(in, "NATIVE_REPLAY") :
            LET of == y.record.content.payload.release  rel == in.release
            IN <<of.repository, of.commit, of.binary>> = <<rel.repository, rel.commit, rel.binary>>
    BY <1>3 DEF ReplayReleaseBinding, PassOr
  <2> QED
    BY <1>8, <2>1
<1> QED
  BY <1>2, <1>7, <1>9, <1>10

\* A pass of which nothing was waived has a recovery among its replays.
LEMMA DeclaredRecovery ==
    ASSUME EvidenceInv, NEW w, cert = Certificate(Inputs(w), now), cert.status = "PASS",
           cert.in.waived = {}
    PROVE  \E e, f \in vouched : Recovers(e, f)
<1>1. PICK in : in = cert.in
  OBVIOUS
<1>2. Status(AllChecks(in, now)) = "PASS" /\ in.checks = checks /\ in.waived = {}
  BY <1>1, Put
<1>3. HasPass(in, "RECOVERY")
  BY <1>2, PassMeans
<1>4. PICK d \in Supplied(in) : d.plane = "RECOVERY" /\ d.trusted /\ d.state = "PASS"
  BY <1>3 DEF HasPass
<1>5. PICK c \in checks :
        d = [id |-> c.id, plane |-> c.plane, critical |-> c.critical, producer |-> c.producer,
             trusted |-> IsTrusted(c), about |-> c.about,
             state |-> IF ~IsTrusted(c) /\ c.state = "PASS" THEN "BLOCKED" ELSE c.state]
  BY <1>2 DEF Supplied
<1>6. IsTrusted(c) /\ c.plane = "RECOVERY" /\ c.state = "PASS"
  BY <1>4, <1>5
<1>7. c.attested
  BY <1>6 DEF IsTrusted
<1> QED
  BY <1>6, <1>7 DEF EvidenceInv, ChecksGrounded

\* A pass stands on what this process verified: a fresh snapshot of the declared
\* network, the declared build, and replays of the declared release, one of them of
\* a recovery.  For any dossiers, where every Sentinel's network is named.
THEOREM PassStands ==
    ASSUME Named
    PROVE  Spec => []PassIsGrounded
<1>1. ASSUME CertInv, EvidenceInv
      PROVE  PassIsGrounded
  <2>1. ASSUME Issued, cert.status = "PASS"
        PROVE  \E w : cert = Certificate(Inputs(w), now)
    BY <1>1, <2>1 DEF CertInv
  <2>2. ASSUME Issued, cert.status = "PASS"
        PROVE  \E e \in vouched : \E x \in OfClass(cert.in, "LIVE_OBSERVATION") :
            /\ e.schema = "sentinel" /\ e.key \in dossier.trust.observers
            /\ e.payload.nonce \in asked /\ cert.at - e.payload.at \in 0..dossier.maxAge
            /\ e.payload.view.genesis.hash = dossier.network.genesis
            /\ e.payload.view.conflicting = 0
            /\ x.record.content.payload = e.payload
    BY <1>1, <2>1, <2>2, FreshObservation, Zenon
  <2>3. ASSUME Issued, cert.status = "PASS"
        PROVE  \E e \in vouched :
            /\ e.schema = "build" /\ e.key \in dossier.trust.builderKeys
            /\ e.payload.binary = dossier.release.binary
    BY <1>1, <2>1, <2>3, DeclaredBuild, Zenon
  <2>4. ASSUME Issued, cert.status = "PASS", NEW e \in {e \in vouched : e.schema = "native"}
        PROVE  /\ e.key \in dossier.trust.replayers
               /\ e.payload.release.binary = dossier.release.binary
    BY <1>1, <2>1, <2>4, DeclaredReplays
  <2>5. ASSUME Issued, cert.status = "PASS", cert.in.waived = {}
        PROVE  \E e, f \in {e \in vouched : e.schema = "native"} :
                    /\ f.payload.recovery # None
                    /\ f.payload.recovery.previous = NativeToRecord(e).digest
                    /\ f.payload.observed = e.payload.observed
    <3>1. PICK e \in vouched, f \in vouched : Recovers(e, f)
      BY <1>1, <2>1, <2>5, DeclaredRecovery
    <3> QED
      BY <3>1 DEF Recovers
  <2> QED
    BY <2>2, <2>3, <2>4, <2>5, Zenon DEF PassIsGrounded
<1> QED
  BY <1>1, CertificateKept, EvidenceKept, PTL
-----------------------------------------------------------------------------
(* The package.                                                             *)

\* What is verified was signed as the adapters demand, and once a build on file was
\* verified, so were all of them.
FilesInv ==
    /\ \A e \in snapshots : e = SignEnvelope("sentinel", e.payload, e.key)
    /\ \A e \in Vouched("sentinel") : VerifySentinel(e, e.keyId, None)
    /\ \A e \in Vouched("build") : VerifyBuild(e, e.keyId)
    /\ provenance # None /\ provenance.verified =>
            \A e \in dossier.builds : VerifyBuild(e, e.keyId) => e \in vouched

\* What the process verified, and has not forgotten, verifies offline.
THEOREM FilesKept == Spec => []FilesInv
<1>1. ASSUME Init
      PROVE  FilesInv
  BY <1>1 DEF Init, FilesInv, Vouched
<1>2. ASSUME FilesInv, EvidenceInv, [Next]_vars
      PROVE  FilesInv'
  <2>1. ASSUME UNCHANGED <<dossier, snapshots, provenance, vouched>>
        PROVE  FilesInv'
    BY <1>2, <2>1 DEF FilesInv, Vouched
  <2>2. ASSUME NEW s, NEW n, NEW v, SentinelSigns(s, n, v)
        PROVE  FilesInv'
    <3>1. PICK p : p = [nonce |-> n, at |-> now + Skew[s], view |-> v]
      OBVIOUS
    <3>2. /\ snapshots' = snapshots \cup {SignEnvelope("sentinel", p, s)}
          /\ UNCHANGED <<dossier, provenance, vouched>>
      BY <2>2, <3>1 DEF SentinelSigns
    <3>3. SignEnvelope("sentinel", p, s).payload = p /\ SignEnvelope("sentinel", p, s).key = s
      BY DEF SignEnvelope
    <3>4. \A e \in snapshots' : e = SignEnvelope("sentinel", e.payload, e.key)
      BY <1>2, <3>2, <3>3 DEF FilesInv
    <3> QED
      BY <1>2, <3>2, <3>4 DEF FilesInv, Vouched
  <2>3. ASSUME NEW s, NEW n, NEW e, Answered(s, n, e)
        PROVE  FilesInv'
    <3>1. vouched' = vouched \cup {e} /\ UNCHANGED <<dossier, snapshots, provenance>>
      BY <2>3 DEF Answered
    <3>2. e.schema = "sentinel" /\ VerifySentinel(e, e.keyId, None)
      BY <2>3 DEF Answered, VerifySentinel, VerifyPinned
    <3> QED
      BY <1>2, <3>1, <3>2 DEF FilesInv, Vouched
  <2>4. CASE VerifyFiles
    <3> DEFINE builds == {e \in dossier.builds : VerifyBuild(e, e.keyId)}
    <3>1. vouched' = vouched \cup Good \cup builds /\ UNCHANGED <<dossier, snapshots>>
      BY <2>4 DEF VerifyFiles, Good
    <3>2. \A e \in Good : e.schema = "native"
      BY DEF Good, VerifyNativeReplay
    <3>3. \A e \in builds : e.schema = "build" /\ VerifyBuild(e, e.keyId)
      BY DEF VerifyBuild
    <3>4. \A e \in dossier'.builds : VerifyBuild(e, e.keyId) => e \in vouched'
      BY <3>1
    <3> HIDE DEF builds
    <3>5. Vouched("sentinel")' = Vouched("sentinel") /\ Vouched("build")' = Vouched("build") \cup builds
      BY <3>1, <3>2, <3>3 DEF Vouched
    <3> QED
      BY <1>2, <3>1, <3>3, <3>4, <3>5 DEF FilesInv
  <2>5. CASE Restart
    <3>1. vouched' = {} /\ UNCHANGED <<dossier, snapshots>>
          /\ provenance' = IF provenance = None THEN None ELSE [provenance EXCEPT !.verified = FALSE]
      BY <2>5 DEF Restart
    <3>2. provenance # None => "verified" \in DOMAIN provenance
      BY <1>2 DEF EvidenceInv, Held
    <3>3. provenance' # None => ~provenance'.verified
      BY <3>1, <3>2
    <3> QED
      BY <1>2, <3>1, <3>3 DEF FilesInv, Vouched
  <2> QED
    BY <1>2, <2>1, <2>2, <2>3, <2>4, <2>5 DEF Next, vars, Ask, FetchedUnsigned, Assess, Amend, Tick, Issue
<1> QED
  BY <1>1, <1>2, EvidenceKept, PTL DEF Spec

\* Records given as of one class.
Records(class, given) == [class : {class}, record : given]

Digests(S) == {r.digest : r \in S}

\* A digest stands for one record.
Distinct(S) == \A x, y \in S : x.digest = y.digest => x = y

\* Where a digest stands for one record, it is counted once.
LEMMA CountedOnce ==
    ASSUME NEW S, NEW d, Distinct(S)
    PROVE  Count(S, d) = IF d \in Digests(S) THEN 1 ELSE 0
<1>1. CASE d \in Digests(S)
  <2>1. PICK r \in S : r.digest = d
    BY <1>1 DEF Digests
  <2>2. {q \in S : q.digest = d} = {r}
    BY <2>1 DEF Distinct
  <2> QED
    BY <1>1, <2>2, FS_Singleton DEF Count
<1>2. CASE d \notin Digests(S)
  <2>1. {q \in S : q.digest = d} = {}
    BY <1>2 DEF Digests
  <2> QED
    BY <1>2, <2>1, FS_EmptySet DEF Count
<1> QED
  BY <1>1, <1>2

LEMMA ClassRecords ==
    ASSUME NEW class, NEW given
    PROVE  /\ \A x \in Records(class, given) : x.record \in given
           /\ \A r \in given : \E x \in Records(class, given) : x.record = r
           /\ {x.record : x \in Records(class, given)} = given
<1>1. ASSUME NEW r \in given
      PROVE  \E x \in Records(class, given) : x.record = r
  <2>1. PICK x : x = [class |-> class, record |-> r]
    OBVIOUS
  <2>2. x \in Records(class, given) /\ x.record = r
    BY <2>1 DEF Records
  <2> QED
    BY <2>2
<1>2. \A x \in Records(class, given) : x.record \in given
  BY DEF Records
<1> QED
  BY <1>1, <1>2

LEMMA MatchesByDigest ==
    ASSUME NEW rebuilt, NEW c, NEW class, NEW given,
           OfClass(c.in, class) = Records(class, given), Distinct(rebuilt), Distinct(given)
    PROVE  Matches(rebuilt, c, class) <=> Digests(rebuilt) = Digests(given)
<1>1. {x.record : x \in OfClass(c.in, class)} = given
  BY ClassRecords
<1>2. Matches(rebuilt, c, class) <=>
        \A d \in Digests(rebuilt) \cup Digests(given) : Count(rebuilt, d) = Count(given, d)
  BY <1>1 DEF Matches, Digests
<1>3. ASSUME NEW d
      PROVE  Count(rebuilt, d) = Count(given, d) <=>
                (d \in Digests(rebuilt) <=> d \in Digests(given))
  BY CountedOnce
<1> QED
  BY <1>2, <1>3

\* A pass has nothing but whole, verified evidence.
LEMMA PassOfRecords ==
    ASSUME NEW in, NEW at, Status(AllChecks(in, at)) = "PASS", NEW x \in in.records
    PROVE  /\ RecordIntact(x.record)
           /\ x.class = "LIVE_OBSERVATION" => LiveQuality(x)
           /\ x.class = "NATIVE_REPLAY" => x.record.verified
<1> DEFINE Of(y, name, state) == Check(<<name, y.record.id>>, "REALITY", state)
           Always(y) == {Of(y, "reality_source_class", PassOr("FAIL", SourceClassVerified(y))),
                         Of(y, "reality_integrity", PassOr("FAIL", RecordIntact(y.record))),
                         Of(y, "reality_divergence",
                            PassOr("FAIL", RealityState(y.record) # "DIVERGENT"))}
           Replays(y) == IF y.class = "NATIVE_REPLAY"
                         THEN {Of(y, "reality_native_replay_signature",
                                  PassOr("BLOCKED", y.record.verified))}
                         ELSE {}
           Others(y) == IF y.class = "LIVE_OBSERVATION"
                        THEN {Of(y, "reality_live_challenge",
                                 PassOr("BLOCKED", y.record.challenged)),
                              Of(y, "reality_live_quality", PassOr("BLOCKED", LiveQuality(y)))}
                        ELSE {} \cup Replays(y)
<1>1. \A c \in RealityChecks(in) : c.critical => c.state = "PASS"
  BY Parts, StatusPasses
<1>2. RealityChecks(in) = UNION {Always(y) \cup Others(y) : y \in in.records}
  BY DEF RealityChecks
<1>3. ASSUME NEW name, NEW state, Of(x, name, state) \in Always(x) \cup Others(x)
      PROVE  state = "PASS"
  <2> HIDE DEF Always, Others
  <2>1. Of(x, name, state) \in RealityChecks(in)
    BY <1>2, <1>3
  <2> HIDE DEF Of
  <2>2. Of(x, name, state).critical => Of(x, name, state).state = "PASS"
    BY <1>1, <2>1
  <2> QED
    BY <2>2, Checks DEF Of
<1> HIDE DEF Of
<1>4. PassOr("FAIL", RecordIntact(x.record)) = "PASS"
  BY <1>3
<1>5. x.class = "LIVE_OBSERVATION" => PassOr("BLOCKED", LiveQuality(x)) = "PASS"
  BY <1>3
<1>6. x.class = "NATIVE_REPLAY" => PassOr("BLOCKED", x.record.verified) = "PASS"
  BY <1>3
<1> QED
  BY <1>4, <1>5, <1>6 DEF PassOr

-----------------------------------------------------------------------------
(* The same judgement, piece by piece.                                      *)

Digest(e) == SentinelToRecord(e.key, e, None).digest

\* A snapshot is known by its key and what it says, and so by its digest.
LEMMA SnapshotsByDigest ==
    ASSUME FilesInv, NEW e \in snapshots, NEW f \in snapshots
    PROVE  /\ e.keyId = e.key
           /\ Digest(e) = Digest(f) => e = f
           /\ <<e.keyId, e.payload>> = <<f.keyId, f.payload>> => e = f
<1>1. /\ e = SignEnvelope("sentinel", e.payload, e.key) /\ f = SignEnvelope("sentinel", f.payload, f.key)
      /\ e.keyId = e.key /\ f.keyId = f.key
  BY DEF FilesInv, SignEnvelope
<1>2. ASSUME Digest(e) = Digest(f)
      PROVE  e.key = f.key /\ e.payload = f.payload
  <2> DEFINE C(d) == [url |-> d.key, at |-> d.payload.at, view |-> d.payload.view,
                      payload |-> d.payload, keyId |-> d.key]
             Id(d) == <<d.payload.view.block, d.payload.at>>
  <2>1. \A d : Digest(d) = <<"rchain-sentinel", Id(d), C(d)>>
    BY DEF Digest, SentinelToRecord, Seal
  <2>2. \A d : C(d).keyId = d.key /\ C(d).payload = d.payload
    OBVIOUS
  <2> HIDE DEF C, Id
  <2>3. C(e) = C(f)
    BY <1>2, <2>1
  <2> QED
    BY <2>2, <2>3
<1> QED
  BY <1>1, <1>2

\* The snapshot from which a live record of a pass was made.
LEMMA Originals ==
    ASSUME EvidenceInv, FilesInv, NEW w, cert = Certificate(Inputs(w), now),
           cert.status = "PASS", NEW r \in live
    PROVE  /\ RecordIntact(r)
           /\ \E d \in Vouched("sentinel") \cap snapshots :
                /\ r.digest = Digest(d)
                /\ r.content.keyId = d.keyId /\ r.content.payload = d.payload
                /\ d.keyId \in cert.in.trust.observers
<1>1. PICK in : in = cert.in
  OBVIOUS
<1>2. /\ Status(AllChecks(in, now)) = "PASS"
      /\ OfClass(in, "LIVE_OBSERVATION") = [class : {"LIVE_OBSERVATION"}, record : live]
  BY <1>1, Put
<1>3. PICK x : x = [class |-> "LIVE_OBSERVATION", record |-> r]
  OBVIOUS
<1>4. x \in OfClass(in, "LIVE_OBSERVATION") /\ x.record = r /\ x.class = "LIVE_OBSERVATION"
  BY <1>2, <1>3
<1>5. x \in in.records
  BY <1>4 DEF OfClass
<1>6. RecordIntact(r) /\ LiveQuality(x)
  BY <1>2, <1>4, <1>5, PassOfRecords
<1>7. r.verified
  BY <1>4, <1>6 DEF LiveQuality
<1>8. PICK d \in vouched \cap snapshots :
        d.schema = "sentinel" /\ r.signer = d.key /\ r.digest = Digest(d)
  BY <1>7 DEF EvidenceInv, LiveGrounded, Digest
<1>9. d.keyId = d.key
  BY <1>8, SnapshotsByDigest
<1>10. r.content.keyId = d.keyId /\ r.content.payload = d.payload
  <2> DEFINE content == [url |-> d.key, at |-> d.payload.at, view |-> d.payload.view,
                         payload |-> d.payload, keyId |-> d.key]
             id == <<d.payload.view.block, d.payload.at>>
  <2>1. r.digest = <<"rchain-sentinel", id, content>>
    BY <1>8 DEF Digest, SentinelToRecord, Seal
  <2>2. content.keyId = d.key /\ content.payload = d.payload
    OBVIOUS
  <2> HIDE DEF content, id
  <2>3. r.digest = <<r.source, r.id, r.content>>
    BY <1>6 DEF RecordIntact
  <2>4. r.content = content
    BY <2>1, <2>3
  <2> QED
    BY <1>9, <2>2, <2>4
<1>11. r.signer \in in.trust.observers
  <2>1. ObserverAuthorization(in) = "PASS"
    BY <1>2, PassMeans
  <2> QED
    BY <1>4, <1>7, <2>1 DEF ObserverAuthorization, PassOr
<1> QED
  BY <1>1, <1>6, <1>8, <1>9, <1>10, <1>11 DEF Vouched

LEMMA IntactIds ==
    ASSUME NEW x, NEW y, RecordIntact(x), RecordIntact(y), x.digest = y.digest
    PROVE  x.id = y.id
<1>1. <<x.source, x.id, x.content>> = <<y.source, y.id, y.content>>
  BY DEF RecordIntact
<1> QED
  BY <1>1

\* The snapshots a package verifies with are the ones the pass was made from.
LEMMA SnapshotsAgree ==
    ASSUME EvidenceInv, FilesInv, NEW w, cert = Certificate(Inputs(w), now),
           cert.status = "PASS", CertificateValid(cert), NEW sentinel \in SUBSET snapshots
    PROVE  /\ \A e \in sentinel : e.keyId \in cert.in.trust.observers
                                  /\ VerifySentinel(e, e.keyId, None)
           /\ Matches({SentinelToRecord(e.keyId, e, None) : e \in sentinel}, cert, "LIVE_OBSERVATION")
           <=>
           /\ sentinel \subseteq Vouched("sentinel")
           /\ {<<e.keyId, e.payload>> : e \in sentinel}
                = {<<x.record.content.keyId, x.record.content.payload>> :
                        x \in OfClass(cert.in, "LIVE_OBSERVATION")}
<1> DEFINE rebuilt == {SentinelToRecord(e.keyId, e, None) : e \in sentinel}
           observers == cert.in.trust.observers
<1>1. OfClass(cert.in, "LIVE_OBSERVATION") = Records("LIVE_OBSERVATION", live)
  BY Put DEF Records
<1>2. ASSUME NEW e \in sentinel, NEW f \in sentinel,
             SentinelToRecord(e.keyId, e, None).digest = SentinelToRecord(f.keyId, f, None).digest
      PROVE  e = f
  BY <1>2, SnapshotsByDigest DEF Digest
<1>3. Distinct(rebuilt)
  BY <1>2 DEF Distinct
<1>4. Distinct(live)
  <2> SUFFICES ASSUME NEW x \in live, NEW y \in live, x.digest = y.digest
               PROVE  x = y
    BY DEF Distinct
  <2>1. RecordIntact(x) /\ RecordIntact(y)
    BY Originals
  <2>2. x.id = y.id
    BY <2>1, IntactIds
  <2>3. PICK p, q : /\ p = [class |-> "LIVE_OBSERVATION", record |-> x]
                    /\ q = [class |-> "LIVE_OBSERVATION", record |-> y]
    OBVIOUS
  <2>4. p \in cert.in.records /\ q \in cert.in.records /\ p.record = x /\ q.record = y
    BY <1>1, <2>3 DEF OfClass, Records
  <2>5. p = q
    BY <2>2, <2>4 DEF CertificateValid
  <2> QED
    BY <2>4, <2>5
<1>5. Digests(rebuilt) = {Digest(e) : e \in sentinel}
  <2>1. \A e \in sentinel : SentinelToRecord(e.keyId, e, None).digest = Digest(e)
    BY SnapshotsByDigest DEF Digest
  <2> QED
    BY <2>1 DEF Digests
<1> HIDE DEF rebuilt
<1>6. Matches(rebuilt, cert, "LIVE_OBSERVATION") <=> Digests(rebuilt) = Digests(live)
  BY <1>1, <1>3, <1>4, MatchesByDigest
<1>7. {<<x.record.content.keyId, x.record.content.payload>> :
            x \in OfClass(cert.in, "LIVE_OBSERVATION")}
        = {<<r.content.keyId, r.content.payload>> : r \in live}
  <2>1. /\ \A x \in OfClass(cert.in, "LIVE_OBSERVATION") : x.record \in live
        /\ \A r \in live : \E x \in OfClass(cert.in, "LIVE_OBSERVATION") : x.record = r
    BY <1>1, ClassRecords
  <2> QED
    BY <2>1
<1>8. ASSUME NEW r \in live
      PROVE  \E d \in Vouched("sentinel") \cap snapshots :
                /\ r.digest = Digest(d)
                /\ r.content.keyId = d.keyId /\ r.content.payload = d.payload
                /\ d.keyId \in observers
  BY Originals
<1>9. ASSUME {Digest(e) : e \in sentinel} = Digests(live)
      PROVE  /\ sentinel \subseteq Vouched("sentinel")
             /\ {<<e.keyId, e.payload>> : e \in sentinel}
                    = {<<r.content.keyId, r.content.payload>> : r \in live}
  <2>1. ASSUME NEW e \in sentinel
        PROVE  /\ e \in Vouched("sentinel")
               /\ \E r \in live : <<r.content.keyId, r.content.payload>> = <<e.keyId, e.payload>>
    <3>1. PICK r \in live : r.digest = Digest(e)
      BY <1>9 DEF Digests
    <3>2. PICK d \in Vouched("sentinel") \cap snapshots :
            /\ r.digest = Digest(d) /\ r.content.keyId = d.keyId /\ r.content.payload = d.payload
      BY <1>8
    <3>3. e = d
      BY <3>1, <3>2, SnapshotsByDigest
    <3> QED
      BY <3>2, <3>3
  <2>2. ASSUME NEW r \in live
        PROVE  \E e \in sentinel : <<r.content.keyId, r.content.payload>> = <<e.keyId, e.payload>>
    <3>1. PICK e \in sentinel : r.digest = Digest(e)
      BY <1>9 DEF Digests
    <3>2. PICK d \in Vouched("sentinel") \cap snapshots :
            /\ r.digest = Digest(d) /\ r.content.keyId = d.keyId /\ r.content.payload = d.payload
      BY <1>8
    <3>3. e = d
      BY <3>1, <3>2, SnapshotsByDigest
    <3> QED
      BY <3>2, <3>3
  <2> QED
    BY <2>1, <2>2
<1>10. ASSUME {<<e.keyId, e.payload>> : e \in sentinel}
                    = {<<r.content.keyId, r.content.payload>> : r \in live}
       PROVE  /\ {Digest(e) : e \in sentinel} = Digests(live)
              /\ \A e \in sentinel : e \in Vouched("sentinel") /\ e.keyId \in observers
  <2>1. ASSUME NEW e \in sentinel
        PROVE  /\ e \in Vouched("sentinel") /\ e.keyId \in observers
               /\ \E r \in live : r.digest = Digest(e)
    <3>1. PICK r \in live : <<r.content.keyId, r.content.payload>> = <<e.keyId, e.payload>>
      BY <1>10
    <3>2. PICK d \in Vouched("sentinel") \cap snapshots :
            /\ r.digest = Digest(d) /\ r.content.keyId = d.keyId /\ r.content.payload = d.payload
            /\ d.keyId \in observers
      BY <1>8
    <3>3. e = d
      BY <3>1, <3>2, SnapshotsByDigest
    <3> QED
      BY <3>2, <3>3
  <2>2. ASSUME NEW r \in live
        PROVE  \E e \in sentinel : r.digest = Digest(e)
    <3>1. PICK e \in sentinel : <<r.content.keyId, r.content.payload>> = <<e.keyId, e.payload>>
      BY <1>10
    <3>2. PICK d \in Vouched("sentinel") \cap snapshots :
            /\ r.digest = Digest(d) /\ r.content.keyId = d.keyId /\ r.content.payload = d.payload
      BY <1>8
    <3>3. e = d
      BY <3>1, <3>2, SnapshotsByDigest
    <3> QED
      BY <3>2, <3>3
  <2> QED
    BY <2>1, <2>2 DEF Digests
<1>11. \A e \in Vouched("sentinel") : VerifySentinel(e, e.keyId, None)
  BY DEF FilesInv
<1> HIDE DEF observers
<1> QED
  BY <1>5, <1>6, <1>7, <1>9, <1>10, <1>11 DEF rebuilt, observers

\* A record of a replay is known by its digest.
LEMMA ReplaysByDigest ==
    ASSUME NEW e, NEW f, NativeToRecord(e).digest = NativeToRecord(f).digest
    PROVE  NativeToRecord(e) = NativeToRecord(f)
<1> DEFINE C(d) == [payload |-> d.payload, keyId |-> d.key]
           Id(d) == <<"native", d.payload>>
<1>1. \A d : NativeToRecord(d).digest = <<"rchain-rust-native-replay", Id(d), C(d)>>
  BY DEF NativeToRecord, Seal
<1>2. \A d : C(d).keyId = d.key /\ C(d).payload = d.payload
  OBVIOUS
<1> HIDE DEF C, Id
<1>3. C(e) = C(f)
  BY <1>1
<1>4. e.key = f.key /\ e.payload = f.payload
  BY <1>2, <1>3
<1> QED
  BY <1>4 DEF NativeToRecord

\* So are the replays.
LEMMA ReplaysAgree ==
    ASSUME EvidenceInv, FilesInv, NEW w, cert = Certificate(Inputs(w), now),
           cert.status = "PASS", NEW native \in SUBSET dossier.natives
    PROVE  /\ \A e \in native : e.keyId \in cert.in.trust.replayers
                                /\ VerifyNativeReplay(e, e.keyId)
           /\ Matches({NativeToRecord(e) : e \in native}, cert, "NATIVE_REPLAY")
           <=>
           /\ native \subseteq Vouched("native")
           /\ {NativeToRecord(e).digest : e \in native}
                = {x.record.digest : x \in OfClass(cert.in, "NATIVE_REPLAY")}
<1> DEFINE rebuilt == {NativeToRecord(e) : e \in native}
<1>1. PICK in : in = cert.in
  OBVIOUS
<1>2. OfClass(in, "NATIVE_REPLAY") = Records("NATIVE_REPLAY", natives)
  BY <1>1, Put DEF Records
<1>3. Status(AllChecks(in, now)) = "PASS" /\ in.trust = dossier.trust
  BY <1>1, Put
<1>4. Good \subseteq vouched /\ natives = {NativeToRecord(e) : e \in Good}
  <2>1. ReplayAuthorization(in) = "PASS"
    BY <1>3, PassMeans
  <2>2. Signed(in, "NATIVE_REPLAY") # {}
    BY <2>1 DEF ReplayAuthorization
  <2>3. PICK x \in OfClass(in, "NATIVE_REPLAY") : x.record.verified
    BY <2>2 DEF Signed
  <2>4. x.record \in natives
    BY <1>2, <2>3, ClassRecords
  <2> QED
    BY <2>3, <2>4 DEF EvidenceInv, NativesGrounded
<1>5. Distinct(natives)
  BY <1>4, ReplaysByDigest DEF Distinct
<1>6. Distinct(rebuilt)
  BY ReplaysByDigest DEF Distinct
<1>7. /\ Digests(rebuilt) = {NativeToRecord(e).digest : e \in native}
      /\ {x.record.digest : x \in OfClass(cert.in, "NATIVE_REPLAY")} = Digests(natives)
  <2>1. {x.record : x \in OfClass(cert.in, "NATIVE_REPLAY")} = natives
    BY <1>1, <1>2, ClassRecords
  <2> QED
    BY <2>1 DEF Digests
<1> HIDE DEF rebuilt
<1>8. Matches(rebuilt, cert, "NATIVE_REPLAY") <=> Digests(rebuilt) = Digests(natives)
  BY <1>1, <1>2, <1>5, <1>6, MatchesByDigest
<1>9. ASSUME NEW e \in native
      PROVE  VerifyNativeReplay(e, e.keyId) <=> e \in Vouched("native")
  <2>1. VerifyNativeReplay(e, e.keyId) <=> e \in Good
    BY DEF Good
  <2>2. e \in Good => e.schema = "native"
    BY DEF Good, VerifyNativeReplay
  <2>3. e \in Vouched("native") => e \in Good
    BY DEF Vouched, EvidenceInv, NativesGrounded
  <2> QED
    BY <1>4, <2>1, <2>2, <2>3 DEF Vouched
<1>10. ASSUME NEW e \in Vouched("native")
       PROVE  e.keyId \in cert.in.trust.replayers
  <2>1. e \in vouched /\ e.schema = "native"
    BY DEF Vouched
  <2>2. e.key \in dossier.trust.replayers
    BY <2>1, DeclaredReplays
  <2>3. e.key = e.keyId
    BY <2>1 DEF EvidenceInv, NativesGrounded, Good, VerifyNativeReplay, VerifyPinned
  <2> QED
    BY <1>1, <1>3, <2>2, <2>3
<1> QED
  BY <1>7, <1>8, <1>9, <1>10 DEF rebuilt

\* And the build.
LEMMA BuildsAgree ==
    ASSUME EvidenceInv, FilesInv, NEW w, cert = Certificate(Inputs(w), now),
           cert.status = "PASS", NEW build \in dossier.builds
    PROVE  /\ build.keyId \in cert.in.trust.builderKeys
           /\ VerifyBuild(build, build.keyId)
           /\ cert.in.provenance = BuildToVerified(build)
           <=>
           build \in Vouched("build") /\ BuildToVerified(build) = cert.in.provenance
<1>1. PICK in : in = cert.in
  OBVIOUS
<1>2. Status(AllChecks(in, now)) = "PASS" /\ in.provenance = provenance
  BY <1>1, Put
<1>3. /\ provenance # None /\ provenance.verified
      /\ provenance.signer \in in.trust.builderKeys
  <2>1. BuildProvenance(in) = "PASS"
    BY <1>2, PassMeans
  <2> QED
    BY <1>2, <2>1 DEF BuildProvenance, PassOr
<1>4. VerifyBuild(build, build.keyId) => build \in Vouched("build")
  <2>1. VerifyBuild(build, build.keyId) => build \in vouched
    BY <1>3 DEF FilesInv
  <2> QED
    BY <2>1 DEF Vouched, VerifyBuild
<1>5. build \in Vouched("build") => VerifyBuild(build, build.keyId)
  BY DEF FilesInv
<1>6. ASSUME VerifyBuild(build, build.keyId), BuildToVerified(build) = provenance
      PROVE  build.keyId \in in.trust.builderKeys
  <2>1. BuildToVerified(build).signer = build.key
    BY DEF BuildToVerified
  <2>2. build.key = build.keyId
    BY <1>6 DEF VerifyBuild, VerifyPinned
  <2> QED
    BY <1>3, <1>6, <2>1, <2>2
<1> QED
  BY <1>1, <1>2, <1>4, <1>5, <1>6

\* With nothing but the envelopes, verifyAssurancePackage comes to the judgement of
\* the process that issued the certificate, and with other envelopes it does not: for
\* any dossiers, with any forged or misfiled attestations among them.
THEOREM PackageAgrees == Spec => []OfflineAgrees
<1>1. ASSUME CertInv, EvidenceInv, FilesInv
      PROVE  OfflineAgrees
  <2> SUFFICES ASSUME Issued, NEW sentinel \in SUBSET snapshots,
                      NEW native \in SUBSET dossier.natives, NEW build \in dossier.builds,
                      cert.status = "PASS", CertificateValid(cert)
               PROVE  PackageVerifies(cert, build, sentinel, native) <=>
                /\ sentinel \subseteq Vouched("sentinel") /\ native \subseteq Vouched("native")
                /\ build \in Vouched("build") /\ BuildToVerified(build) = cert.in.provenance
                /\ {<<e.keyId, e.payload>> : e \in sentinel}
                        = {<<x.record.content.keyId, x.record.content.payload>> :
                                x \in OfClass(cert.in, "LIVE_OBSERVATION")}
                /\ {NativeToRecord(e).digest : e \in native}
                        = {x.record.digest : x \in OfClass(cert.in, "NATIVE_REPLAY")}
    BY ZenonT(60) DEF OfflineAgrees, PackageVerifies
  <2>1. PICK w : cert = Certificate(Inputs(w), now)
    BY <1>1 DEF CertInv
  <2>2. PackageVerifies(cert, build, sentinel, native) <=>
            /\ /\ build.keyId \in cert.in.trust.builderKeys
               /\ VerifyBuild(build, build.keyId)
               /\ cert.in.provenance = BuildToVerified(build)
            /\ /\ \A e \in sentinel : e.keyId \in cert.in.trust.observers
                                      /\ VerifySentinel(e, e.keyId, None)
               /\ Matches({SentinelToRecord(e.keyId, e, None) : e \in sentinel}, cert,
                          "LIVE_OBSERVATION")
            /\ /\ \A e \in native : e.keyId \in cert.in.trust.replayers
                                    /\ VerifyNativeReplay(e, e.keyId)
               /\ Matches({NativeToRecord(e) : e \in native}, cert, "NATIVE_REPLAY")
    BY Zenon DEF PackageVerifies
  <2> QED
    BY <1>1, <2>1, <2>2, SnapshotsAgree, ReplaysAgree, BuildsAgree, Zenon
<1> QED
  BY <1>1, CertificateKept, EvidenceKept, FilesKept, PTL
===============================================================================
