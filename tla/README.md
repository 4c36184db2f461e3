# Verification of the assurance lattice

TLA+ models, TLC runs and TLAPS proofs for the program logic under `src/lib` of this repository. The
program keeps signed, content-addressed events in one journal per node, exchanges them between nodes,
replays them into a view, runs three identities under one supervisor, and draws a verdict from what it
exports; around that core it has document compilers, a consensus stress harness and a peer-to-peer room.

Paths below are relative to `src/` of the repository.

## 1. The system

| Component | State it keeps | Operations | Interacts with |
|---|---|---|---|
| Event journal (`lattice/journal.ts`) | SQLite tables `events`, `metadata` | open under a policy, `append` a batch, read pages, `nextSequence` | every process that opens the file: node and supervisor share the owner's |
| Event protocol (`lattice/protocol.ts`) | none | validate, sign, address events | all below |
| Replay (`lattice/replay.ts`) | none, a function of the set of events | equivocations, quarantine, readiness, receipts, statuses, decisions | node (`work`), supervisor (reports), package (verdict) |
| Lattice node (`lattice/node.ts`) | its journal, one `syncing` flag | serve pages and posts, `work()`, `/sync` = exchange with each peer | peers over HTTP, supervisor |
| Assurance engine (`assurance/engine.ts`, `worker.ts`) | workspace files, supervisor lock, child processes, `busy`, `closing` | initialise, `open`, `run`, `recover`, `close` | forks three nodes, writes the owner's journal itself |
| Evidence packages (`assurance/package.ts`) | none | export, verify | journal, replay |
| Peer-to-peer rooms (`multiplayer/p2p.ts`) | cursor, timers, slots with their `RTCPeerConnection` | `join`, poll, `onSignal`, `sendSignal`, watchdog, `close` | the relay `/api/rtc`, the other browsers |
| Omega node (`omega/`) | an engine | `status`, `prove` | the engine's children |
| CBC/Casper harness (`cbc/`) | none | finality, reachability and searches over small message graphs | upstream fixtures |
| Signed evidence (`compiler/*-signed-adapter.ts`, `attestation-*.ts`, `reality-record.ts`) | WeakSets of what this process verified | produce, verify against a pinned key, turn into a sealed record | Sentinels, replay hosts, builders; the fabric |
| Assurance fabric (`compiler/assurance-fabric.ts`, `assurance-package.ts`) | a Symbol on attested checks | make checks, build and validate a certificate, verify a package offline | signed evidence, clocks |
| Token exchange (`compiler/exchange.ts`) | a world of pools and transactions | `prepare`, `prepareReceive`, `commit`, `abort` | callers, two shards |
| Scenario compiler and workbench (`compiler/compile.ts`, `rho.ts`, `observe.ts`, `qlf.ts`, `workbench-state.tsx`) | React state | choose, mutate, compile, observe, compare | the user, four simulated nodes |
| Searches and compilers (`compiler/lexicographic-possibility.ts`, `possibility-plane.ts`, `*-what-if.ts`, `verification-compiler.ts`, `repair-compiler.ts`) | the frontier and the settled costs of a search | ask, verify, repair | adapters supplied by callers, the CBC harness |
| Reality engine (`compiler/reality-*.ts`, `proposition-calculus.ts`) | none | evaluate, resolve, project, certify a dossier | records of every source |
| Database bootstrap (`db.ts`) | promises on the global object | one-time initialisation, migration passes | web server |

What makes the core hard: several operating-system processes on one SQLite file, of which one reads a
number before the transaction that uses it; an exchange made of many small transactions that can stop
anywhere, answered late or twice; crashes between two receipts; events that arrive in any order, with
equivocations that show up after they have been built upon; asynchronous methods of one object that
interleave at their awaits; browsers whose polls overlap; evidence whose authenticity is known to one process and not
to the next; checks made at one moment and judged at another; transactions whose legs lie in two pools and are taken
back after what they paid was spent; searches with limits, ties and adapters that may cheat; judgements of one dossier
computed twice, by different rules.

For each component, what makes it correct:

- journal: always readable, append-only, batches whole, one policy, no slot filled twice by an honest signer;
- replay: the result depends on the set alone; what a view said stays true in later views, except through
  an equivocation;
- node: a sync that answers 200 has brought both sides together; events spread only from their signers;
  receipts arrive despite crashes;
- engine: no child outside the lock and no two that serve with one identity, but for the children of a killed supervisor,
  which stop by themselves; everything begun settles;
- package: PASS is earned and, once a counterexample has been reproduced, gone for good;
- room: a pair ends connected or given up, a leaver is dropped, a closed room holds nothing;
- fabric: a pass stands on evidence verified by this very process, of the declared release and network and fresh; a
  reviewer without its memory agrees; neither more evidence nor more time turns a failure into a pass;
- exchange: balances and reserves are the sum of the legs that stand, and nobody gains by rounding;
- scenario compiler: a counterfactual shows, at the layer it struck; what a scenario deploys reduces to one residue, whatever
  COMM is taken first; the two quorums do not contradict each other;
- searches: what is found is right and least, and "not found" is said only when there is nothing to find;
- reality engine: a positive certificate is earned, and the ledger says the same as the judgement.

## 2. Modules

| Module | Models | State and actions |
|---|---|---|
| `Journal` | `lattice/journal.ts` | `table` with its AUTOINCREMENT counter, `pinned` policy, `writer` (who holds the write lock); per process `pc`, the `next` number it has read, the `batch`, how much of it is `done`, and its private `txn`. Opening, reading the number, signing, receiving, one step per event of a batch, commit, every refusal, crash. |
| `ReplayView` | `lattice/replay.ts` | operators on a set of events: `Equivocating`, `Quarantine`, `Ready`, `Blocked`, `Receipts`, `ClaimStatus`, `ValidDecision` ... The two while loops are written as least fixed points. |
| `Replay` | replay after each delivery | `received` grows by any event of a history, in any order, repeatedly; the view is recomputed. |
| `ReplayLoop` | the loops themselves, `replay.ts` 79-98 | passes and visits in any order, with the `changed` flag. |
| `EvidenceVerdict` | `assurance/package.ts` | extends `Replay`: the verdict of a package exported at any moment of a history, against the pins of a review. |
| `LatticeNode` | `lattice/node.ts`, `engine.ts` submissions | per node `journal`, `handler` (down, listening, in the middle of `work()`), `sync` (phase, peer, round, cursor, ceiling, page); `wire`: posts in flight. A step is what a node does between two awaits; each receipt is one. |
| `EventSet` | the abstract specification of `LatticeNode` | sets that only grow; an event enters at its signer, in a fresh slot, and spreads by copying. |
| `AssuranceEngine` | `assurance/engine.ts`, `worker.ts` | supervisors with `phase`, `closing`, `busy`, `processes`, what they await; the workspace's `lock` and `files`; the children ever forked. |
| `P2PRoom` | `multiplayer/p2p.ts`, one pair | timers, polls with their stage (each await is one), cursors, slots, open connections with the chain of calls under way on them, queues of signals; the relay and `RTCPeerConnection` are external state machines. |
| `SignedEvidence` | `attestation-crypto.ts`, `attestation-producer-node.ts`, the four adapters, `reality-record.ts` | operators: `Sign...`, `Verify...`, `...ToRecord`. A signature is the key with what it signed, a digest is what it is taken of. |
| `AssuranceFabric` | `assurance-fabric.ts`, `assurance-package.ts` | what is declared, `now`, nonces `asked`, `snapshots` signed, `live` and `natives` records with the mark of this process, `provenance`, `checks`, `cert`. Asking, signing, answers late or of an earlier request, verification of files, checks, amendment, restart, time, issue. |
| `TokenExchange` | `exchange.ts` | `pools`, `txs`; `Prepare`, `PrepareReceive`, `Commit`, `Abort`, each as the code does it, refusals included. |
| `RhoProcess`, `RhoReducer` | `rho.ts` | a process as a term, and the processes that scenarios deploy; `Spread`, `CommLoop`, `Reduce`. |
| `ScenarioCompiler` | `compile.ts`, `observe.ts`, `qlf.ts`, the adapter to records | operators from the request to the verdict. `Compile` makes a reality (`Process`, `Blocks`, `ObserveBlock`, `CrossNode`, `LatticeAnalyze`); `LinkEnvelopes`, `Evaluated`, `Checks`, `Witness`, `OverallStatus` are its report; `DiffReality` compares two. The reducer is the constant `Reducer`, so that one can prove about the rest. |
| `Workbench` | `workbench-state.tsx` | `scenario`, `mutation`, `playhead`, `playing`, `pending` (rendered, effects not run). |
| `WorkbenchReduction` | the two together | `Reducer` is meant to be `RhoReducer`'s `Reduce`, and is in the run. |
| `LeastCostSearch` | `lexicographic-possibility.ts`, `possibility-plane.ts` | a search is a record (frontier, best, settled, prints, found, status); `Visit` is one turn of its loop, `Relax` the edges of one state. |
| `VerificationCompiler` | `verification-compiler.ts`, `repair-compiler.ts` | operators: which adapter, what it may answer, which repairers, which moves are honest. |
| `CasperDag` | `cbc/casper-finalizer-semantics.ts` and its neighbours | histories of messages, `Finalized`, `Reachable`, `RemoveParent`, `Baseline`, the repair of coverage. |
| `Inquiry` | both what-ifs, finite-state, Casper and repair searches | `job`, `pass` (abstract or exact), `search`, `cheated`, `answer`: `Open` starts a search (or refuses), then one `Visit` per step, `Close` or the second pass. |
| `PropositionCalculus`, `RealityEngine` | `proposition-calculus.ts`, `reality-calculus.ts`, `reality-engine.ts`, `reality-proof-core.ts`, `reality-loop.ts` | `dossier`, to which a caller adds one entry at a time; `RunRealityEngine(dossier)` is the certificate. |

`MC*` modules give constants to TLC; `MCEvidence`, `MCWorkbench` and `MCCompiler` also put systems that do not interact
side by side, one of which moves in a behaviour. `*Proofs` modules hold theorems; `BrowserProofs` has those of `P2PRoom` and
of `Workbench`. Composition: `EvidenceVerdict`
extends `Replay`, which extends `ReplayView`; `ReplayLoop` is shown to compute `ReplayView`'s fixed points;
`LatticeNode` uses atomic durable appends, which is what `Journal` establishes, and implements `EventSet`
through `held[n] <- events of journal[n]`. A definition named `...Mutant` is a plausible bug of the one
that follows it; `PROJECT.json` says which property refutes it, so every property is known to bite.

### Abstractions worth knowing

- Content is abstracted to what is compared. An identifier determines its event and references are parents
  (that is what `validateEvent` establishes), so both are assumptions on the constant `ev`.
- A verifier is deterministic (`Result`) or throws. Members of the policy outside their domain are
  distinguished by `Admitted`.
- In `LatticeNode` the task, claim, evidence and request of one submission are two events, and all signers
  are honest; dishonest ones are `Replay`'s and `EvidenceVerdict`'s matter. Supervisor and owner node sign
  with one identity from two processes, but never at once: the supervisor submits only while the node waits.
  `Journal` shows what goes wrong otherwise (its `OneSigner` assumption, below).
- In `AssuranceEngine` a run is the order of its calls and the ways it ends.
- In `SignedEvidence` the shape of a document is reduced to one flag for each rule that it can break; identifiers are
  normalised. Fetching three unsigned documents is one record, marked as unsigned.
- A certificate is issued once in a behaviour of `AssuranceFabric`: issuing changes nothing else, so whatever could
  follow one is reached without it.
- `TokenExchange` leaves out the log of events. `compile()` runs the exchange on a world of its own and uses nothing
  of it but the log, so the two meet in `MCWorkbench` only.
- `RhoReducer` numbers unforgeable names by the `new` that makes them, not by position and digest.
- `QuorumJudges` observes with a liar, an unreachable node, or both; `compile()` itself uses the first only.
- In `LeastCostSearch` any of the cheapest entries of the queue may be next: the code orders them by their keys, and the
  properties hold for any order. A state's key is given by the caller; its fingerprint is the state.
- A message of `CasperDag` is its sender and number (no fixture has equivocations). Replaying a Casper witness
  gives the state that was found, so it is that state. A claim is its scope with its assumptions.
- In `RealityEngine` identifiers are numbers; rationales, digests and timestamps are left out. Adding an entry to the
  dossier stands for the caller building another input. A term is the sequence of its rules, innermost first, since only
  `COMP` has two premises and `realityTerm` gives it a single observation for the second; it is evaluated by a recursive
  function on positions, and the rounds of the selection are one on numbers of rounds.
- In `AssuranceEngine` a child killed by the launch timer counts as gone from the signal on (`engine.ts:152`): it runs no line
  of the worker after it, and nobody awaits its exit.
- A child whose supervisor was killed does not: it runs until its `disconnect` handler stops it, while the next
  supervisor takes the lock and forks the same identities. `OnlyOrphansOverlap` and `OrphansStop` say what that overlap is
  and that it ends.
- `RTCPeerConnection` chains its operations. Closing it leaves those under way or waiting unsettled for ever, so a poll
  that awaits one on a connection closed under it does nothing more (`Hung`); the loop goes on where a timer was or is set
  for the next poll (`Begin` may use its number again). A connection may fail once it has both descriptions, connected or not.
- In `P2PRoom` a description is its connection, number and, for an answer, the offer answered. ICE candidates
  follow their description in the same queue and are left out. A room is a full mesh whose pairs share only
  the poll loop, so one pair is modelled.

## 3. Runs

Numbers are distinct states.

| Run | Size | Question and answer |
|---|---|---|
| `journal` | three processes, two signers and a process of another policy; capacity 3, batches of 1 and 2 | Whatever the interleaving of opens, appends, rollbacks, refusals and deaths, no slot is filled twice, provided that each signer is one process, and what becomes visible is a whole batch. |
| `evidence` | 41 events in seven histories, three reviews with right and wrong pins, and 6 events for the loops | Views never contradict earlier views; which verdicts can follow which; the loops stop, with the fixed points, in every order of visits. |
| `evidence_missing` | a history in which a task and its claim arrive before the task's dependency | Violated: see findings. |
| `node` | owner and worker, two tasks, pages of 2, capacity 6, one fault (crash or timeout) | Safety, refinement of `EventSet`, every receipt arrives unless a journal is full. |
| `engine` | two supervisors, six children, one killed supervisor, one child dying or late | The lock covers the children, except those of a killed supervisor; only these overlap with another process of their identity, not serving any more or not yet, and they stop; configurations are complete, what was begun settles. |
| `engine_impatient` | the same, callers may close during `recover()` | Violated: see findings. |
| `p2p` | one pair, two polls at a time at the receiver, whose connections may refuse offers, and one disturbance (a call lost, doubled or late, a broken link, a pair that finds no path, a leaver) | Every pair is decided, no connection is forgotten while it is open, a closed room is closed, leavers are dropped. |
| `fabric` | two Sentinels of which one has a clock ahead, a nonce, two snapshots, two records, replays and builds on file of right and wrong releases, two instants | A pass is grounded, a reviewer offline agrees, evidence cannot be outweighed, waiting improves nothing. |
| `workbench` | every scenario and mutation; two holders, two transactions, three legs in two linked pools; five processes for the reducer besides those of the scenarios | Counterfactuals show where they struck, quorums agree, the listed processes and those of the scenarios have one residue each, the ledger adds up, nobody gains. |
| `compiler` | every part of a system of seven edges with up to two failures and two limits; seven Casper histories, one of them with two price lists; ten coverages to repair; 658 repair problems; all dossiers of four entries | What is found is right and least; what is not found is not there; propositions settle; certificates are earned and agree with their ledger. |
| `divergence` | dossiers of four entries | Violated: see findings. |
| `equivocation` | the same, with bets of one source on one target and on two | Violated: see findings. |

### Bounds, and why they are enough

- Journal: capacity 3 with batches of 2 is the smallest in which a batch is refused half way, both on an
  empty and on a filled table, and leaves room for another signer's event in between. The theorems remove
  the bound.
- Replay and evidence: the histories are chosen so that each clause of each operator decides an outcome
  somewhere; arrival order is unrestricted. The theorems hold for every set of events.
- Node: pages of 2 over up to six events give several pages per pull; the one fault may fall between any two
  steps, and posts in flight survive it. With one workload submitted the journals hold five events and nothing is
  refused; the second one fills them, in the middle of a pull or between a pull and a post. Only the worker has a peer, as in the
  engine (the owner is given none), and `ReceiptsArrive` rests on that one side asking both ways. With the worker as a peer of
  the owner too, one workload and capacity 3, TLC finds the same properties to hold (18,384 states); that is not among the
  runs.
- Engine: six children allow an initial launch and one recovery; more children repeat the same states.
- Room: one recovery attempt reaches the terminal state as five do; connections count upward, so each
  rebuilt one is distinguished from all earlier ones. The number of disturbances bounds the rebuilds. With the second poll at
  the dialer instead (`DialerOverlap`) the same properties hold (502,574 states); the theorems have polls everywhere.
- Fabric: two snapshots and two records are what it takes for one observation to excuse, or to spoil, another; two
  instants for an observation to age out or to lie in the future.
- Workbench: three legs give a transaction with two legs in one pool or in two, and one more to spend what was paid in
  between; the amounts 1 and 50 are rounded differently, to nothing and not. Holders and transactions are symmetric.
- Compiler: with seven edges every way a witness contradicts itself occurs (a component failed and up, too many
  failures, an edge that contradicts itself), with all its subsets as control. The limits 2 and 100 stop a what-if early
  and never, 1 and 100 a Casper search. `Depth = 4` bounds the ways an answer is compared with; with three nodes and five
  repair states no cheapest way is longer. Casper histories have up to three validators and three layers over the genesis,
  bonds for which one deletion, several or none suffice, and two that upstream does not admit. The theorems remove these bounds. Four entries let two verifications and the two
  propositions of one identifier meet with an observation.

`CHECK_DEADLOCK FALSE` is set where the system may stop for good: an engine that was closed, a room
all of whose members left, a certificate that was issued, an inquiry that was answered, a dossier that is full.

### Fairness

- Loops of replay: one thread that nothing interrupts (`WF` of the loop).
- Node: event loops run on (`WF` of exchanging and serving), and a call nobody answers times out: every
  `fetch` of a sync is under `AbortSignal.timeout(10000)`. `ReceiptsArrive` further assumes an operator who
  restarts nodes and asks for a sync again; the code has no retry of its own
  (`docs/INTELLIGENCE_LATTICE_EVENT_CORE.md:113-115` promises that quiescent peers with capacity *can* exchange everything). Faults are finitely many.
- Engine: a launch settles by its 10 s timer, a stop by `SIGKILL` after 2 s, a run by its deadline, a child
  whose parent is gone by its `disconnect` handler.
- Room: timers fire, fetches settle, connection events are delivered; a disturbance is never forced.

### Findings

1. `evidence_missing` (`MissingBlocks`): the provenance of a claim is only known once the claim is ready, so while
   a dependency is missing, or when one is quarantined, `assurance/package.ts:209` answers FAIL ("does not bind to
   exactly the declared task") although it does; `docs/ASSURANCE_ENGINE.md:80-81` says BLOCKED for missing
   dependencies and quarantined evidence. When the dependency arrives, the FAIL becomes BLOCKED.
2. `engine_impatient` (`LockCoversChildren`): `close()` ignores `busy` (`engine.ts:390`). During `recover()` it
   frees the lock while children are still to be forked; `docs/ASSURANCE_ENGINE.md:73` promises one supervisor.
   With callers that await `recover()` first (`Impatient = FALSE`) the property holds.
3. `divergence` (`DivergenceShows`): a check is judged by the first verification of its predicate
   (`compiler/reality-calculus.ts:131`), in the order of their identifiers. With a CONSISTENT one first and a DIVERGENT
   one after it, the certificate is CONSISTENT; `docs/FAILURE_CONTAINMENT.md:51` says that divergence must not be hidden
   by a positive observation. With one verification for each predicate nothing is hidden (`LedgerAgrees`, `PositiveIsEarned`).
4. `equivocation` (`OneClaimPerTargetIsHonest`): bets are grouped by their source alone (`compiler/proposition-calculus.ts:165`),
   so one who claims something of one target and something else of another is an equivocator, and the certificate
   has a failed obligation; `docs/RCHAIN_PROPOSITION_CALCULUS.md:38` says "multiple distinct claims for the same target cycle".

Limits met on the way and not counted as findings, since no text of the repository promises otherwise:

- the fabric's identifiers of Sentinel checks collide for two Sentinels that see one block in one millisecond, and a
  certificate that says PASS is then refused by its own validation (`assurance-fabric.ts:1892`); a requirement given as
  `undefined` does the same;
- an invariant that failed is no check, so a doubled identity or a missing justification fails the report but not the
  sealed record (`reality-record-adapter.ts:159`);
- the repair of coverage with two missing senders may end in "non-injective stateKey", because the key sorts the
  justifications and the fingerprint does not (`casper-repair-adapter.ts:213`); `RepairIsLeast` admits that answer;
- an observation that names no network id is compared with no declared network, and may yet be the one that makes a
  certificate fresh (`assurance-fabric.ts:1395` and `1490`; the theorem `PassStands` excludes it by its hypothesis);
- a second proposition of an accepted identifier is neither accepted nor rejected (`proposition-calculus.ts:108`);
- of two receivers with different continuations on one name, the first gets the message (`rho.ts:157`), so their order
  decides what is left; `ReductionAgrees` is about the processes it lists, none of which has such a race.

Another limit, also not counted as a finding: in a room, an answer is
applied to any outstanding offer (`p2p.ts:387`). An answer to an earlier connection, applied to a rebuilt one,
makes the right answer fail, and `recreatedForOffer` (`p2p.ts:392`) permits one rebuild per slot. Such a pair ends
`terminal` instead of connected. `Decided` therefore says "connected or terminal", and "connected" alone is false.

## 4. Proofs

Checked by TLAPS for every value of the constants that satisfies the assumptions named in the modules.

**Journal** (`JournalProofs`). `IInv` = types, `Sound(table)` (finite, positions exactly 1..counter, unique
positions and identifiers, one policy, within capacity), `OneWriter`, `OpenPolicy` and `InProgress`: the private
table of the writer is itself `Sound`, contains the committed one, and holds exactly the first `done` events of the
batch besides. None of the promises is inductive alone: that positions stay dense needs the counter to be part of
the transaction, that batches are whole needs to know what the private table holds. Theorems: `TypeCorrect`,
`JournalAlwaysReadable`, `IdsUnique`, `PolicyStaysPinned`, and the action properties `CommittedStays` and `BatchesAtomic`.
`SignersNeverEquivocate` needs a second invariant, on the numbers read before the transaction, and one more
assumption, `OneSigner`: two processes do not sign with one identity. The documentation asks it of the operator
(`docs/INTELLIGENCE_LATTICE_EVENT_CORE.md:98-99`); without it TLC finds the equivocation.

**Replay** (`ReplayProofs`). Lemmas on the fixed points (closed, least, monotone in the set
of events) and on each judgement (what a ready event was told depends on its causal past). With the invariant that
the view is the one of the events received: `ReadyStaysClean`, `QuarantineNeverShrinks`,
`ReadyNeverWaitsAgain`, `JudgementIsFinal`, `DecisionIsFinal`, `StatusNeverFlips`.

**Loops** (`ReplayProofs`). `LoopsCompute`: whenever the loops of `replay.ts` have ended, they have computed
`Quarantine` and `Ready`. The invariant says that what is found is real, and that after a pass that changed nothing what
was visited is closed. That they end is left to TLC (liveness).

**Verdicts** (`ReplayProofs`). `PassEarned`, `CounterexampleIsFinal`, `FailureNeverPasses`, `PassLostForCause`. The first
rests on the causal cone being the least closed set: what is ready is closed under parents, so the cone of ready events is
ready, however long its paths. The last compares witnesses of the verdict before and after an arrival, which needs that
the witnesses are finite.

**Nodes** (`NodeProofs`). `TypeCorrect`, `EquivocationFree`, `NothingSaidTwice`, and `Implementation`: every behaviour of
the nodes is one of `EventSet`. The argument first shows that a step either leaves the journals alone, or stores at one
node rows whose events are stored somewhere (`Copied`), or rows that this node signs with fresh numbers and messages it
has not signed before (`Signed`); every later fact follows from that alone. The inductive invariant `IInv` adds what makes
it so: a page or a post in hand holds stored events (`InHandStored`), a signer's own journal has all it ever signed
(`SignersRemember`, which a crash keeps because the journal is durable), the owner never has a request without its task
(`TasksFirst`), journals and pages are finite, and whoever exchanges has the peer (`PeersConfigured`). That submissions
and receipts are signed once then follows from looking into one's own journal only, as the code does.
`FiniteNumbers` holds the two facts about finite sets of numbers on which the numbering rests here and in `JournalProofs`.

**Exchange** (`NodeProofs`). `StoredInOrder` (`CausalOrder`) and `SyncDelivers` (`SyncKeepsPromise`), with the invariant
`ExchangeInv` on top of `IInv`. Neither property is inductive: that an event is stored behind what it refers to needs to
be known of what is under way as well. So: the rows of a journal are placed at 1..n without gaps (`Placed`); a page in
hand is the next piece of the peer's journal after the cursor, so all that its events refer to is in it or was stored
before; a post in flight carries an event whose parents the receiver already has (`PostSound`: the push goes in the order
of the journal, and nothing is ever taken out of one), so it may arrive late, twice or after a restart; what the node
itself signs refers to what it has. For the promise of a 200 the invariant follows the phases of a sync: what was there
at its start is below the ceiling, everything below the cursor of a pull is stored here, everything a push has passed is
stored there, and the receipts that `work()` owed between the rounds are among what the second round pushes.

**Engine** (`EngineProofs`). `OneSupervisor` (`LockCoversChildren`), `SecondSignerIsOrphan` (`OnlyOrphansOverlap`), and
`KeysFirst` (`ConfigurationHasKeys`), for any number of supervisors and children. The invariant gives every child that runs to
somebody (`Tended`): managed, being launched, or waited for by a supervisor that holds the lock (`HoldsLock`); the i-th child
managed has the i-th identity (`Manages`), the one being launched the next (`Launches`), and who stops waits for all he
manages (`Stops`). From it follows that two children whose supervisors live have two identities (`OwnedOnce`). The children of
a killed supervisor belong to nobody, and the operating system frees its lock at once (`engine.ts:64`), so the next supervisor
may run their identities beside them, until they stop; `docs/ASSURANCE_ENGINE.md:73` names both facts, but not the overlap,
and asks that no other process sign with these identities. What is proved is that nothing else overlaps, and that such a child has been told to stop, or has yet to start and find out
(`OrphansUnready`). The first two theorems assume `Impatient = FALSE`, that is that callers do not close during `recover()`:
without it they are false, see finding 2. `KeysFirst` assumes nothing.

**Room** (`BrowserProofs`). `RoomIsLeft` (`ClosedIsClosed`) and `OnePerPeer` (`OneConnection`), for any number of polls at either
side, attempts and faults, whoever's connections may refuse offers. The invariant `RoomInv`: a member's slot has its connection
open and no other, and without a slot there is none (`Owns`); a closed room has none. Overlapping polls do not break it, because
whoever closes a connection replaces or removes it in its slot at the same time, and a poll in hand of another connection has a
closed one, whose calls never settle: what settles settles on the connection of the slot (`Settles`). Were a call to settle
on a closed connection, the rebuild of `p2p.ts:395-397` would forget the connection of another poll; no browser does that.

**Fabric** (`FabricProofs`). For any dossiers, Sentinels, views, clocks and bounds:

- `EvidenceCounts` (`FailStands`): the checks that can fail are monotone in the records. Gates never fail, so nothing else
  has to be looked at.
- `WaitingIsVain` (`LaterIsNoBetter`): only freshness depends on the time, and it only wanes once nothing lies in the future.
- `PassStands` (`PassIsGrounded`). The invariant `EvidenceInv` says of everything the verifier holds where it has it from:
  a live record marked as verified has the digest of a snapshot verified by this process under its signer's key, with a
  nonce that was asked if it counts as challenged; native records are those of all files that verify, once one of
  them was verified; a verified provenance is of a build that was verified; an attested recovery check that passes is of two
  replays that were. Amending keeps the digest and changes the content, which is why a pass needs the integrity check;
  restarting clears every mark. The hypothesis `Named` says that the views of the Sentinels name network, shard and genesis.
  It is needed: `networkIdentityBindingCheck` compares the observations that name all three
  (`assurance-fabric.ts:1395-1397`), while freshness (line 1490) takes the youngest of any. With a second Sentinel that names no
  network id and sees another genesis, TLC finds a pass whose only fresh observation is that one's.
- `PackageAgrees` (`OfflineAgrees`), without hypotheses. A second invariant, `FilesInv`, says that what is vouched for
  verifies under its own key without a nonce, and that builds are verified together. The proof then shows, for snapshots, replays
  and build in turn, that a digest stands for one record (`Distinct`), so that comparing counts of digests, as the code
  does, is comparing sets; and that a digest stands for one envelope.

`CertificateKept` says that a certificate is the one of what is held: it is issued once in a behaviour.

**Ledgers** (`CompilerProofs`). For any holders, pools, transactions and amounts, and for any pools of entries:

- `LedgerKept` (`LedgerMatches`). The invariant `TokenInv` adds the types, that every leg got the quote of its pool,
  that legs are finitely many, and that what was undone is among them. Sums over legs are folds of the community modules;
  that a sum grows by what is added, splits over disjoint sets and does not depend on order is proved first,
  each time by a smallest set for which it fails (strict subsets of a finite set are well-founded).
- `NoGainKept` (`NoGain`) follows from `TokenInv`: each leg pays at most what it is worth, so all do.
- `SettlesKept` (`PropositionsSettle`). A round that accepts something takes it from what is left, so there are at most as many
  such rounds as propositions, and the loop has settled after so many. `DossierInv` says that a dossier is finite and from its pools.
- `EarnedKept` (`PositiveIsEarned`). A term is evaluated rule by rule: an invariant on the prefixes says what the state reached
  so far owes to observations, checks and replay. That its rules can be listed needs that finite sets of numbers can be sorted.
- `AgreementKept` (`LedgerAgrees`) compares the judgement of the term with the status of every obligation. `DivergenceShows`, without
  the hypothesis on predicates, is finding 3.

**Workbench** (`BrowserProofs`). `QuorumKept` (`QuorumJudges`), `ChainKept` (`ChainBinds`) and `BlameKept` (`BlameLands`), whatever
reduces the processes. What they take for granted is named in `Workbench`: `null` is no letter and no capability
(`NullAssumption`), and the reducer brings the process of every scenario to a normal form, in some number of COMMs
(`ReducerAssumption`); that its state depends on the process is not needed. The state machine contributes little: once the effects
have run, the mutation is one that the scenario has (`WorkbenchInv`; a pending one need not be, which is why the properties
speak of what is no longer pending). The rest is about what `compile()` makes:

- A reality is `Refused` (no capability, and nothing after it) or `Carried` through every layer, with a block that is not the
  lie (`CompileRefused`, `CompileCarried`). Every later lemma has these two cases.
- Judgements are counts. `LeftOfFour` and `VotesCounted` count the nodes that are left when one lies and one is
  gone; `Judged` compares that with the quorum and with the first node that answers, whichever it is.
- The hash of an envelope is of its content and of the hash before it, so that two chains with one end are made alike, back to their
  first entries (`OneEnd`, by the first place at which they differ); the entries say what every row before
  the verdict is made of (`OneEndOneReality`).
- The report is known by the set of its findings: `FoundOf(m)` and `CheckedOf(m)` say which a carried reality has under a mutation. The
  least place of a failure is then the layer struck (`VerdictCarried`), and the record diverges exactly with the checks
  (`RecordDiverges`). No row before the layer struck differs, and one at it or after it does (`Differs`); for an
  abort this needs that the two processes are different terms (`AbortIsAnother`), so that their blocks are.

**Inquiries** (`CompilerProofs`). `AnswerKept` (`AnswerIsExact`), `RepairKept` (`RepairIsLeast`) and `CounterexampleKept`
(`CounterexampleIsLeast`), for any edges, histories, prices, spaces of changes, verifiers and limits. One argument serves all
three. A search walks a graph: states with a key each, the moves of every state with their costs, a start, goals, a number of
dimensions. `Sound` is what one turn of the loop of `searchLexicographicPossibility` keeps, whatever the adapter offers on
that graph: what is recorded has its types (`Typed`); an entry of the queue is a state of the graph with its key and is never
cheaper than what is best for that key (`Queued`); what is not settled waits in the queue at its best cost (`Waiting`); no entry
is cheaper than anything settled (`SettledFirst`); the start is known and free (`Started`); and the moves of a settled
state lead to keys known for no more than going that way costs, goals being among the unsettled until one is found
(`Expanded`). `SettledFirst` is what makes the first goal the least, and it is kept because costs are natural numbers, so
going on never saves anything. From `Sound` it follows (`Covers`) that wherever a way of any length leads, either its end is
settled at no more than the way costs, or the queue holds something that costs no more. Hence the first goal that is taken
out of the queue is no dearer than any way to a goal, and an empty queue means that there is none.

- What-ifs and the finite-state verifier run this twice. In the abstract graph every edge is passable that some
  failures permit; in the exact one a state also says what has failed and what is known to be up, and moves to
  consistent states only. A way under one set of failures is a way of both graphs (of the exact one, in the state
  that names just the components the way needs), so that no witness in the abstract graph means there is none,
  and a witness of the exact one is a way under the failures it names.
- A repair search may be offered moves that change the claim. The graph is that of the moves which do not, since the search
  drops the others and remembers (`cheated`) that it was offered one; whoever was, answers BLOCKED and no repair. A goal is a
  state whose verification compiles: `RepairedIs` shows that this is so exactly when the verifier, asked about this
  problem and answering for it, says UNREACHABLE.
- A counterexample search walks the cube of deletions. Its states are histories, of which two sets of deletions give one
  only if they are equal; the cost of a set is the sum of its prices, and any order of deleting adds up to it. Every set can be
  reached one deletion at a time, since upstream's rules for a history, which the search checks at every state it
  visits, forbid none as long as a message keeps its predecessor (`DeletionsReach`). What a message has seen is computed
  from the parents that are left; that this has one solution where every message is grounded is `SeenIsOne`.

These rest on what `Inquiry` assumes of its questions: edges are finitely many, with costs of one length
(`WhatIfAssumption`; there is an edge because the model reads the number of objectives from one, where the code is given it);
histories are finite and every parent has a price (`HistoryAssumption`); a repairer's space has finitely many moves from a state, to its own states
(`SpaceAssumption`); a verifier answers the problems it supports (`VerifierAssumption`). The code checks the first at its entry,
and an array is finite. `Depth` is any natural number, so that the theorems speak of ways of every length.

The journal's theorems about readability, identifiers and the policy, and the replay's about readiness and quarantine
(`JournalAlwaysReadable`, `IdsUnique`, `PolicyStaysPinned`, `CommittedStays`, `ReadyStaysClean`, `QuarantineNeverShrinks`,
`ReadyNeverWaitsAgain`), and `ChainKept` about the envelopes of the workbench (`ChainBinds`), have no run of their own: each is
proved for all instances, and the deeper properties of the same modules are checked as well.

Only model-checked:

- all liveness properties (`Terminates`, `ReceiptsArrive`, `OrphansStop`, `BusyReleased`, `Decided`, `LeaverDropped`), which
  the prover does not reach, and what `P2PRoom` says of stalls, which are defined with ENABLED;
- `ReductionAgrees` of `WorkbenchReduction`: what a reducer makes of a process is a RECURSIVE operator, and reducing is a
  recursion over data. `ReducerAssumption`, which the theorems about the workbench take from the reducer, is
  evaluated by TLC for `Reduce` and all the scenarios in the run `workbench`;
- findings: a property that a run refutes is proved at most under the condition that the finding names.

## 5. Not modelled, and the plan

Left out for good, with the reason in `PROJECT.json`: parsing and canonical encoding, signature schemes, document
adapters, command lines, pages, release scripts and trace tools.

Not modelled so far:

- the artifact chain: `compiler/ecosystem-chain.ts`, portable packages, repair packages and signed roots. They bind
  documents by digests; the rules a reader would argue about are those of the fabric, which are modelled;
- the CBC simulator, the fragility engine, the adversarial search, the stake and delivery matrices and the tension
  minimizer: sweeps over the same fixtures whose results are reported and gate nothing;
- `omega/node.ts`, whose status walks processes that a recovery may replace, and `db.ts`, where concurrent first queries
  share promises: both listed as hazards.

Next, in this order:

1. Action properties of the modules that have invariants proved: that a lock changes hands only through nobody
   (`EngineProofs`), and that a closed room stays closed (`BrowserProofs`).
2. `Omega`, `DbBootstrap` and the artifact chain.
