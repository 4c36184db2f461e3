-------------------------- MODULE MCAssuranceFabric --------------------------
(***************************************************************************)
(* Two Sentinels, one of them with a clock ahead; a network they see as    *)
(* one, or on which they see a conflict; dossiers that would pass and      *)
(* dossiers with one thing wrong.                                          *)
(***************************************************************************)
EXTENDS AssuranceFabric, TLC

MCSkew == [s1 |-> 0, s2 |-> 1]

MCView == [block |-> "b1", available |-> TRUE, canonical |-> "yes", finalityMatch |-> "yes",
           full |-> TRUE, finalized |-> TRUE, reachable |-> TRUE,
           network |-> [id |-> "net", shard |-> "root", genesis |-> None, epoch |-> 1],
           genesis |-> [available |-> TRUE, match |-> TRUE, height |-> 0, hash |-> "g"],
           targets |-> <<"n1", "n2">>, targetCount |-> 2, conflicting |-> 0, agreement |-> TRUE,
           domains |-> <<[node |-> "n1", operator |-> "o1", domain |-> "d1"],
                         [node |-> "n2", operator |-> "o2", domain |-> "d2"]>>]

MCViews == [s1 |-> {MCView, [MCView EXCEPT !.conflicting = 1, !.agreement = FALSE]},
            s2 |-> {MCView}]

MCBuild(binary) == SignBuild("rchain", "c1", binary, "ci", "builder")

MCRelease(binary) ==
    [repository |-> "rchain", commit |-> "c1", binary |-> binary,
     statement |-> MCBuild(binary).payload.statement]

MCReplay(binary, observed, key) ==
    SignEnvelope("native",
        [release |-> [repository |-> "rchain", commit |-> "c1", binary |-> binary],
         subject |-> "state", expected |-> "root", observed |-> observed,
         inputs |-> {"log"}, recovery |-> None], key)

MCRun(binary, observed) ==
    [replay |-> MCReplay(binary, observed, "replayer").payload,
     process |-> <<1, 2>>, disk |-> <<3, 4>>, checkpoint |-> "checkpoint",
     started |-> 1, finished |-> 2]

\* A replay before and one after a recovery.
MCPair(binary, after) ==
    LET before == MCReplay("bin", "root", "replayer")
    IN {before} \cup {SignRecovery(run, NativeToRecord(before).digest, "replayer") :
                          run \in {r \in {MCRun(binary, after)} : RecoveryRunAccepted(r)}}

MCGood ==
    [release |-> MCRelease("bin"),
     network |-> [id |-> "net", shard |-> "root", genesis |-> "g", epoch |-> None],
     trust |-> [builderKeys |-> {"builder"}, builders |-> {"ci"},
                observers |-> {"s1", "s2"}, replayers |-> {"replayer"}],
     maxAge |-> 0, natives |-> MCPair("bin", "root"), builds |-> {MCBuild("bin")}]

MCDossiers ==
    {MCGood,
     [MCGood EXCEPT !.natives = MCPair("other", "root"), !.trust.observers = {"s1"}]}

MCSearches ==
    {[producer |-> "weighted-possibility-search", status |-> st, expected |-> "WITNESS_FOUND"] :
        st \in {"WITNESS_FOUND", "LIMIT_REACHED"}}
=============================================================================
