---------------------------- MODULE TokenExchange ----------------------------
(***************************************************************************)
(* The pooled token exchange (exchange.ts).  A trade between two shards is *)
(* a transaction with one leg in each pool.  prepare() and                 *)
(* prepareReceive() swap at once and note the leg; commit() only marks it, *)
(* abort() swaps back.  Any holder may call any of them in any order.      *)
(* Calls that are refused change nothing but the log of events, which is   *)
(* left out.                                                               *)
(***************************************************************************)
EXTENDS Integers, Sequences, FiniteSets, FiniteSetsExt, SequencesExt

CONSTANTS
    Scale,       \* RATE_SCALE: units of A for which a pool pays its rate in B
    Seed,        \* seedWorld(): the pools at genesis
    Holder, Tx,
    Amounts,     \* what the callers trade
    Expiry,      \* the expiry height of every leg
    MaxLegs      \* bound on the legs of a history

ASSUME ScaleAssumption ==
    Scale \in Nat \ {0} /\ \A p \in DOMAIN Seed : Seed[p].rate \in Nat \ {0}

Side == {"A", "B"}
Pool == DOMAIN Seed

\* Nothing asks for a positive amount, or for a reserve that is one.
ASSUME TradeAssumption ==
    /\ IsFiniteSet(Tx)
    /\ Amounts \subseteq Int
    /\ Seed = [p \in Pool |-> Seed[p]]
    /\ \A p \in Pool :
          /\ DOMAIN Seed[p] = {"rate", "reserve", "balances", "links"}
          /\ Seed[p].reserve \in [Side -> Int]
          /\ Seed[p].balances \in [Holder -> [Side -> Int]]

VARIABLES
    pools,       \* rate, reserve, balances and links of each pool
    txs,         \* the legs of each transaction, in the order prepared
    deposited,   \* history: what prepareReceive credited, per pool and holder
    undone       \* history: the legs abort() has swapped back

exchangeVars == <<pools, txs, deposited, undone>>

Other(side) == IF side = "A" THEN "B" ELSE "A"

\* Mutant: what is paid out is rounded to the next unit.
QuoteMutant(rate, from, amount) ==
    IF from = "A" THEN (amount * rate + Scale - 1) \div Scale
                  ELSE (amount * Scale + rate - 1) \div rate

Quote(rate, from, amount) ==
    IF from = "A" THEN (amount * rate) \div Scale ELSE (amount * Scale) \div rate

Credit(pool, who, side, amount) == [pool EXCEPT !.balances[who][side] = @ + amount]

\* `amount` of one side goes from a holder to the reserve, `got` of the other
\* side comes back.  Negative figures undo a swap.
Exchanged(pool, who, from, amount, got) ==
    [Credit(Credit(pool, who, from, -amount), who, Other(from), got)
        EXCEPT !.reserve = [s \in Side |-> IF s = from THEN @[s] + amount ELSE @[s] - got]]

CanSwap(pool, who, from, amount) ==
    /\ pool.balances[who][from] >= amount
    /\ pool.reserve[Other(from)] >= Quote(pool.rate, from, amount)

Swap(pool, who, from, amount) ==
    Exchanged(pool, who, from, amount, Quote(pool.rate, from, amount))

Unswap(pool, leg) == Exchanged(pool, leg.holder, leg.from, -leg.amount, -leg.got)

Leg(p, who, from, amount) ==
    [pool |-> p, holder |-> who, from |-> from, amount |-> amount,
     got |-> Quote(pools[p].rate, from, amount), status |-> "prepared"]

Room == FoldSet(LAMBDA t, n : n + Len(txs[t]), 0, Tx) < MaxLegs

ExchangeInit ==
    /\ pools = Seed
    /\ txs = [t \in Tx |-> <<>>]
    /\ deposited = [p \in Pool |-> [h \in Holder |-> [s \in Side |-> 0]]]
    /\ undone = {}

Prepare(p, who, t, from, amount) ==
    /\ Room
    /\ CanSwap(pools[p], who, from, amount)
    /\ pools' = [pools EXCEPT ![p] = Swap(@, who, from, amount)]
    /\ txs' = [txs EXCEPT ![t] = Append(@, Leg(p, who, from, amount))]
    /\ UNCHANGED <<deposited, undone>>

\* The other shard's leg arrives over a link: it is credited, then swapped.  When
\* the reserve does not suffice the credit is taken back.
PrepareReceive(p, who, t, side, amount, link) ==
    /\ Room
    /\ link \in pools[p].links
    /\ LET credited == Credit(pools[p], who, side, amount) IN
       /\ CanSwap(credited, who, side, amount)
       /\ pools' = [pools EXCEPT ![p] = Swap(credited, who, side, amount)]
    /\ txs' = [txs EXCEPT ![t] = Append(@, Leg(p, who, side, amount))]
    /\ deposited' = [deposited EXCEPT ![p][who][side] = @ + amount]
    /\ UNCHANGED undone

\* The first leg that a transaction has in a pool: commit and abort never reach
\* a second one.
FirstLeg(t, p) == SelectInSeq(txs[t], LAMBDA leg : leg.pool = p)

\* An aborted leg can be committed too: only its mark changes.
Commit(p, who, t) ==
    LET i == FirstLeg(t, p) IN
    /\ i # 0
    /\ txs[t][i].holder = who
    /\ txs[t][i].status # "committed"
    /\ txs' = [txs EXCEPT ![t][i].status = "committed"]
    /\ UNCHANGED <<pools, deposited, undone>>

\* Mutant: an abort that is repeated swaps back again.
AbortMutant(p, who, t, height) ==
    LET i == FirstLeg(t, p) IN
    /\ i # 0
    /\ txs[t][i].status # "committed"
    /\ txs[t][i].holder = who \/ height > Expiry
    /\ pools' = [pools EXCEPT ![p] = Unswap(@, txs[t][i])]
    /\ txs' = [txs EXCEPT ![t][i].status = "aborted"]
    /\ undone' = undone \cup {<<t, i>>}
    /\ UNCHANGED deposited

\* Nothing asks whether the holder still has what the swap paid out.
Abort(p, who, t, height) ==
    LET i == FirstLeg(t, p) IN
    /\ i # 0
    /\ txs[t][i].status = "prepared"
    /\ txs[t][i].holder = who \/ height > Expiry
    /\ pools' = [pools EXCEPT ![p] = Unswap(@, txs[t][i])]
    /\ txs' = [txs EXCEPT ![t][i].status = "aborted"]
    /\ undone' = undone \cup {<<t, i>>}
    /\ UNCHANGED deposited

ExchangeNext ==
    \E p \in Pool, who \in Holder, t \in Tx :
        \/ \E side \in Side, amount \in Amounts :
              \/ Prepare(p, who, t, side, amount)
              \/ \E link \in UNION {Seed[q].links : q \in Pool} :
                    PrepareReceive(p, who, t, side, amount, link)
        \/ Commit(p, who, t)
        \/ \E height \in {Expiry, Expiry + 1} : Abort(p, who, t, height)

ExchangeSpec == ExchangeInit /\ [][ExchangeNext]_exchangeVars

-----------------------------------------------------------------------------
(* Properties.                                                              *)

\* The legs, by their transaction and their place in it.
Legs == UNION {{t} \X DOMAIN txs[t] : t \in Tx}
LegAt(ti) == txs[ti[1]][ti[2]]

\* The legs of a pool that stand: all but those swapped back.
Standing(p) == {ti \in Legs : LegAt(ti).pool = p /\ ti \notin undone}

OfHolder(h, legs) == {ti \in legs : LegAt(ti).holder = h}

\* What a leg moved on one side from its holder to the reserve.
Flow(leg, side) == IF side = leg.from THEN leg.amount ELSE -leg.got

Moved(side, legs) == SumFunctionOnSet([ti \in Legs |-> Flow(LegAt(ti), side)], legs)

\* Every reserve and every balance is what genesis, the deposits and the legs
\* that stand make it: a leg counts once or not at all, however often and by
\* whomever it is committed or aborted (exchange.ts 68-103, 221-286).
LedgerMatches ==
    \A p \in Pool, s \in Side :
        /\ pools[p].reserve[s] = Seed[p].reserve[s] + Moved(s, Standing(p))
        /\ \A h \in Holder :
              pools[p].balances[h][s] =
                  Seed[p].balances[h][s] + deposited[p][h][s]
                  - Moved(s, OfHolder(h, Standing(p)))

\* A pair of balances at the pool's rate, in units that need no rounding.
Worth(p, balance) == balance["A"] * Seed[p].rate + balance["B"] * Scale

\* No sequence of trades and reversals, back and forth, brings a holder more
\* than he brought: what rounding loses goes to the reserve, and an abort
\* returns what was paid, not what it would cost now (quote 54-57, unswap 90-103).
NoGain ==
    \A p \in Pool, h \in Holder :
        Worth(p, pools[p].balances[h])
            <= Worth(p, Seed[p].balances[h]) + Worth(p, deposited[p][h])
=============================================================================
