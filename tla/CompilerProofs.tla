---------------------------- MODULE CompilerProofs ----------------------------
(***************************************************************************)
(* Proofs about what the compiler computes.  TokenExchange: every figure   *)
(* is accounted for and rounding never pays.  RealityEngine: the           *)
(* certificate, the selected propositions and the obligations fit the      *)
(* dossier.  Inquiry: what-ifs are answered exactly, repairs and           *)
(* counterexamples are least.  Sums are folds and terms are evaluated step *)
(* by step; what is needed of both is proved first, by smallest            *)
(* counterexamples.                                                        *)
(***************************************************************************)
EXTENDS TokenExchange, RealityEngine, Inquiry, FiniteNumbers, SequenceTheorems, TLAPS

Pick(s) == CHOOSE x \in s : TRUE

\* g is the sum of f over every subset of S.
Summing(g, f, S) ==
    g = [s \in SUBSET S |-> IF s = {} THEN 0 ELSE f[Pick(s)] + g[s \ {Pick(s)}]]

LEMMA SumMeans ==
    ASSUME NEW f, NEW S
    PROVE SumFunctionOnSet(f, S) = (CHOOSE g : Summing(g, f, S))[S]
BY DEF SumFunctionOnSet, FoldFunctionOnSet, MapThenFoldSet, Summing, Pick

LEMMA Picked == ASSUME NEW s, s # {} PROVE Pick(s) \in s
BY DEF Pick

\* A set of finite sets that is not empty has a smallest one.
LEMMA SmallestSet ==
    ASSUME NEW S, IsFiniteSet(S), NEW Bad \in SUBSET (SUBSET S), Bad # {}
    PROVE  \E s \in Bad : \A t \in Bad : ~(t \subseteq s /\ t # s)
<1>1. IsWellFoundedOn(StrictSubsetOrdering(S), FiniteSubsetsOf(S))
  BY FS_StrictSubsetOrderingWellFounded
<1>2. Bad \subseteq FiniteSubsetsOf(S)
  BY FS_Subset DEF FiniteSubsetsOf
<1>3. PICK s \in Bad : \A t \in Bad : <<t, s>> \notin StrictSubsetOrdering(S)
  BY <1>1, <1>2, WFMin
<1> QED
  BY <1>3 DEF StrictSubsetOrdering

\* Two functions that sum the same values agree where both are defined.
LEMMA SumsAgree ==
    ASSUME NEW f, NEW S, NEW T, NEW g, NEW h, NEW e,
           Summing(g, f, S), Summing(h, e, T), NEW U \in SUBSET (S \cap T), IsFiniteSet(U),
           \A x \in U : e[x] = f[x]
    PROVE  g[U] = h[U]
<1> DEFINE Bad == {s \in SUBSET U : g[s] # h[s]}
<1>1. SUFFICES ASSUME Bad # {} PROVE FALSE
  OBVIOUS
<1>2. PICK s \in Bad : \A t \in Bad : ~(t \subseteq s /\ t # s)
  <2>1. Bad \in SUBSET (SUBSET U)
    OBVIOUS
  <2> HIDE DEF Bad
  <2> QED
    BY <1>1, <2>1, SmallestSet
<1>3. /\ g[s] = IF s = {} THEN 0 ELSE f[Pick(s)] + g[s \ {Pick(s)}]
      /\ h[s] = IF s = {} THEN 0 ELSE e[Pick(s)] + h[s \ {Pick(s)}]
  <2>1. s \in SUBSET S /\ s \in SUBSET T
    OBVIOUS
  <2> QED
    BY <2>1 DEF Summing
<1>4. s # {} /\ Pick(s) \in s
  BY <1>3, Picked
<1>5. s \ {Pick(s)} \notin Bad
  BY <1>2, <1>4
<1> QED
  BY <1>3, <1>4, <1>5

\* There is a function that sums f over every subset of S.
LEMMA SumExists ==
    ASSUME NEW f, NEW S, IsFiniteSet(S)
    PROVE  \E g : Summing(g, f, S)
<1> DEFINE Bad == {s \in SUBSET S : ~\E g : Summing(g, f, s)}
<1>1. SUFFICES ASSUME Bad # {} PROVE FALSE
  OBVIOUS
<1>2. PICK T \in Bad : \A t \in Bad : ~(t \subseteq T /\ t # T)
  <2>1. Bad \in SUBSET (SUBSET S)
    OBVIOUS
  <2> HIDE DEF Bad
  <2> QED
    BY <1>1, <2>1, SmallestSet
<1> DEFINE G(x) == CHOOSE g : Summing(g, f, T \ {x})
           h == [s \in SUBSET T |->
                    IF s = {} THEN 0
                    ELSE f[Pick(s)] + G(Pick(s))[s \ {Pick(s)}]]
<1>3. ASSUME NEW x \in T
      PROVE  Summing(G(x), f, T \ {x})
  <2>1. T \ {x} \notin Bad
    BY <1>2
  <2> QED
    BY <2>1
<1>4. ASSUME NEW s \in SUBSET T, s # {}
      PROVE  h[s] = f[Pick(s)] + h[s \ {Pick(s)}]
  <2> DEFINE x == Pick(s)
             t == s \ {x}
  <2>1. x \in s /\ t \subseteq T \ {x} /\ t \in SUBSET T /\ IsFiniteSet(t)
    BY <1>4, Picked, FS_Subset
  <2>2. Summing(G(x), f, T \ {x})
    BY <1>3, <2>1
  <2>3. G(x)[t] = h[t]
    <3>1. CASE t = {}
      BY <2>1, <2>2, <3>1 DEF Summing
    <3>2. CASE t # {}
      <4> DEFINE y == Pick(t)
                 r == t \ {y}
      <4>1. y \in t /\ r \subseteq T \ {x} /\ r \subseteq T \ {y} /\ IsFiniteSet(r)
        BY <2>1, <3>2, Picked, FS_Subset
      <4>2. Summing(G(y), f, T \ {y})
        BY <1>3, <2>1, <4>1
      <4>3. G(x)[t] = f[y] + G(x)[r]
        BY <2>1, <2>2, <3>2 DEF Summing
      <4>4. h[t] = f[y] + G(y)[r]
        BY <2>1, <3>2
      <4>5. G(x)[r] = G(y)[r]
        <5> HIDE DEF G, y, r, x, t, h
        <5> QED
          BY <2>2, <4>1, <4>2, SumsAgree
      <4> QED
        BY <4>3, <4>4, <4>5
    <3> QED
      BY <3>1, <3>2
  <2>4. h[s] = f[x] + G(x)[t]
    BY <1>4
  <2> QED
    BY <2>3, <2>4
<1>5. Summing(h, f, T)
  <2>1. h[{}] = 0
    OBVIOUS
  <2>2. h = [s \in SUBSET T |-> h[s]]
    OBVIOUS
  <2> HIDE DEF h
  <2> QED
    BY <1>4, <2>1, <2>2 DEF Summing
<1> QED
  BY <1>2, <1>5
\* Taking an element out takes its value out, whichever element it is.
LEMMA SumRemove ==
    ASSUME NEW f, NEW S, IsFiniteSet(S), NEW x \in S, \A y \in S : f[y] \in Int
    PROVE  /\ SumFunctionOnSet(f, S) \in Int
           /\ SumFunctionOnSet(f, S) = f[x] + SumFunctionOnSet(f, S \ {x})
<1>1. PICK g : g = (CHOOSE h : Summing(h, f, S)) /\ Summing(g, f, S)
  BY SumExists
<1>2. PICK h : h = (CHOOSE e : Summing(e, f, S \ {x})) /\ Summing(h, f, S \ {x})
  <2>1. \E e : Summing(e, f, S \ {x})
    BY SumExists, FS_RemoveElement
  <2> QED
    BY <2>1
<1>3. SumFunctionOnSet(f, S) = g[S] /\ SumFunctionOnSet(f, S \ {x}) = h[S \ {x}]
  BY <1>1, <1>2, SumMeans
<1>4. g[S \ {x}] = h[S \ {x}]
  BY <1>1, <1>2, SumsAgree, FS_RemoveElement
<1> DEFINE Bad == {s \in SUBSET S : ~(/\ g[s] \in Int
                                    /\ \A y \in s : g[s] = f[y] + g[s \ {y}])}
<1>5. SUFFICES ASSUME Bad # {} PROVE FALSE
  <2>1. ASSUME S \notin Bad
        PROVE  g[S] \in Int /\ g[S] = f[x] + g[S \ {x}]
    BY <2>1
  <2> HIDE DEF Bad
  <2> QED
    <3>1. CASE Bad = {}
      BY <1>3, <1>4, <2>1, <3>1
    <3> QED
      BY <3>1
<1>6. PICK s \in Bad : \A t \in Bad : ~(t \subseteq s /\ t # s)
  <2>1. Bad \in SUBSET (SUBSET S)
    OBVIOUS
  <2> HIDE DEF Bad
  <2> QED
    BY <1>5, <2>1, SmallestSet
<1>7. g[s] = IF s = {} THEN 0 ELSE f[Pick(s)] + g[s \ {Pick(s)}]
  BY <1>1 DEF Summing
<1>8. s # {}
  BY <1>7
<1>9. PICK c : c = Pick(s) /\ c \in s
  BY <1>8, Picked
<1>10. s \ {c} \in SUBSET S /\ s \ {c} \notin Bad
  BY <1>6, <1>9
<1>11. g[s] \in Int /\ g[s] = f[c] + g[s \ {c}]
  BY <1>7, <1>8, <1>9, <1>10
<1>12. ASSUME NEW y \in s
       PROVE  g[s] = f[y] + g[s \ {y}]
  <2>1. CASE y = c
    BY <1>11, <2>1
  <2>2. CASE y # c
    <3>1. s \ {y} \in SUBSET S /\ s \ {y} \notin Bad /\ c \in s \ {y} /\ y \in s \ {c}
      BY <1>6, <1>9, <1>12, <2>2
    <3>2. g[s \ {y}] = f[c] + g[(s \ {y}) \ {c}]
      BY <3>1
    <3>3. g[s \ {c}] = f[y] + g[(s \ {c}) \ {y}]
      BY <1>10, <3>1
    <3>4. (s \ {c}) \ {y} = (s \ {y}) \ {c}
      OBVIOUS
    <3>5. PICK r : r = (s \ {c}) \ {y}
      OBVIOUS
    <3>6. r \in SUBSET S /\ r \notin Bad
      BY <1>6, <1>9, <3>5
    <3>7. g[r] \in Int /\ f[c] \in Int /\ f[y] \in Int
      BY <1>9, <1>12, <3>6
    <3> QED
      <4>1. g[s] = f[c] + (f[y] + g[r]) /\ g[s \ {y}] = f[c] + g[r]
        BY <1>11, <3>2, <3>3, <3>4, <3>5
      <4>2. PICK a, b, d : a = f[c] /\ b = f[y] /\ d = g[r]
        OBVIOUS
      <4>3. a + (b + d) = b + (a + d)
        BY <3>7, <4>2
      <4> QED
        BY <4>1, <4>2, <4>3
  <2> QED
    BY <2>1, <2>2
<1> QED
  BY <1>11, <1>12

LEMMA SumEmpty == ASSUME NEW f PROVE SumFunctionOnSet(f, {}) = 0
<1>1. PICK g : g = (CHOOSE h : Summing(h, f, {})) /\ Summing(g, f, {})
  BY SumExists, FS_EmptySet
<1> QED
  BY <1>1, SumMeans DEF Summing

\* Adding an element adds its value.
LEMMA SumAdd ==
    ASSUME NEW f, NEW S, IsFiniteSet(S), NEW x, x \notin S, \A y \in S \cup {x} : f[y] \in Int
    PROVE  SumFunctionOnSet(f, S \cup {x}) = SumFunctionOnSet(f, S) + f[x]
<1>1. PICK T : T = S \cup {x}
  OBVIOUS
<1>2. IsFiniteSet(T) /\ x \in T /\ T \ {x} = S
  BY <1>1, FS_AddElement
<1>3. SumFunctionOnSet(f, T) \in Int /\ SumFunctionOnSet(f, T) = f[x] + SumFunctionOnSet(f, S)
  BY <1>1, <1>2, SumRemove
<1>4. SumFunctionOnSet(f, S) \in Int
  <2>1. CASE S = {}
    BY <2>1, SumEmpty
  <2>2. CASE S # {}
    BY <1>1, <2>2, SumRemove
  <2> QED
    BY <2>1, <2>2
<1> QED
  BY <1>1, <1>3, <1>4

\* Only the values count.
LEMMA SumSame ==
    ASSUME NEW f, NEW e, NEW S, IsFiniteSet(S), \A x \in S : e[x] = f[x]
    PROVE  SumFunctionOnSet(e, S) = SumFunctionOnSet(f, S)
<1>1. PICK g : g = (CHOOSE h : Summing(h, f, S)) /\ Summing(g, f, S)
  BY SumExists
<1>2. PICK h : h = (CHOOSE k : Summing(k, e, S)) /\ Summing(h, e, S)
  BY SumExists
<1>3. g[S] = h[S]
  BY <1>1, <1>2, SumsAgree
<1> QED
  BY <1>1, <1>2, <1>3, SumMeans

\* A combination of two sums whose every part is not negative is not negative.
LEMMA SumWeighted ==
    ASSUME NEW f, NEW e, NEW S, IsFiniteSet(S), NEW a \in Int, NEW b \in Int,
           \A x \in S : f[x] \in Int /\ e[x] \in Int /\ a * f[x] + b * e[x] >= 0
    PROVE  /\ SumFunctionOnSet(f, S) \in Int /\ SumFunctionOnSet(e, S) \in Int
           /\ a * SumFunctionOnSet(f, S) + b * SumFunctionOnSet(e, S) >= 0
<1> DEFINE Fine(s) == /\ SumFunctionOnSet(f, s) \in Int /\ SumFunctionOnSet(e, s) \in Int
                      /\ a * SumFunctionOnSet(f, s) + b * SumFunctionOnSet(e, s) >= 0
           Bad == {s \in SUBSET S : ~Fine(s)}
<1>1. SUFFICES ASSUME Bad # {} PROVE FALSE
  OBVIOUS
<1>2. PICK s \in Bad : \A t \in Bad : ~(t \subseteq s /\ t # s)
  <2>1. Bad \in SUBSET (SUBSET S)
    OBVIOUS
  <2> HIDE DEF Bad
  <2> QED
    BY <1>1, <2>1, SmallestSet
<1>3. CASE s = {}
  BY <1>2, <1>3, SumEmpty
<1>4. CASE s # {}
  <2>1. PICK x \in s : x \in S
    BY <1>4
  <2>2. PICK t : t = s \ {x}
    OBVIOUS
  <2>3. Fine(t)
    BY <1>2, <2>1, <2>2
  <2>4. /\ SumFunctionOnSet(f, s) = f[x] + SumFunctionOnSet(f, t)
        /\ SumFunctionOnSet(e, s) = e[x] + SumFunctionOnSet(e, t)
    <3>1. IsFiniteSet(s) /\ (\A y \in s : f[y] \in Int) /\ (\A y \in s : e[y] \in Int)
      BY FS_Subset
    <3>2. SumFunctionOnSet(f, s) = f[x] + SumFunctionOnSet(f, t)
      BY <2>1, <2>2, <3>1, SumRemove
    <3>3. SumFunctionOnSet(e, s) = e[x] + SumFunctionOnSet(e, t)
      BY <2>1, <2>2, <3>1, SumRemove
    <3> QED
      BY <3>2, <3>3
  <2>5. PICK i, j, k, l : i = f[x] /\ j = e[x] /\ k = SumFunctionOnSet(f, t) /\ l = SumFunctionOnSet(e, t)
    OBVIOUS
  <2>6. /\ i \in Int /\ j \in Int /\ k \in Int /\ l \in Int
        /\ a * i + b * j >= 0 /\ a * k + b * l >= 0
    BY <2>1, <2>3, <2>5
  <2>7. a * (i + k) + b * (j + l) = (a * i + b * j) + (a * k + b * l)
    BY <2>6
  <2>8. a * (i + k) + b * (j + l) >= 0
    BY <2>6, <2>7
  <2>9. Fine(s)
    BY <2>4, <2>5, <2>6, <2>8
  <2> QED
    BY <1>2, <2>9
<1> QED
  BY <1>3, <1>4

-----------------------------------------------------------------------------
(* The inductive invariant.                                                 *)

Swapped == [pool : Pool, holder : Holder, from : Side, amount : Int, got : Int,
            status : {"prepared", "committed", "aborted"}]

Kept(p) ==
    /\ DOMAIN pools[p] = {"rate", "reserve", "balances", "links"}
    /\ pools[p].rate = Seed[p].rate
    /\ pools[p].reserve \in [Side -> Int]
    /\ pools[p].balances \in [Holder -> [Side -> Int]]

TokenTypeOK ==
    /\ pools = [p \in Pool |-> pools[p]]
    /\ \A p \in Pool : Kept(p)
    /\ txs \in [Tx -> Seq(Swapped)]
    /\ deposited \in [Pool -> [Holder -> [Side -> Int]]]

\* A leg was paid what its pool quoted, and one that is swapped back is no longer
\* prepared.
LegsSound ==
    \A ti \in Legs :
        /\ LegAt(ti).got = Quote(Seed[LegAt(ti).pool].rate, LegAt(ti).from, LegAt(ti).amount)
        /\ ti \in undone => LegAt(ti).status # "prepared"

TokenInv == TokenTypeOK /\ LegsSound /\ undone \subseteq Legs /\ LedgerMatches

LEMMA LegTyped ==
    ASSUME TokenInv, NEW ti \in Legs
    PROVE  LegAt(ti) \in Swapped /\ ti[1] \in Tx /\ ti[2] \in 1..Len(txs[ti[1]]) /\ ti = <<ti[1], ti[2]>>
BY DEF TokenInv, TokenTypeOK, Legs, LegAt

LEMMA LegsFinite == ASSUME TokenInv PROVE IsFiniteSet(Legs)
<1> DEFINE OfTx == {{t} \X DOMAIN txs[t] : t \in Tx}
<1>1. IsFiniteSet(OfTx)
  <2> DEFINE of == [t \in Tx |-> {t} \X DOMAIN txs[t]]
  <2>1. of \in Surjection(Tx, OfTx)
    BY DEF Surjection
  <2> HIDE DEF of, OfTx
  <2> QED
    BY <2>1, TradeAssumption, FS_Surjection
<1>2. ASSUME NEW t \in Tx
      PROVE  IsFiniteSet({t} \X DOMAIN txs[t])
  <2>1. PICK n \in Nat : DOMAIN txs[t] = 1..n
    BY DEF TokenInv, TokenTypeOK
  <2>2. IsFiniteSet(1..n)
    <3>1. 1 \in Int /\ n \in Int
      OBVIOUS
    <3> QED
      BY <3>1, FS_Interval
  <2>3. IsFiniteSet({t})
    BY FS_Singleton
  <2> QED
    BY <2>1, <2>2, <2>3, FS_Product
<1>3. \A s \in OfTx : IsFiniteSet(s)
  BY <1>2
<1> HIDE DEF OfTx
<1>4. IsFiniteSet(UNION OfTx)
  BY <1>1, <1>3, FS_UNION
<1> QED
  BY <1>4 DEF Legs, OfTx

LEMMA FlowTyped ==
    ASSUME NEW leg \in Swapped, NEW s \in Side
    PROVE  Flow(leg, s) \in Int
BY DEF Flow, Swapped

LEMMA MovedTyped ==
    ASSUME TokenInv, NEW s \in Side, NEW L \in SUBSET Legs
    PROVE  Moved(s, L) \in Int
<1>1. PICK f : f = [ti \in Legs |-> Flow(LegAt(ti), s)]
  OBVIOUS
<1>2. IsFiniteSet(L) /\ \A ti \in L : f[ti] \in Int
  BY <1>1, LegsFinite, LegTyped, FlowTyped, FS_Subset
<1>3. CASE L = {}
  BY <1>3, SumEmpty DEF Moved
<1>4. CASE L # {}
  BY <1>1, <1>2, <1>4, SumRemove DEF Moved
<1> QED
  BY <1>3, <1>4

\* As long as its legs stay, and what they moved, a set of legs moved the same.
Stays ==
    \A ti \in Legs : /\ ti \in Legs' /\ LegAt(ti)'.pool = LegAt(ti).pool
                     /\ LegAt(ti)'.holder = LegAt(ti).holder
                     /\ \A s \in Side : Flow(LegAt(ti)', s) = Flow(LegAt(ti), s)

LEMMA MovedStays ==
    ASSUME TokenInv, Stays, NEW s \in Side, NEW L \in SUBSET Legs
    PROVE  Moved(s, L)' = Moved(s, L)
<1>1. PICK f : f = [ti \in Legs |-> Flow(LegAt(ti), s)]
  OBVIOUS
<1>2. PICK e : e = [ti \in Legs |-> Flow(LegAt(ti), s)]'
  OBVIOUS
<1>3. IsFiniteSet(L) /\ \A ti \in L : e[ti] = f[ti]
  BY <1>1, <1>2, LegsFinite, FS_Subset DEF Stays
<1>4. Moved(s, L) = SumFunctionOnSet(f, L)
  BY <1>1 DEF Moved
<1>5. Moved(s, L)' = SumFunctionOnSet(e, L)
  BY <1>2 DEF Moved
<1> QED
  BY <1>3, <1>4, <1>5, SumSame

\* One leg more moves what it moved.
LEMMA MovedMore ==
    ASSUME TokenInv, Stays, NEW s \in Side, NEW L \in SUBSET Legs, NEW x, x \in Legs', x \notin L,
           NEW leg \in Swapped, leg = LegAt(x)', NEW T, T = L \cup {x}
    PROVE  Moved(s, T)' = Moved(s, L) + Flow(leg, s)
<1>1. PICK e : e = [ti \in Legs |-> Flow(LegAt(ti), s)]'
  OBVIOUS
<1>2. Moved(s, L)' = Moved(s, L)
  BY MovedStays
<1>3. IsFiniteSet(L) /\ \A ti \in L \cup {x} : e[ti] \in Int
  BY <1>1, LegsFinite, LegTyped, FlowTyped, FS_Subset DEF Stays
<1>4. SumFunctionOnSet(e, L \cup {x}) = SumFunctionOnSet(e, L) + e[x]
  BY <1>3, SumAdd
<1>5. Moved(s, L)' = SumFunctionOnSet(e, L) /\ Moved(s, L \cup {x})' = SumFunctionOnSet(e, L \cup {x})
  BY <1>1 DEF Moved
<1>6. e[x] = Flow(LegAt(x)', s)
  BY <1>1
<1> QED
  BY <1>2, <1>4, <1>5, <1>6

\* ... and one less takes it back.
LEMMA MovedLess ==
    ASSUME TokenInv, NEW s \in Side, NEW L \in SUBSET Legs, NEW x \in L
    PROVE  Moved(s, L) = Flow(LegAt(x), s) + Moved(s, L \ {x})
<1>1. PICK e : e = [ti \in Legs |-> Flow(LegAt(ti), s)]
  OBVIOUS
<1>2. IsFiniteSet(L) /\ \A ti \in L : e[ti] \in Int
  BY <1>1, LegsFinite, LegTyped, FlowTyped, FS_Subset
<1>3. SumFunctionOnSet(e, L) = e[x] + SumFunctionOnSet(e, L \ {x})
  BY <1>2, SumRemove
<1>4. Moved(s, L) = SumFunctionOnSet(e, L) /\ Moved(s, L \ {x}) = SumFunctionOnSet(e, L \ {x})
  BY <1>1 DEF Moved
<1>5. e[x] = Flow(LegAt(x), s)
  BY <1>1
<1> QED
  BY <1>3, <1>4, <1>5

-----------------------------------------------------------------------------
(* The figures.                                                             *)

LEMMA QuoteTyped ==
    ASSUME NEW p \in Pool, NEW side \in Side, NEW amount \in Int
    PROVE  Quote(Seed[p].rate, side, amount) \in Int
<1>1. Seed[p].rate \in Nat \ {0} /\ Scale \in Nat \ {0}
  BY ScaleAssumption DEF Pool
<1> QED
  BY <1>1 DEF Quote

\* What a swap, or its reversal, does to the figures of a pool.
Figures(pool) ==
    /\ DOMAIN pool = {"rate", "reserve", "balances", "links"}
    /\ pool.reserve \in [Side -> Int] /\ pool.balances \in [Holder -> [Side -> Int]]

Shifted(pool, who, from, amount, got, after) ==
    /\ Figures(after) /\ after.rate = pool.rate
    /\ \A s \in Side :
        /\ after.reserve[s] = pool.reserve[s] + (IF s = from THEN amount ELSE -got)
        /\ \A h \in Holder :
            after.balances[h][s] = pool.balances[h][s]
                                    - (IF h = who THEN (IF s = from THEN amount ELSE -got) ELSE 0)

LEMMA ExchangedFigures ==
    ASSUME NEW pool, Figures(pool),
           NEW w \in Holder, NEW from \in Side, NEW amount \in Int, NEW got \in Int
    PROVE  Shifted(pool, w, from, amount, got, Exchanged(pool, w, from, amount, got))
<1>0. PICK after : after = Exchanged(pool, w, from, amount, got)
  OBVIOUS
<1>1. Other(from) \in Side /\ Other(from) # from /\ Side = {"A", "B"}
  BY DEF Other, Side
<1>2. PICK one : one = Credit(pool, w, from, -amount)
  OBVIOUS
<1>3. /\ DOMAIN one = {"rate", "reserve", "balances", "links"}
      /\ one.rate = pool.rate /\ one.reserve = pool.reserve
      /\ one.balances = [pool.balances EXCEPT ![w][from] = @ + (-amount)]
  BY <1>2 DEF Credit, Figures
<1>4. one.balances \in [Holder -> [Side -> Int]]
  BY <1>3 DEF Figures
<1>5. PICK two : two = Credit(one, w, Other(from), got)
  OBVIOUS
<1>6. /\ DOMAIN two = {"rate", "reserve", "balances", "links"}
      /\ two.rate = pool.rate /\ two.reserve = pool.reserve
      /\ two.balances = [one.balances EXCEPT ![w][Other(from)] = @ + got]
  BY <1>3, <1>5 DEF Credit
<1>7. two.balances \in [Holder -> [Side -> Int]]
  BY <1>1, <1>4, <1>6
<1>8. /\ DOMAIN after = {"rate", "reserve", "balances", "links"}
      /\ after.rate = pool.rate /\ after.balances = two.balances
      /\ after.reserve = [s \in Side |-> IF s = from THEN pool.reserve[s] + amount ELSE pool.reserve[s] - got]
  BY <1>0, <1>2, <1>5, <1>6 DEF Exchanged
<1>9. after.reserve \in [Side -> Int]
  BY <1>8 DEF Figures
<1>10. ASSUME NEW s \in Side
       PROVE  after.reserve[s] = pool.reserve[s] + (IF s = from THEN amount ELSE -got)
  BY <1>8, <1>10 DEF Figures
<1>11. ASSUME NEW s \in Side, NEW h \in Holder
       PROVE  after.balances[h][s] = pool.balances[h][s]
                                        - (IF h = w THEN (IF s = from THEN amount ELSE -got) ELSE 0)
  <2>1. CASE h # w
    BY <1>3, <1>4, <1>6, <1>8, <2>1 DEF Figures
  <2>2. CASE h = w /\ s = from
    BY <1>1, <1>3, <1>4, <1>6, <1>8, <2>2 DEF Figures
  <2>3. CASE h = w /\ s # from
    <3>1. s = Other(from)
      BY <1>1, <2>3
    <3> QED
      BY <1>1, <1>3, <1>4, <1>6, <1>8, <2>3, <3>1 DEF Figures
  <2> QED
    BY <2>1, <2>2, <2>3
<1> QED
  BY <1>0, <1>7, <1>8, <1>9, <1>10, <1>11 DEF Shifted, Figures

-----------------------------------------------------------------------------
(* The steps.                                                               *)

\* A leg is added to transaction t, as x.
Adds(t, leg) == txs' = [txs EXCEPT ![t] = Append(@, leg)] /\ undone' = undone

Added(x, leg) ==
    /\ Stays /\ x \notin Legs /\ Legs' = Legs \cup {x}
    /\ LegAt(x)' = leg /\ \A ti \in Legs : LegAt(ti)' = LegAt(ti)
    /\ txs' \in [Tx -> Seq(Swapped)]
    /\ \A p \in Pool : Standing(p)' = IF leg.pool = p THEN Standing(p) \cup {x} ELSE Standing(p)

LEMMA LegAdded ==
    ASSUME TokenInv, NEW t \in Tx, NEW leg \in Swapped, Adds(t, leg)
    PROVE  \E x : Added(x, leg)
<1>13. PICK x : x = <<t, Len(txs[t]) + 1>>
  OBVIOUS
<1>0. txs' = [txs EXCEPT ![t] = Append(@, leg)] /\ undone' = undone
  BY DEF Adds
<1>1. txs \in [Tx -> Seq(Swapped)] /\ undone \subseteq Legs
  BY DEF TokenInv, TokenTypeOK
<1>2. Len(txs[t]) \in Nat /\ \A u \in Tx : DOMAIN txs[u] = 1..Len(txs[u])
  BY <1>1
<1>3. txs' \in [Tx -> Seq(Swapped)]
  BY <1>0, <1>1
<1>4. /\ \A u \in Tx : u # t => txs'[u] = txs[u]
      /\ DOMAIN txs'[t] = 1..(Len(txs[t]) + 1)
      /\ txs'[t][Len(txs[t]) + 1] = leg
      /\ \A i \in 1..Len(txs[t]) : txs'[t][i] = txs[t][i]
  BY <1>0, <1>1
<1>5. x \notin Legs
  BY <1>13, <1>2 DEF Legs
<1>6. Legs' = Legs \cup {x}
  <2>1. PICK n : n = Len(txs[t])
    OBVIOUS
  <2>2. DOMAIN txs'[t] = DOMAIN txs[t] \cup {n + 1}
    BY <1>2, <1>4, <2>1
  <2>3. \A u \in Tx : DOMAIN txs'[u] = DOMAIN txs[u] \cup (IF u = t THEN {n + 1} ELSE {})
    BY <1>4, <2>2
  <2>4. ASSUME NEW u \in Tx, NEW i
        PROVE  <<u, i>> \in Legs <=> i \in DOMAIN txs[u]
    BY DEF Legs
  <2>5. ASSUME NEW u \in Tx, NEW i
        PROVE  <<u, i>> \in Legs' <=> i \in DOMAIN txs'[u]
    BY DEF Legs
  <2>6. \A ti \in Legs : \E u \in Tx : \E i : ti = <<u, i>>
    BY DEF Legs
  <2>7. \A ti \in Legs' : \E u \in Tx : \E i : ti = <<u, i>>
    BY DEF Legs
  <2>8. \A ti \in Legs : ti \in Legs'
    BY <2>3, <2>4, <2>5, <2>6
  <2>9. x \in Legs'
    BY <1>13, <2>1, <2>2, <2>5
  <2>10. ASSUME NEW u \in Tx, NEW i, <<u, i>> \in Legs'
         PROVE  <<u, i>> \in Legs \cup {x}
    <3>1. i \in DOMAIN txs[u] \/ (u = t /\ i = n + 1)
      BY <2>3, <2>5, <2>10
    <3> QED
      BY <1>13, <2>1, <2>4, <3>1
  <2> QED
    BY <2>7, <2>8, <2>9, <2>10
<1>7. LegAt(x)' = leg
  BY <1>13, <1>4 DEF LegAt
<1>8. ASSUME NEW ti \in Legs
      PROVE  LegAt(ti)' = LegAt(ti)
  BY <1>2, <1>4, LegTyped DEF LegAt
<1>9. Stays
  BY <1>6, <1>8 DEF Stays
<1>10. ASSUME NEW p \in Pool
       PROVE  Standing(p)' = IF leg.pool = p THEN Standing(p) \cup {x} ELSE Standing(p)
  <2>1. \A ti : ti \in Standing(p)' <=> ti \in Legs' /\ LegAt(ti)'.pool = p /\ ti \notin undone
    BY <1>0 DEF Standing
  <2>2. \A ti : ti \in Standing(p) <=> ti \in Legs /\ LegAt(ti).pool = p /\ ti \notin undone
    BY DEF Standing
  <2>3. x \notin undone
    BY <1>1, <1>5
  <2>4. CASE leg.pool = p
    <3>1. \A ti : ti \in Standing(p)' <=> ti \in Standing(p) \/ ti = x
      BY <1>6, <1>7, <1>8, <2>1, <2>2, <2>3, <2>4
    <3> QED
      BY <2>4, <3>1
  <2>5. CASE leg.pool # p
    <3>1. \A ti : ti \in Standing(p)' <=> ti \in Standing(p)
      BY <1>6, <1>7, <1>8, <2>1, <2>2, <2>5
    <3> QED
      BY <2>5, <3>1
  <2> QED
    BY <2>4, <2>5
<1>11. Added(x, leg)
  BY <1>3, <1>5, <1>6, <1>7, <1>8, <1>9, <1>10 DEF Added
<1> QED
  BY <1>11

\* A leg is marked.
LEMMA LegMarked ==
    ASSUME TokenInv, NEW x \in Legs, NEW m \in {"committed", "aborted"},
           txs' = [txs EXCEPT ![x[1]][x[2]].status = m]
    PROVE  /\ Stays /\ Legs' = Legs /\ txs' \in [Tx -> Seq(Swapped)]
           /\ \A ti \in Legs :
                /\ LegAt(ti)'.got = LegAt(ti).got /\ LegAt(ti)'.amount = LegAt(ti).amount
                /\ LegAt(ti)'.from = LegAt(ti).from /\ LegAt(ti)'.pool = LegAt(ti).pool
                /\ LegAt(ti)'.status = IF ti = x THEN m ELSE LegAt(ti).status
<1>1. txs \in [Tx -> Seq(Swapped)] /\ x[1] \in Tx /\ x[2] \in 1..Len(txs[x[1]]) /\ LegAt(x) \in Swapped
  BY LegTyped DEF TokenInv, TokenTypeOK
<1>2. PICK leg : leg = [LegAt(x) EXCEPT !.status = m]
  OBVIOUS
<1>3. leg \in Swapped
  BY <1>1, <1>2 DEF Swapped
<1>4. PICK legs : legs = [txs[x[1]] EXCEPT ![x[2]] = leg]
  OBVIOUS
<1>5. txs' = [txs EXCEPT ![x[1]] = legs]
  BY <1>2, <1>4 DEF LegAt
<1>6. legs \in Seq(Swapped) /\ DOMAIN legs = DOMAIN txs[x[1]]
  BY <1>1, <1>3, <1>4
<1>7. txs' \in [Tx -> Seq(Swapped)] /\ \A u \in Tx : DOMAIN txs'[u] = DOMAIN txs[u]
  <2>1. PICK y \in Tx : y = x[1]
    BY <1>1
  <2>2. txs' = [txs EXCEPT ![y] = legs] /\ DOMAIN legs = DOMAIN txs[y]
    BY <1>5, <1>6, <2>1
  <2>3. txs' \in [Tx -> Seq(Swapped)]
    BY <1>1, <1>6, <2>2
  <2>4. ASSUME NEW u \in Tx PROVE txs'[u] = IF u = y THEN legs ELSE txs[u]
    BY <1>1, <2>2
  <2> QED
    BY <2>2, <2>3, <2>4
<1>8. Legs' = Legs
  BY <1>7 DEF Legs
<1>9. ASSUME NEW ti \in Legs
      PROVE  LegAt(ti)' = IF ti = x THEN leg ELSE LegAt(ti)
  <2>1. ti[1] \in Tx /\ ti = <<ti[1], ti[2]>> /\ x = <<x[1], x[2]>> /\ ti[2] \in DOMAIN txs[ti[1]]
    BY LegTyped DEF TokenInv, TokenTypeOK
  <2>2. CASE ti[1] = x[1]
    <3>1. txs'[ti[1]] = legs
      BY <1>1, <1>5, <2>2
    <3>2. legs[ti[2]] = IF ti[2] = x[2] THEN leg ELSE txs[ti[1]][ti[2]]
      BY <1>1, <1>4, <2>1, <2>2
    <3>3. ti = x <=> ti[2] = x[2]
      BY <2>1, <2>2
    <3> QED
      BY <3>1, <3>2, <3>3 DEF LegAt
  <2>3. CASE ti[1] # x[1]
    BY <1>1, <1>5, <2>1, <2>3 DEF LegAt
  <2> QED
    BY <2>2, <2>3
<1>10. \A ti \in Legs :
        /\ LegAt(ti)'.got = LegAt(ti).got /\ LegAt(ti)'.amount = LegAt(ti).amount
        /\ LegAt(ti)'.from = LegAt(ti).from /\ LegAt(ti)'.pool = LegAt(ti).pool
        /\ LegAt(ti)'.holder = LegAt(ti).holder
        /\ LegAt(ti)'.status = IF ti = x THEN m ELSE LegAt(ti).status
  BY <1>1, <1>2, <1>9 DEF Swapped
<1>11. Stays
  BY <1>8, <1>10 DEF Stays, Flow
<1> QED
  BY <1>7, <1>8, <1>10, <1>11

LEMMA Found ==
    ASSUME TokenInv, NEW t \in Tx, NEW p, FirstLeg(t, p) # 0
    PROVE  /\ <<t, FirstLeg(t, p)>> \in Legs
           /\ LegAt(<<t, FirstLeg(t, p)>>) = txs[t][FirstLeg(t, p)]
           /\ txs[t][FirstLeg(t, p)].pool = p
<1> DEFINE I == {i \in 1..Len(txs[t]) : txs[t][i].pool = p}
<1>1. FirstLeg(t, p) = IF I # {} THEN Min(I) ELSE 0
  BY DEF FirstLeg, SelectInSeq
<1>2. I # {} /\ FirstLeg(t, p) = Min(I)
  BY <1>1
<1>3. txs[t] \in Seq(Swapped) /\ Len(txs[t]) \in Nat /\ I \subseteq Nat
  BY DEF TokenInv, TokenTypeOK
<1>4. \E i \in I : \A j \in I : i <= j
  <2>1. IsWellFoundedOn(OpToRel(<, Nat), Nat)
    BY NatLessThanWellFounded
  <2>2. PICK i \in I : \A j \in I : <<j, i>> \notin OpToRel(<, Nat)
    <3> HIDE DEF I
    <3> QED
      BY <1>2, <1>3, <2>1, WFMin
  <2>3. ASSUME NEW j \in I
        PROVE  i <= j
    <3>1. i \in Nat /\ j \in Nat
      BY <1>3
    <3>2. ~(j < i)
      BY <2>2, <3>1 DEF OpToRel
    <3> QED
      BY <3>1, <3>2
  <2> QED
    BY <2>3
<1>5. Min(I) \in I
  BY <1>4 DEF Min
<1>6. PICK i : i = FirstLeg(t, p)
  OBVIOUS
<1>7. i \in DOMAIN txs[t] /\ txs[t][i].pool = p
  BY <1>2, <1>3, <1>5, <1>6
<1>8. <<t, i>> \in {t} \X DOMAIN txs[t]
  BY <1>7
<1>9. <<t, i>> \in Legs
  BY <1>8 DEF Legs
<1> QED
  BY <1>6, <1>7, <1>9 DEF LegAt

\* A leg is added, its pool changes as it says, and no other pool does.
Becomes(p, pool) == pools' = [pools EXCEPT ![p] = pool]

PaidBy(leg, pool) ==
    /\ DOMAIN pool = {"rate", "reserve", "balances", "links"} /\ pool.rate = Seed[leg.pool].rate
    /\ pool.reserve \in [Side -> Int] /\ pool.balances \in [Holder -> [Side -> Int]]
    /\ deposited' \in [Pool -> [Holder -> [Side -> Int]]]
    /\ \A p \in Pool : p # leg.pool => deposited'[p] = deposited[p]
    /\ \A s \in Side :
        /\ pool.reserve[s] = pools[leg.pool].reserve[s] + Flow(leg, s)
        /\ \A h \in Holder :
            pool.balances[h][s] =
                pools[leg.pool].balances[h][s] + deposited'[leg.pool][h][s] - deposited[leg.pool][h][s]
                    - (IF h = leg.holder THEN Flow(leg, s) ELSE 0)

LEMMA AddedKept ==
    ASSUME TokenInv, NEW t \in Tx, NEW leg \in Swapped, leg.status = "prepared",
           leg.got = Quote(Seed[leg.pool].rate, leg.from, leg.amount),
           Adds(t, leg), NEW pool, Becomes(leg.pool, pool), PaidBy(leg, pool)
    PROVE  TokenInv'
<1>1. PICK x : Added(x, leg)
  BY LegAdded
<1>2. /\ Stays /\ x \notin Legs /\ Legs' = Legs \cup {x}
      /\ LegAt(x)' = leg /\ \A ti \in Legs : LegAt(ti)' = LegAt(ti)
      /\ txs' \in [Tx -> Seq(Swapped)] /\ undone' = undone
      /\ \A p \in Pool : Standing(p)' = IF leg.pool = p THEN Standing(p) \cup {x} ELSE Standing(p)
  BY <1>1 DEF Added, Adds
<1>3. leg.pool \in Pool /\ leg.from \in Side /\ leg.holder \in Holder
  BY DEF Swapped
<1>4. pools' = [p \in Pool |-> pools'[p]] /\ \A p \in Pool : pools'[p] = IF p = leg.pool THEN pool ELSE pools[p]
  BY <1>3 DEF TokenInv, TokenTypeOK, Becomes
<1>5. TokenTypeOK'
  <2>1. \A p \in Pool : Kept(p)'
    BY <1>4 DEF TokenInv, TokenTypeOK, Kept, PaidBy
  <2> QED
    BY <1>2, <1>4, <2>1 DEF TokenTypeOK, PaidBy
<1>6. undone' \subseteq Legs' /\ x \notin undone'
  BY <1>2 DEF TokenInv
<1>7. LegsSound'
  BY <1>2, <1>6 DEF TokenInv, LegsSound
<1>8. ASSUME NEW s \in Side, NEW M \in SUBSET Legs, NEW R, R = M \cup {x}
       PROVE  Moved(s, R)' = Moved(s, M) + Flow(leg, s)
  <2>1. x \in Legs' /\ x \notin M /\ leg = LegAt(x)'
    BY <1>2
  <2> QED
    BY <1>2, <1>8, <2>1, MovedMore, Z3
<1>9. ASSUME NEW p \in Pool, NEW s \in Side
      PROVE  /\ pools'[p].reserve[s] = Seed[p].reserve[s] + Moved(s, Standing(p))'
             /\ \A h \in Holder :
                  pools'[p].balances[h][s] =
                      Seed[p].balances[h][s] + deposited'[p][h][s]
                      - Moved(s, OfHolder(h, Standing(p)))'
  <2>1. PICK L \in SUBSET Legs : L = Standing(p)
    BY DEF Standing
  <2>2. /\ pools[p].reserve[s] = Seed[p].reserve[s] + Moved(s, L)
        /\ \A h \in Holder :
              pools[p].balances[h][s] =
                  Seed[p].balances[h][s] + deposited[p][h][s]
                  - Moved(s, OfHolder(h, L))
    BY <2>1 DEF TokenInv, LedgerMatches
  <2>3. /\ Seed[p].reserve[s] \in Int /\ pools[p].reserve[s] \in Int
        /\ Moved(s, L) \in Int /\ Flow(leg, s) \in Int
    BY FlowTyped, MovedTyped, TradeAssumption DEF TokenInv, TokenTypeOK, Kept
  <2>4. ASSUME NEW h \in Holder
        PROVE  /\ Seed[p].balances[h][s] \in Int /\ pools[p].balances[h][s] \in Int
               /\ deposited[p][h][s] \in Int /\ deposited'[p][h][s] \in Int
               /\ Moved(s, OfHolder(h, L)) \in Int
    <3>1. OfHolder(h, L) \in SUBSET Legs
      BY DEF OfHolder
    <3>2. Moved(s, OfHolder(h, L)) \in Int
      BY <3>1, MovedTyped
    <3>3. Seed[p].balances \in [Holder -> [Side -> Int]] /\ pools[p].balances \in [Holder -> [Side -> Int]]
      BY TradeAssumption DEF TokenInv, TokenTypeOK, Kept
    <3>4. deposited \in [Pool -> [Holder -> [Side -> Int]]]
      BY DEF TokenInv, TokenTypeOK
    <3> QED
      BY <3>2, <3>3, <3>4 DEF PaidBy
  <2>5. ASSUME p = leg.pool
        PROVE  /\ Moved(s, Standing(p))' = Moved(s, L) + Flow(leg, s)
               /\ \A h \in Holder :
                    Moved(s, OfHolder(h, Standing(p)))'
                        = Moved(s, OfHolder(h, L))
                            + (IF h = leg.holder THEN Flow(leg, s) ELSE 0)
    <3>1. Standing(p)' = L \cup {x}
      BY <1>2, <2>1, <2>5
    <3>4. PICK T : T = L \cup {x}
      OBVIOUS
    <3>5. Moved(s, T)' = Moved(s, L) + Flow(leg, s)
      BY <1>8, <3>4
    <3>6. ASSUME NEW h \in Holder
          PROVE  Moved(s, OfHolder(h, Standing(p)))'
                        = Moved(s, OfHolder(h, L))
                            + (IF h = leg.holder THEN Flow(leg, s) ELSE 0)
      <4>1. PICK M \in SUBSET Legs : M = OfHolder(h, L)
        BY DEF OfHolder
      <4>2. CASE h = leg.holder
        <5>1. OfHolder(h, Standing(p))' = M \cup {x}
          BY <1>2, <3>1, <4>1, <4>2 DEF OfHolder
        <5>2. PICK R : R = M \cup {x}
          OBVIOUS
        <5>3. Moved(s, R)' = Moved(s, M) + Flow(leg, s)
          BY <1>8, <5>2
        <5> QED
          BY <4>1, <4>2, <5>1, <5>2, <5>3 DEF Moved
      <4>3. CASE h # leg.holder
        <5>1. OfHolder(h, Standing(p))' = M
          BY <1>2, <3>1, <4>1, <4>3 DEF OfHolder
        <5>2. Moved(s, M)' = Moved(s, M) /\ Moved(s, M) \in Int
          BY <1>2, <4>1, MovedStays, MovedTyped
        <5> QED
          BY <4>1, <4>3, <5>1, <5>2 DEF Moved
      <4> QED
        BY <4>2, <4>3
    <3> QED
      BY <3>1, <3>4, <3>5, <3>6 DEF Moved
  <2>6. ASSUME p # leg.pool
        PROVE  /\ Moved(s, Standing(p))' = Moved(s, L)
               /\ \A h \in Holder :
                    Moved(s, OfHolder(h, Standing(p)))'
                        = Moved(s, OfHolder(h, L))
    <3>1. Standing(p)' = L
      BY <1>2, <2>1, <2>6
    <3>2. Moved(s, L)' = Moved(s, L)
      BY <1>2, <2>1, MovedStays
    <3>3. ASSUME NEW h \in Holder
          PROVE  Moved(s, OfHolder(h, Standing(p)))'
                        = Moved(s, OfHolder(h, L))
      <4>1. PICK M \in SUBSET Legs : M = OfHolder(h, L)
        BY DEF OfHolder
      <4>2. OfHolder(h, Standing(p))' = M
        BY <1>2, <3>1, <4>1 DEF OfHolder
      <4>3. Moved(s, M)' = Moved(s, M)
        BY <1>2, <4>1, MovedStays
      <4> QED
        BY <4>1, <4>2, <4>3 DEF Moved
    <3> QED
      BY <3>1, <3>2, <3>3 DEF Moved
  <2>7. CASE p = leg.pool
    <3>1. pools'[p] = pool
      BY <1>4, <2>7
    <3>2. pools'[p].reserve[s] = Seed[p].reserve[s] + Moved(s, Standing(p))'
      <4>1. pool.reserve[s] = pools[p].reserve[s] + Flow(leg, s)
        BY <2>7 DEF PaidBy
      <4> QED
        BY <2>2, <2>3, <2>5, <2>7, <3>1, <4>1
    <3>3. ASSUME NEW h \in Holder
          PROVE  pools'[p].balances[h][s] =
                      Seed[p].balances[h][s] + deposited'[p][h][s]
                      - Moved(s, OfHolder(h, Standing(p)))'
      <4>1. pool.balances[h][s] =
                    pools[p].balances[h][s] + deposited'[p][h][s] - deposited[p][h][s]
                        - (IF h = leg.holder THEN Flow(leg, s) ELSE 0)
        BY <2>7 DEF PaidBy
      <4>2. PICK f : f = IF h = leg.holder THEN Flow(leg, s) ELSE 0
        OBVIOUS
      <4>3. Moved(s, OfHolder(h, Standing(p)))' = Moved(s, OfHolder(h, L)) + f
        BY <2>5, <2>7, <4>2
      <4>4. f \in Int
        BY <2>3, <4>2
      <4>5. pools[p].balances[h][s] = Seed[p].balances[h][s] + deposited[p][h][s] - Moved(s, OfHolder(h, L))
        BY <2>2
      <4> QED
        BY <2>4, <3>1, <4>1, <4>2, <4>3, <4>4, <4>5
    <3> QED
      BY <3>2, <3>3
  <2>8. CASE p # leg.pool
    <3>1. pools'[p] = pools[p] /\ deposited'[p] = deposited[p]
      BY <1>4, <2>8 DEF PaidBy
    <3> QED
      BY <2>2, <2>6, <2>8, <3>1
  <2> QED
    BY <2>7, <2>8
<1>10. LedgerMatches'
  BY <1>9 DEF LedgerMatches
<1> QED
  BY <1>5, <1>6, <1>7, <1>10 DEF TokenInv

-----------------------------------------------------------------------------
(* Every action keeps the invariant.                                        *)

LEMMA InitHolds == ASSUME ExchangeInit PROVE TokenInv
<1>1. /\ pools = Seed /\ txs = [t \in Tx |-> <<>>] /\ undone = {}
      /\ deposited = [p \in Pool |-> [h \in Holder |-> [s \in Side |-> 0]]]
  BY DEF ExchangeInit
<1>2. Legs = {}
  BY <1>1 DEF Legs
<1>3. TokenTypeOK
  <2>1. pools = [p \in Pool |-> pools[p]]
    BY <1>1, TradeAssumption
  <2>2. \A p \in Pool : Kept(p)
    BY <1>1, TradeAssumption DEF Kept
  <2> QED
    BY <1>1, <2>1, <2>2 DEF TokenTypeOK
<1>4. LegsSound /\ undone \subseteq Legs
  BY <1>1, <1>2 DEF LegsSound
<1>5. ASSUME NEW p \in Pool, NEW s \in Side
      PROVE  /\ pools[p].reserve[s] = Seed[p].reserve[s] + Moved(s, Standing(p))
             /\ \A h \in Holder :
                  pools[p].balances[h][s] =
                      Seed[p].balances[h][s] + deposited[p][h][s]
                      - Moved(s, OfHolder(h, Standing(p)))
  <2>1. Standing(p) = {} /\ \A h \in Holder : OfHolder(h, Standing(p)) = {}
    BY <1>2 DEF Standing, OfHolder
  <2>2. Moved(s, {}) = 0
    BY SumEmpty DEF Moved
  <2>3. Seed[p].reserve[s] \in Int
    BY TradeAssumption
  <2>4. ASSUME NEW h \in Holder
        PROVE  pools[p].balances[h][s] =
                      Seed[p].balances[h][s] + deposited[p][h][s]
                      - Moved(s, OfHolder(h, Standing(p)))
    <3>1. Seed[p].balances \in [Holder -> [Side -> Int]]
      BY TradeAssumption
    <3>2. Seed[p].balances[h][s] \in Int /\ deposited[p][h][s] = 0
      BY <1>1, <3>1
    <3>3. Moved(s, OfHolder(h, Standing(p))) = 0 /\ pools[p].balances[h][s] = Seed[p].balances[h][s]
      BY <1>1, <2>1, <2>2
    <3> QED
      BY <3>2, <3>3
  <2> QED
    BY <1>1, <2>1, <2>2, <2>3, <2>4
<1> QED
  BY <1>3, <1>4, <1>5 DEF TokenInv, LedgerMatches

LEMMA PoolTyped ==
    ASSUME TokenInv, NEW p \in Pool
    PROVE  /\ DOMAIN pools[p] = {"rate", "reserve", "balances", "links"}
           /\ pools[p].rate = Seed[p].rate
           /\ pools[p].reserve \in [Side -> Int] /\ pools[p].balances \in [Holder -> [Side -> Int]]
           /\ deposited \in [Pool -> [Holder -> [Side -> Int]]]
BY DEF TokenInv, TokenTypeOK, Kept

\* What a pool is before a swap: itself, or itself with what just came in.
Credited(p, before) ==
    /\ Figures(before) /\ before.rate = Seed[p].rate
    /\ deposited' \in [Pool -> [Holder -> [Side -> Int]]]
    /\ \A q \in Pool : q # p => deposited'[q] = deposited[q]
    /\ \A s \in Side :
        /\ before.reserve[s] = pools[p].reserve[s]
        /\ \A h \in Holder :
            before.balances[h][s] = pools[p].balances[h][s] + deposited'[p][h][s] - deposited[p][h][s]

LEMMA SwapKept ==
    ASSUME TokenInv, NEW p \in Pool, NEW who \in Holder, NEW t \in Tx, NEW side \in Side, NEW amount \in Int,
           NEW before, Credited(p, before), NEW pool, pool = Swap(before, who, side, amount),
           Becomes(p, pool), NEW leg, leg = Leg(p, who, side, amount), Adds(t, leg)
    PROVE  TokenInv'
<1>1. PICK got : got = Quote(Seed[p].rate, side, amount)
  OBVIOUS
<1>2. got \in Int
  BY <1>1, QuoteTyped
<1>3. leg = [pool |-> p, holder |-> who, from |-> side, amount |-> amount, got |-> got, status |-> "prepared"]
  BY <1>1, PoolTyped DEF Leg
<1>4. leg \in Swapped /\ leg.status = "prepared" /\ leg.pool = p /\ leg.holder = who
  BY <1>2, <1>3 DEF Swapped
<1>5. leg.got = Quote(Seed[leg.pool].rate, leg.from, leg.amount)
  BY <1>1, <1>3
<1>6. \A s \in Side : Flow(leg, s) = IF s = side THEN amount ELSE -got
  BY <1>3 DEF Flow
<1>7. Shifted(before, who, side, amount, got, pool)
  BY <1>1, <1>2, ExchangedFigures DEF Credited, Swap
<1>8. ASSUME NEW s \in Side
      PROVE  /\ pool.reserve[s] = pools[p].reserve[s] + Flow(leg, s)
             /\ \A h \in Holder :
                  pool.balances[h][s] =
                    pools[p].balances[h][s] + deposited'[p][h][s] - deposited[p][h][s]
                        - (IF h = who THEN Flow(leg, s) ELSE 0)
  <2>1. pool.reserve[s] = pools[p].reserve[s] + Flow(leg, s)
    BY <1>6, <1>7 DEF Shifted, Credited
  <2>2. ASSUME NEW h \in Holder
        PROVE  pool.balances[h][s] =
                    pools[p].balances[h][s] + deposited'[p][h][s] - deposited[p][h][s]
                        - (IF h = who THEN Flow(leg, s) ELSE 0)
    <3>1. PICK f : f = IF h = who THEN Flow(leg, s) ELSE 0
      OBVIOUS
    <3>2. pool.balances[h][s] = before.balances[h][s] - f
      BY <1>6, <1>7, <3>1 DEF Shifted
    <3>3. before.balances[h][s] = pools[p].balances[h][s] + deposited'[p][h][s] - deposited[p][h][s]
      BY DEF Credited
    <3>4. /\ pools[p].balances[h][s] \in Int /\ deposited[p][h][s] \in Int
          /\ deposited'[p][h][s] \in Int /\ f \in Int
      BY <1>4, <3>1, PoolTyped, FlowTyped DEF Credited
    <3>5. pool.balances[h][s] = pools[p].balances[h][s] + deposited'[p][h][s] - deposited[p][h][s] - f
      BY <3>2, <3>3, <3>4
    <3> QED
      BY <3>1, <3>5
  <2> QED
    BY <2>1, <2>2
<1>9. PaidBy(leg, pool)
  BY <1>4, <1>7, <1>8 DEF PaidBy, Credited, Shifted, Figures
<1> QED
  BY <1>4, <1>5, <1>9, AddedKept

LEMMA PrepareKept ==
    ASSUME TokenInv, NEW p \in Pool, NEW who \in Holder, NEW t \in Tx,
           NEW side \in Side, NEW amount \in Amounts, Prepare(p, who, t, side, amount)
    PROVE  TokenInv'
<1>1. amount \in Int
  BY TradeAssumption
<1>2. Credited(p, pools[p])
  <2>1. deposited' = deposited
    BY DEF Prepare
  <2>2. ASSUME NEW s \in Side, NEW h \in Holder
        PROVE  pools[p].balances[h][s] = pools[p].balances[h][s] + deposited'[p][h][s] - deposited[p][h][s]
    <3>1. pools[p].balances[h][s] \in Int /\ deposited[p][h][s] \in Int
      BY PoolTyped
    <3> QED
      BY <2>1, <3>1
  <2> QED
    BY <2>1, <2>2, PoolTyped DEF Credited, Figures
<1>3. Becomes(p, Swap(pools[p], who, side, amount)) /\ Adds(t, Leg(p, who, side, amount))
  BY DEF Prepare, Becomes, Adds
<1> QED
  BY <1>1, <1>2, <1>3, SwapKept

LEMMA PrepareReceiveKept ==
    ASSUME TokenInv, NEW p \in Pool, NEW who \in Holder, NEW t \in Tx,
           NEW side \in Side, NEW amount \in Amounts, NEW link, PrepareReceive(p, who, t, side, amount, link)
    PROVE  TokenInv'
<1>1. amount \in Int
  BY TradeAssumption
<1>2. PICK before : before = Credit(pools[p], who, side, amount)
  OBVIOUS
<1>3. deposited' = [deposited EXCEPT ![p][who][side] = @ + amount]
  BY DEF PrepareReceive
<1>4. /\ DOMAIN before = {"rate", "reserve", "balances", "links"}
      /\ before.rate = Seed[p].rate /\ before.reserve = pools[p].reserve
      /\ before.balances = [pools[p].balances EXCEPT ![who][side] = @ + amount]
  BY <1>2, PoolTyped DEF Credit
<1>5. Figures(before)
  BY <1>1, <1>4, PoolTyped DEF Figures
<1>6. deposited' \in [Pool -> [Holder -> [Side -> Int]]] /\ \A q \in Pool : q # p => deposited'[q] = deposited[q]
  BY <1>1, <1>3, PoolTyped
<1>7. ASSUME NEW s \in Side, NEW h \in Holder
      PROVE  before.balances[h][s] = pools[p].balances[h][s] + deposited'[p][h][s] - deposited[p][h][s]
  <2>1. pools[p].balances \in [Holder -> [Side -> Int]] /\ deposited \in [Pool -> [Holder -> [Side -> Int]]]
    BY PoolTyped
  <2>2. PICK paid : paid = IF h = who /\ s = side THEN amount ELSE 0
    OBVIOUS
  <2>3. before.balances[h][s] = pools[p].balances[h][s] + paid
    BY <1>1, <1>4, <2>1, <2>2
  <2>4. deposited'[p][h][s] = deposited[p][h][s] + paid
    BY <1>1, <1>3, <2>1, <2>2
  <2>5. pools[p].balances[h][s] \in Int /\ deposited[p][h][s] \in Int /\ paid \in Int
    BY <1>1, <2>1, <2>2
  <2> QED
    BY <2>3, <2>4, <2>5
<1>8. Credited(p, before)
  BY <1>4, <1>5, <1>6, <1>7 DEF Credited
<1>9. Becomes(p, Swap(before, who, side, amount)) /\ Adds(t, Leg(p, who, side, amount))
  BY <1>2 DEF PrepareReceive, Becomes, Adds
<1> QED
  BY <1>1, <1>8, <1>9, SwapKept

LEMMA CommitKept ==
    ASSUME TokenInv, NEW p \in Pool, NEW who \in Holder, NEW t \in Tx, Commit(p, who, t)
    PROVE  TokenInv'
<1>1. FirstLeg(t, p) # 0 /\ pools' = pools /\ deposited' = deposited /\ undone' = undone
  BY DEF Commit
<1>2. PICK x \in Legs : x = <<t, FirstLeg(t, p)>>
  BY <1>1, Found
<1>3. txs' = [txs EXCEPT ![x[1]][x[2]].status = "committed"]
  BY <1>2 DEF Commit
<1>4. /\ Stays /\ Legs' = Legs /\ txs' \in [Tx -> Seq(Swapped)]
      /\ \A ti \in Legs :
            /\ LegAt(ti)'.got = LegAt(ti).got /\ LegAt(ti)'.amount = LegAt(ti).amount
            /\ LegAt(ti)'.from = LegAt(ti).from /\ LegAt(ti)'.pool = LegAt(ti).pool
            /\ LegAt(ti)'.status = IF ti = x THEN "committed" ELSE LegAt(ti).status
  BY <1>3, LegMarked
<1>5. TokenTypeOK'
  BY <1>1, <1>4 DEF TokenInv, TokenTypeOK, Kept
<1>6. LegsSound' /\ undone' \subseteq Legs'
  BY <1>1, <1>4 DEF TokenInv, LegsSound
<1>7. LedgerMatches'
  <2>1. ASSUME NEW q \in Pool, NEW s \in Side
        PROVE  /\ Moved(s, Standing(q))' = Moved(s, Standing(q))
               /\ \A h \in Holder : Moved(s, OfHolder(h, Standing(q)))' = Moved(s, OfHolder(h, Standing(q)))
    <3>1. PICK L \in SUBSET Legs : L = Standing(q)
      BY DEF Standing
    <3>2. Standing(q)' = L
      BY <1>1, <1>4, <3>1 DEF Standing
    <3>3. Moved(s, L)' = Moved(s, L)
      BY <1>4, MovedStays
    <3>4. ASSUME NEW h \in Holder
          PROVE  Moved(s, OfHolder(h, Standing(q)))' = Moved(s, OfHolder(h, Standing(q)))
      <4>1. PICK M \in SUBSET Legs : M = OfHolder(h, L)
        BY DEF OfHolder
      <4>2. OfHolder(h, Standing(q))' = M
        BY <1>4, <3>2, <4>1 DEF OfHolder, Stays
      <4>3. Moved(s, M)' = Moved(s, M)
        BY <1>4, MovedStays
      <4> QED
        BY <3>1, <4>1, <4>2, <4>3 DEF Moved
    <3> QED
      BY <3>1, <3>2, <3>3, <3>4 DEF Moved
  <2> QED
    BY <1>1, <2>1 DEF TokenInv, LedgerMatches
<1> QED
  BY <1>5, <1>6, <1>7 DEF TokenInv

LEMMA AbortKept ==
    ASSUME TokenInv, NEW p \in Pool, NEW who \in Holder, NEW t \in Tx, NEW height, Abort(p, who, t, height)
    PROVE  TokenInv'
<1>1. FirstLeg(t, p) # 0 /\ deposited' = deposited
  BY DEF Abort
<1>2. PICK x \in Legs : /\ x = <<t, FirstLeg(t, p)>> /\ LegAt(x) = txs[t][FirstLeg(t, p)] /\ LegAt(x).pool = p
  <2>1. PICK i : i = FirstLeg(t, p)
    OBVIOUS
  <2>2. <<t, i>> \in Legs /\ LegAt(<<t, i>>) = txs[t][i] /\ txs[t][i].pool = p
    BY <1>1, <2>1, Found
  <2> QED
    BY <2>1, <2>2
<1>3. PICK leg \in Swapped : leg = LegAt(x)
  BY LegTyped
<1>4. /\ txs' = [txs EXCEPT ![x[1]][x[2]].status = "aborted"]
      /\ undone' = undone \cup {x}
      /\ leg.status = "prepared" /\ leg.pool = p
  BY <1>2, <1>3 DEF Abort
<1>5. PICK pool : pool = Unswap(pools[p], leg)
  OBVIOUS
<1>6. pools' = [pools EXCEPT ![p] = pool]
  BY <1>2, <1>3, <1>5 DEF Abort
<1>7. /\ Stays /\ Legs' = Legs /\ txs' \in [Tx -> Seq(Swapped)]
      /\ \A ti \in Legs :
            /\ LegAt(ti)'.got = LegAt(ti).got /\ LegAt(ti)'.amount = LegAt(ti).amount
            /\ LegAt(ti)'.from = LegAt(ti).from /\ LegAt(ti)'.pool = LegAt(ti).pool
            /\ LegAt(ti)'.status = IF ti = x THEN "aborted" ELSE LegAt(ti).status
  BY <1>4, LegMarked
<1>8. leg.holder \in Holder /\ leg.from \in Side /\ leg.amount \in Int /\ leg.got \in Int
  BY DEF Swapped
<1>9. PICK a, g : a = -leg.amount /\ g = -leg.got
  OBVIOUS
<1>10. a \in Int /\ g \in Int
  BY <1>8, <1>9
<1>11. Shifted(pools[p], leg.holder, leg.from, a, g, pool)
  <2>1. Figures(pools[p])
    BY PoolTyped DEF Figures
  <2>2. pool = Exchanged(pools[p], leg.holder, leg.from, a, g)
    BY <1>5, <1>9 DEF Unswap
  <2> QED
    BY <1>8, <1>10, <2>1, <2>2, ExchangedFigures
<1>12. \A q \in Pool : pools'[q] = IF q = p THEN pool ELSE pools[q]
  BY <1>6 DEF TokenInv, TokenTypeOK
<1>13. TokenTypeOK'
  <2>1. pools' = [q \in Pool |-> pools'[q]]
    BY <1>6 DEF TokenInv, TokenTypeOK
  <2>2. ASSUME NEW q \in Pool
        PROVE  Kept(q)'
    BY <1>11, <1>12, PoolTyped DEF Kept, Shifted, Figures
  <2> QED
    BY <1>1, <1>7, <2>1, <2>2 DEF TokenInv, TokenTypeOK
<1>14. LegsSound' /\ undone' \subseteq Legs'
  BY <1>4, <1>7 DEF TokenInv, LegsSound
<1>15. x \in Standing(p) /\ Standing(p)' = Standing(p) \ {x}
       /\ \A q \in Pool : q # p => Standing(q)' = Standing(q)
  <2>1. x \notin undone
    BY <1>3, <1>4 DEF TokenInv, LegsSound
  <2>2. ASSUME NEW q \in Pool, NEW ti
        PROVE  ti \in Standing(q)' <=> ti \in Standing(q) /\ ti # x
    BY <1>4, <1>7 DEF Standing
  <2>3. x \in Standing(p) /\ \A q \in Pool : q # p => x \notin Standing(q)
    BY <1>3, <1>4, <2>1 DEF Standing
  <2> QED
    BY <2>2, <2>3
<1>16. ASSUME NEW s \in Side
       PROVE  /\ pool.reserve[s] = pools[p].reserve[s] - Flow(leg, s)
              /\ \A h \in Holder :
                   pool.balances[h][s] = pools[p].balances[h][s] + (IF h = leg.holder THEN Flow(leg, s) ELSE 0)
  <2>1. PICK f \in Int : f = Flow(leg, s)
    BY FlowTyped
  <2>2. (IF s = leg.from THEN a ELSE -g) = -f
    BY <1>8, <1>9, <2>1 DEF Flow
  <2>3. pool.reserve[s] = pools[p].reserve[s] - f
    <3>1. pool.reserve[s] = pools[p].reserve[s] + (-f)
      BY <1>11, <2>2 DEF Shifted
    <3>2. pools[p].reserve[s] \in Int
      BY PoolTyped
    <3> QED
      BY <3>1, <3>2
  <2>4. ASSUME NEW h \in Holder
        PROVE  pool.balances[h][s] = pools[p].balances[h][s] + (IF h = leg.holder THEN f ELSE 0)
    <3>1. pool.balances[h][s] = pools[p].balances[h][s] - (IF h = leg.holder THEN -f ELSE 0)
      BY <1>11, <2>2 DEF Shifted
    <3>2. pools[p].balances[h][s] \in Int
      BY PoolTyped
    <3> QED
      BY <3>1, <3>2
  <2> QED
    BY <2>1, <2>3, <2>4
<1>17. ASSUME NEW q \in Pool, NEW s \in Side
       PROVE  /\ pools'[q].reserve[s] = Seed[q].reserve[s] + Moved(s, Standing(q))'
              /\ \A h \in Holder :
                   pools'[q].balances[h][s] =
                      Seed[q].balances[h][s] + deposited[q][h][s]
                      - Moved(s, OfHolder(h, Standing(q)))'
  <2>1. PICK L \in SUBSET Legs : L = Standing(q)
    BY DEF Standing
  <2>2. /\ pools[q].reserve[s] = Seed[q].reserve[s] + Moved(s, L)
        /\ \A h \in Holder :
              pools[q].balances[h][s] =
                  Seed[q].balances[h][s] + deposited[q][h][s] - Moved(s, OfHolder(h, L))
    BY <2>1 DEF TokenInv, LedgerMatches
  <2>3. /\ Seed[q].reserve[s] \in Int /\ Moved(s, L) \in Int /\ Flow(leg, s) \in Int
    BY FlowTyped, MovedTyped, TradeAssumption
  <2>4. PICK N \in SUBSET Legs : N = IF q = p THEN L \ {x} ELSE L
    OBVIOUS
  <2>5. Standing(q)' = N
    BY <1>15, <2>1, <2>4
  <2>6. \A M \in SUBSET Legs : Moved(s, M)' = Moved(s, M)
    BY <1>7, MovedStays
  <2>7. pools'[q].reserve[s] = Seed[q].reserve[s] + Moved(s, Standing(q))'
    <3>1. Moved(s, Standing(q))' = Moved(s, N)
      BY <2>5, <2>6 DEF Moved
    <3>2. CASE q = p
      <4>1. Moved(s, L) = Flow(leg, s) + Moved(s, L \ {x})
        BY <1>3, <1>15, <2>1, <3>2, MovedLess
      <4>2. Moved(s, N) \in Int
        BY MovedTyped
      <4>3. pools'[q].reserve[s] = pools[q].reserve[s] - Flow(leg, s)
        BY <1>12, <1>16, <3>2
      <4> QED
        BY <2>2, <2>3, <2>4, <3>1, <3>2, <4>1, <4>2, <4>3
    <3>3. CASE q # p
      BY <1>12, <2>2, <2>4, <3>1, <3>3
    <3> QED
      BY <3>2, <3>3
  <2>8. ASSUME NEW h \in Holder
        PROVE  pools'[q].balances[h][s] =
                      Seed[q].balances[h][s] + deposited[q][h][s]
                      - Moved(s, OfHolder(h, Standing(q)))'
    <3>1. PICK M \in SUBSET Legs : M = OfHolder(h, L)
      BY DEF OfHolder
    <3>2. PICK R \in SUBSET Legs : R = IF q = p /\ h = leg.holder THEN M \ {x} ELSE M
      OBVIOUS
    <3>3. OfHolder(h, Standing(q))' = R
      <4>1. \A ti \in Legs : LegAt(ti)'.holder = LegAt(ti).holder
        BY <1>7 DEF Stays
      <4>2. \A ti : ti \in OfHolder(h, Standing(q))' <=> ti \in N /\ LegAt(ti).holder = h
        BY <2>5, <4>1 DEF OfHolder
      <4>3. \A ti : ti \in M <=> ti \in L /\ LegAt(ti).holder = h
        BY <3>1 DEF OfHolder
      <4>4. \A ti : ti \in OfHolder(h, Standing(q))' <=> ti \in R
        BY <1>3, <2>4, <3>2, <4>2, <4>3
      <4> QED
        BY <4>4
    <3>4. Moved(s, OfHolder(h, Standing(q)))' = Moved(s, R)
      BY <2>6, <3>3 DEF Moved
    <3>5. /\ Seed[q].balances[h][s] \in Int /\ deposited[q][h][s] \in Int
          /\ Moved(s, M) \in Int /\ Moved(s, R) \in Int
      <4>1. Seed[q].balances \in [Holder -> [Side -> Int]] /\ deposited \in [Pool -> [Holder -> [Side -> Int]]]
        BY TradeAssumption, PoolTyped
      <4>2. Moved(s, M) \in Int /\ Moved(s, R) \in Int
        BY MovedTyped
      <4> QED
        BY <4>1, <4>2
    <3>6. pools[q].balances[h][s] = Seed[q].balances[h][s] + deposited[q][h][s] - Moved(s, M)
      BY <2>2, <3>1
    <3>7. CASE q = p /\ h = leg.holder
      <4>1. x \in M
        BY <1>3, <1>15, <2>1, <3>1, <3>7 DEF OfHolder
      <4>2. Moved(s, M) = Flow(leg, s) + Moved(s, M \ {x})
        BY <1>3, <4>1, MovedLess
      <4>3. pools'[q].balances[h][s] = pools[q].balances[h][s] + Flow(leg, s)
        BY <1>12, <1>16, <3>7
      <4> QED
        BY <2>3, <3>2, <3>4, <3>5, <3>6, <3>7, <4>2, <4>3
    <3>8. CASE ~(q = p /\ h = leg.holder)
      <4>1. pools'[q].balances[h][s] = pools[q].balances[h][s]
        <5>1. CASE q # p
          BY <1>12, <5>1
        <5>2. CASE q = p /\ h # leg.holder
          <6>1. pools'[q].balances[h][s] = pools[q].balances[h][s] + 0
            BY <1>12, <1>16, <5>2
          <6>2. pools[q].balances[h][s] \in Int
            BY PoolTyped
          <6> QED
            BY <6>1, <6>2
        <5> QED
          BY <3>8, <5>1, <5>2
      <4> QED
        BY <3>2, <3>4, <3>6, <3>8, <4>1
    <3> QED
      BY <3>7, <3>8
  <2> QED
    BY <2>7, <2>8
<1>18. LedgerMatches'
  BY <1>1, <1>17 DEF LedgerMatches
<1> QED
  BY <1>13, <1>14, <1>18 DEF TokenInv

LEMMA StutterKept == ASSUME TokenInv, UNCHANGED exchangeVars PROVE TokenInv'
<1>1. pools' = pools /\ txs' = txs /\ deposited' = deposited /\ undone' = undone
  BY DEF exchangeVars
<1>2. Legs' = Legs /\ (\A ti : LegAt(ti)' = LegAt(ti)) /\ \A p \in Pool : Standing(p)' = Standing(p)
  BY <1>1 DEF Legs, LegAt, Standing
<1>3. ASSUME NEW p \in Pool, NEW s \in Side
      PROVE  /\ pools'[p].reserve[s] = Seed[p].reserve[s] + Moved(s, Standing(p))'
             /\ \A h \in Holder :
                  pools'[p].balances[h][s] =
                      Seed[p].balances[h][s] + deposited'[p][h][s]
                      - Moved(s, OfHolder(h, Standing(p)))'
  <2>1. PICK L \in SUBSET Legs : L = Standing(p)
    BY DEF Standing
  <2>2. \A M \in SUBSET Legs : Moved(s, M)' = Moved(s, M)
    BY <1>2, MovedStays DEF Stays
  <2>3. Moved(s, Standing(p))' = Moved(s, L)
    BY <1>2, <2>1, <2>2 DEF Moved
  <2>4. ASSUME NEW h \in Holder
        PROVE  Moved(s, OfHolder(h, Standing(p)))' = Moved(s, OfHolder(h, L))
    <3>1. PICK M \in SUBSET Legs : M = OfHolder(h, L)
      BY DEF OfHolder
    <3>2. OfHolder(h, Standing(p))' = M
      BY <1>2, <2>1, <3>1 DEF OfHolder
    <3> QED
      BY <2>2, <3>1, <3>2 DEF Moved
  <2> QED
    BY <1>1, <2>1, <2>3, <2>4 DEF TokenInv, LedgerMatches
<1>4. LedgerMatches'
  BY <1>3 DEF LedgerMatches
<1>5. TokenTypeOK' /\ LegsSound' /\ undone' \subseteq Legs'
  BY <1>1, <1>2 DEF TokenInv, TokenTypeOK, Kept, LegsSound
<1> QED
  BY <1>4, <1>5 DEF TokenInv

THEOREM TokenKept == ExchangeSpec => []TokenInv
<1>1. ExchangeInit => TokenInv
  BY InitHolds
<1>2. TokenInv /\ [ExchangeNext]_exchangeVars => TokenInv'
  BY PrepareKept, PrepareReceiveKept, CommitKept, AbortKept, StutterKept DEF ExchangeNext
<1> QED
  BY <1>1, <1>2, PTL DEF ExchangeSpec

\* LedgerMatches: no history of trades, commits and aborts, by whomever, leaves a
\* figure that genesis, the deposits and the legs that stand do not explain.
THEOREM LedgerKept == ExchangeSpec => []LedgerMatches
<1>1. TokenInv => LedgerMatches
  BY DEF TokenInv
<1> QED
  BY <1>1, TokenKept, PTL

-----------------------------------------------------------------------------
(* Rounding.                                                                *)

LEMMA DivBelow ==
    ASSUME NEW n \in Int, NEW d \in Nat \ {0}
    PROVE  n \div d \in Int /\ d * (n \div d) <= n
<1>1. n \div d \in Int /\ n = d * (n \div d) + (n % d) /\ n % d \in 0..(d - 1)
  OBVIOUS
<1> QED
  BY <1>1

\* At the pool's rate a leg never brings its holder more than it costs him.
LEMMA LegCosts ==
    ASSUME NEW p \in Pool, NEW leg \in Swapped, leg.got = Quote(Seed[p].rate, leg.from, leg.amount)
    PROVE  Seed[p].rate * Flow(leg, "A") + Scale * Flow(leg, "B") >= 0
<1>1. PICK rate \in Nat \ {0} : rate = Seed[p].rate
  BY ScaleAssumption DEF Pool
<1>2. Scale \in Nat \ {0}
  BY ScaleAssumption
<1>3. PICK amount \in Int, got \in Int : amount = leg.amount /\ got = leg.got
  BY DEF Swapped
<1>4. CASE leg.from = "A"
  <2>1. got = (amount * rate) \div Scale
    BY <1>1, <1>3, <1>4 DEF Quote
  <2>2. PICK n \in Int : n = amount * rate
    BY <1>1, <1>3
  <2>3. Scale * got <= n
    BY <1>2, <2>1, <2>2, DivBelow
  <2>4. Flow(leg, "A") = amount /\ Flow(leg, "B") = -got
    BY <1>3, <1>4 DEF Flow
  <2>5. rate * amount + Scale * (-got) = n - Scale * got
    BY <1>1, <1>2, <1>3, <2>2
  <2>6. Scale * got \in Int
    BY <1>2, <1>3
  <2> QED
    BY <1>1, <2>3, <2>4, <2>5, <2>6
<1>5. CASE leg.from = "B"
  <2>1. got = (amount * Scale) \div rate
    BY <1>1, <1>3, <1>5 DEF Quote
  <2>2. PICK n \in Int : n = amount * Scale
    BY <1>2, <1>3
  <2>3. rate * got <= n
    BY <1>1, <2>1, <2>2, DivBelow
  <2>4. Flow(leg, "B") = amount /\ Flow(leg, "A") = -got
    BY <1>3, <1>5 DEF Flow
  <2>5. rate * (-got) + Scale * amount = n - rate * got
    BY <1>1, <1>2, <1>3, <2>2
  <2>6. rate * got \in Int
    BY <1>1, <1>3
  <2> QED
    BY <1>1, <2>3, <2>4, <2>5, <2>6
<1> QED
  BY <1>4, <1>5 DEF Swapped, Side

LEMMA Distributes ==
    ASSUME NEW x \in Int, NEW y \in Int, NEW z \in Int, NEW u \in Int, NEW v \in Int, NEW w \in Int,
           NEW k \in Int, NEW l \in Int, k * z + l * w >= 0
    PROVE  (x + y - z) * k + (u + v - w) * l <= (x * k + u * l) + (y * k + v * l)
<1>1. (x + y - z) * k = x * k + y * k - z * k
  BY Z3
<1>2. (u + v - w) * l = u * l + v * l - w * l
  BY Z3
<1>3. x * k \in Int /\ y * k \in Int /\ z * k \in Int /\ u * l \in Int /\ v * l \in Int /\ w * l \in Int
  OBVIOUS
<1>4. k * z = z * k /\ l * w = w * l
  OBVIOUS
<1> QED
  BY <1>1, <1>2, <1>3, <1>4

\* NoGain: rounding goes to the reserve in every swap, in both directions, and so
\* it does in every sum of swaps.
THEOREM NoGainKept == ExchangeSpec => []NoGain
<1>1. ASSUME TokenInv PROVE NoGain
  <2>1. SUFFICES ASSUME NEW p \in Pool, NEW h \in Holder
                 PROVE  Worth(p, pools[p].balances[h]) <= Worth(p, Seed[p].balances[h]) + Worth(p, deposited[p][h])
    BY DEF NoGain
  <2>2. PICK L \in SUBSET Legs : L = OfHolder(h, Standing(p))
    BY DEF OfHolder, Standing
  <2>3. "A" \in Side /\ "B" \in Side
    BY DEF Side
  <2>4. PICK f : f = [ti \in Legs |-> Flow(LegAt(ti), "A")]
    OBVIOUS
  <2>5. PICK e : e = [ti \in Legs |-> Flow(LegAt(ti), "B")]
    OBVIOUS
  <2>6. PICK rate \in Int : rate = Seed[p].rate
    BY ScaleAssumption DEF Pool
  <2>7. Scale \in Int
    BY ScaleAssumption
  <2>8. ASSUME NEW ti \in L
        PROVE  f[ti] \in Int /\ e[ti] \in Int /\ rate * f[ti] + Scale * e[ti] >= 0
    <3>1. PICK leg \in Swapped : leg = LegAt(ti)
      BY <1>1, LegTyped
    <3>2. leg.pool = p
      BY <2>2, <3>1 DEF OfHolder, Standing
    <3>3. leg.got = Quote(Seed[p].rate, leg.from, leg.amount)
      BY <1>1, <3>1, <3>2 DEF TokenInv, LegsSound
    <3>4. f[ti] = Flow(leg, "A") /\ e[ti] = Flow(leg, "B")
      BY <2>4, <2>5, <3>1
    <3> QED
      BY <2>3, <2>6, <3>3, <3>4, FlowTyped, LegCosts
  <2>9. IsFiniteSet(L)
    BY <1>1, LegsFinite, FS_Subset
  <2>10. PICK a \in Int, b \in Int : a = SumFunctionOnSet(f, L) /\ b = SumFunctionOnSet(e, L)
    BY <2>6, <2>7, <2>8, <2>9, SumWeighted
  <2>11. rate * a + Scale * b >= 0
    BY <2>6, <2>7, <2>8, <2>9, <2>10, SumWeighted
  <2>12. /\ pools[p].balances[h]["A"] = Seed[p].balances[h]["A"] + deposited[p][h]["A"] - a
         /\ pools[p].balances[h]["B"] = Seed[p].balances[h]["B"] + deposited[p][h]["B"] - b
    <3>1. Moved("A", L) = a /\ Moved("B", L) = b
      BY <2>4, <2>5, <2>10 DEF Moved
    <3> QED
      BY <1>1, <2>2, <2>3, <3>1 DEF TokenInv, LedgerMatches
  <2>13. PICK sa \in Int, sb \in Int, da \in Int, db \in Int :
            /\ sa = Seed[p].balances[h]["A"] /\ sb = Seed[p].balances[h]["B"]
            /\ da = deposited[p][h]["A"] /\ db = deposited[p][h]["B"]
    <3>1. Seed[p].balances \in [Holder -> [Side -> Int]] /\ deposited \in [Pool -> [Holder -> [Side -> Int]]]
      BY <1>1, TradeAssumption, PoolTyped
    <3> QED
      BY <2>3, <3>1
  <2>14. (sa + da - a) * rate + (sb + db - b) * Scale <= (sa * rate + sb * Scale) + (da * rate + db * Scale)
    <3>1. rate \in Int /\ Scale \in Int
      BY <2>6, <2>7
    <3> QED
      BY <2>10, <2>11, <2>13, <3>1, Distributes
  <2> QED
    BY <2>6, <2>12, <2>13, <2>14 DEF Worth
<1> QED
  BY <1>1, TokenKept, PTL

-----------------------------------------------------------------------------
(* What is computed step by step, and in order.                             *)

\* The computation that begins with x and makes the steps 1..n.
Computes(f, n, X, x, step) ==
    f \in [0 .. n -> X] /\ f[0] = x /\ \A i \in 1 .. n : f[i] = step[i][f[i - 1]]

\* There is one.
LEMMA Iterates ==
    ASSUME NEW n \in Nat, NEW X, NEW x \in X, NEW step \in [1 .. n -> [X -> X]]
    PROVE  \E f : Computes(f, n, X, x, step)
<1> DEFINE Runs(f, m) == f \in [0 .. m -> X] /\ f[0] = x /\ \A i \in 1 .. m : f[i] = step[i][f[i - 1]]
           Fails == {m \in 0 .. n : ~\E f : Runs(f, m)}
<1>1. SUFFICES ASSUME Fails # {} PROVE FALSE
  <2>1. n \in 0 .. n
    OBVIOUS
  <2>2. \E f : Runs(f, n)
    BY <1>1, <2>1
  <2> QED
    BY <2>2 DEF Computes
<1>2. PICK m \in Fails : \A k \in Fails : ~(k < m)
  <2>1. Fails \subseteq Nat
    OBVIOUS
  <2>2. IsWellFoundedOn(OpToRel(<, Nat), Nat)
    BY NatLessThanWellFounded
  <2>3. PICK m \in Fails : \A k \in Fails : <<k, m>> \notin OpToRel(<, Nat)
    <3> HIDE DEF Fails
    <3> QED
      BY <1>1, <2>1, <2>2, WFMin
  <2>4. ASSUME NEW k \in Fails, k < m PROVE FALSE
    <3>1. k \in Nat /\ m \in Nat
      BY <2>1
    <3> QED
      BY <2>3, <2>4, <3>1 DEF OpToRel
  <2> QED
    BY <2>4
<1>3. m \in Nat /\ m <= n
  BY <1>2
<1>4. CASE m = 0
  <2>1. PICK f : f = [i \in 0 .. 0 |-> x]
    OBVIOUS
  <2>2. Runs(f, 0)
    BY <2>1
  <2> QED
    BY <1>2, <1>4, <2>2
<1>5. CASE m # 0
  <2>1. m - 1 \in 0 .. n /\ m - 1 \notin Fails
    <3>1. m - 1 \in 0 .. n /\ m - 1 < m
      BY <1>3, <1>5
    <3> HIDE DEF Fails
    <3> QED
      BY <1>2, <3>1
  <2>2. PICK g : Runs(g, m - 1)
    BY <2>1
  <2>3. PICK f : f = [i \in 0 .. m |-> IF i = m THEN step[m][g[m - 1]] ELSE g[i]]
    OBVIOUS
  <2>4. g[m - 1] \in X /\ step[m] \in [X -> X]
    BY <1>3, <1>5, <2>2
  <2>5. f \in [0 .. m -> X]
    BY <1>3, <1>5, <2>2, <2>3, <2>4
  <2>6. f[0] = x
    BY <1>3, <1>5, <2>2, <2>3
  <2>7. ASSUME NEW i \in 1 .. m
        PROVE  f[i] = step[i][f[i - 1]]
    <3>1. CASE i = m
      BY <1>3, <1>5, <2>3, <3>1
    <3>2. CASE i # m
      <4>1. i \in 1 .. (m - 1)
        BY <1>3, <3>2
      <4>2. f[i] = g[i] /\ f[i - 1] = g[i - 1]
        BY <1>3, <2>3, <4>1
      <4> QED
        BY <2>2, <4>1, <4>2
    <3> QED
      BY <3>1, <3>2
  <2>8. Runs(f, m)
    BY <2>5, <2>6, <2>7
  <2> QED
    BY <1>2, <2>8
<1> QED
  BY <1>4, <1>5

\* A finite set can be put in the order of any key.
LEMMA Sortable ==
    ASSUME NEW S, IsFiniteSet(S), NEW key \in [S -> Nat]
    PROVE  \E s \in SetToSeqs(S) : \A i, j \in DOMAIN s : i < j => key[s[i]] <= key[s[j]]
<1> DEFINE Sorts(s, T) == s \in SetToSeqs(T) /\ \A i, j \in DOMAIN s : i < j => key[s[i]] <= key[s[j]]
           Fails == {T \in SUBSET S : ~\E s : Sorts(s, T)}
<1>1. SUFFICES ASSUME Fails # {} PROVE FALSE
  OBVIOUS
<1>2. PICK T \in Fails : \A U \in Fails : ~(U \subseteq T /\ U # T)
  <2>1. Fails \in SUBSET (SUBSET S)
    OBVIOUS
  <2> HIDE DEF Fails
  <2> QED
    BY <1>1, <2>1, SmallestSet
<1>3. T \subseteq S /\ IsFiniteSet(T)
  BY <1>2, FS_Subset
<1>4. CASE T = {}
  <2>1. PICK s : s = [i \in 1 .. 0 |-> i]
    OBVIOUS
  <2>2. Cardinality(T) = 0
    BY <1>4, FS_EmptySet
  <2>3. Sorts(s, T)
    BY <1>4, <2>1, <2>2 DEF SetToSeqs
  <2> QED
    BY <1>2, <2>3
<1>5. CASE T # {}
  <2>1. PICK p \in T : \A q \in T : key[q] <= key[p]
    <3>1. PICK K : K = {key[q] : q \in T}
      OBVIOUS
    <3>2. IsFiniteSet(K)
      <4>1. PICK f : f = [q \in T |-> key[q]]
        OBVIOUS
      <4>2. f \in Surjection(T, K)
        BY <3>1, <4>1 DEF Surjection
      <4> QED
        BY <1>3, <4>2, FS_Surjection
    <3>3. K \in SUBSET Nat /\ K # {}
      BY <1>3, <1>5, <3>1
    <3>4. PICK m \in K : \A k \in K : k <= m
      BY <3>2, <3>3, LargestExists
    <3> QED
      BY <3>1, <3>4
  <2>2. PICK U : U = T \ {p}
    OBVIOUS
  <2>3. U \subseteq T /\ U # T /\ U \subseteq S
    BY <1>3, <2>2
  <2>4. PICK s : Sorts(s, U)
    BY <1>2, <2>3
  <2>5. PICK n \in Nat : n = Cardinality(U)
    BY <1>3, <2>2, FS_RemoveElement, FS_CardinalityType
  <2>6. Cardinality(T) = n + 1
    <3>1. Cardinality(T) \in Nat
      BY <1>3, FS_CardinalityType
    <3>2. Cardinality(T \ {p}) = Cardinality(T) - 1
      BY <1>3, <2>1, FS_RemoveElement
    <3> QED
      BY <2>2, <2>5, <3>1, <3>2
  <2>7. /\ s \in [1 .. n -> U] /\ \A i, j \in 1 .. n : i # j => s[i] # s[j]
        /\ \A i, j \in 1 .. n : i < j => key[s[i]] <= key[s[j]]
    BY <2>4, <2>5 DEF SetToSeqs
  <2>8. PICK t : t = [i \in 1 .. (n + 1) |-> IF i = n + 1 THEN p ELSE s[i]]
    OBVIOUS
  <2>9. ASSUME NEW i \in 1 .. (n + 1), i # n + 1 PROVE i \in 1 .. n
    BY <2>9
  <2>10. t \in [1 .. (n + 1) -> T]
    BY <2>2, <2>7, <2>8, <2>9
  <2>11. \A i, j \in 1 .. (n + 1) : i # j => t[i] # t[j]
    BY <2>2, <2>7, <2>8, <2>9
  <2>12. \A i, j \in 1 .. (n + 1) : i < j => key[t[i]] <= key[t[j]]
    <3>1. ASSUME NEW i \in 1 .. (n + 1), NEW j \in 1 .. (n + 1), i < j
          PROVE  key[t[i]] <= key[t[j]]
      <4>1. i \in 1 .. n /\ t[i] = s[i] /\ s[i] \in T
        BY <2>2, <2>7, <2>8, <3>1
      <4>2. CASE j = n + 1
        BY <2>1, <2>8, <4>1, <4>2
      <4>3. CASE j # n + 1
        BY <2>7, <2>8, <2>9, <3>1, <4>1, <4>3
      <4> QED
        BY <4>2, <4>3
    <3> QED
      BY <3>1
  <2>13. Sorts(t, T)
    BY <2>6, <2>10, <2>11, <2>12 DEF SetToSeqs
  <2> QED
    BY <1>2, <2>13
<1> QED
  BY <1>4, <1>5

\* Such an order names every element.
LEMMA Listed ==
    ASSUME NEW S, IsFiniteSet(S), NEW s \in SetToSeqs(S)
    PROVE  /\ Cardinality(S) \in Nat /\ s \in Seq(S) /\ Len(s) = Cardinality(S) /\ DOMAIN s = 1 .. Cardinality(S)
           /\ \A i \in DOMAIN s : s[i] \in S
           /\ \A x \in S : \E i \in DOMAIN s : s[i] = x
<1>1. PICK n \in Nat : n = Cardinality(S)
  BY FS_CardinalityType
<1>2. s \in [1 .. n -> S] /\ \A i, j \in 1 .. n : i # j => s[i] # s[j]
  BY <1>1 DEF SetToSeqs
<1>3. s \in Seq(S) /\ Len(s) = n
  BY <1>1, <1>2
<1>4. PICK R : R = {s[i] : i \in 1 .. n}
  OBVIOUS
<1>5. s \in Bijection(1 .. n, R)
  BY <1>2, <1>4 DEF Bijection, Injection, Surjection, IsInjective
<1>6. IsFiniteSet(1 .. n) /\ Cardinality(1 .. n) = n
  <2>1. 1 \in Int /\ n \in Int
    OBVIOUS
  <2> QED
    BY <2>1, FS_Interval
<1>7. IsFiniteSet(R) /\ Cardinality(R) = n
  <2>1. ExistsBijection(1 .. n, R)
    BY <1>5 DEF ExistsBijection
  <2> QED
    BY <1>6, <2>1, FS_Bijection
<1>8. R \subseteq S
  BY <1>2, <1>4
<1>9. R = S
  BY <1>1, <1>7, <1>8, FS_Subset
<1> QED
  BY <1>1, <1>2, <1>3, <1>4, <1>9

-----------------------------------------------------------------------------
(* Which propositions stand together.                                       *)

\* The sets of accepted propositions of one round, one for each prefix of the order.
Grows(f, order, remaining, accepted) ==
    /\ f[0] = accepted
    /\ \A i \in 1 .. Len(order) :
          f[i] = f[i - 1] \cup {p \in {order[i]} \cap remaining : Acceptable(p, f[i - 1])}

\* A round is computed from such sets.
LEMMA RoundGrows ==
    ASSUME NEW P, NEW order \in Seq(P), NEW remaining \in SUBSET P, NEW accepted \in SUBSET P
    PROVE  \E f \in [0 .. Len(order) -> SUBSET P] :
               Grows(f, order, remaining, accepted) /\ Accepting(order, remaining, accepted) = f[Len(order)]
<1> DEFINE n == Len(order)
           Grown(i, s) == s \cup {p \in {order[i]} \cap remaining : Acceptable(p, s)}
           Next(f) == [i \in 0 .. n |-> IF i = 0 THEN accepted
                            ELSE f[i - 1] \cup {p \in {order[i]} \cap remaining : Acceptable(p, f[i - 1])}]
           g == CHOOSE f : f = Next(f)
<1>1. n \in Nat
  OBVIOUS
<1>2. PICK X, step : X = SUBSET P /\ step = [i \in 1 .. n |-> [s \in X |-> Grown(i, s)]]
  OBVIOUS
<1>3. accepted \in X /\ step \in [1 .. n -> [X -> X]]
  BY <1>2
<1>4. PICK f : Computes(f, n, X, accepted, step)
  <2> HIDE DEF n
  <2> QED
    BY <1>1, <1>3, Iterates
<1>5. ASSUME NEW i \in 1 .. n PROVE f[i] = Grown(i, f[i - 1])
  <2>1. f[i - 1] \in X
    BY <1>1, <1>4 DEF Computes
  <2> QED
    BY <1>2, <1>4, <2>1 DEF Computes
<1>6. f = Next(f)
  BY <1>1, <1>2, <1>4, <1>5 DEF Computes
<1>7. g = Next(g)
  <2> HIDE DEF Next
  <2> QED
    BY <1>6
<1>8. Accepting(order, remaining, accepted) = g[n]
  BY DEF Accepting
<1> HIDE DEF g
<1>9. g[0] = accepted /\ \A i \in 1 .. n : g[i] = Grown(i, g[i - 1])
  <2>1. PICK h : h = g
    OBVIOUS
  <2>2. h = Next(h)
    BY <1>7, <2>1
  <2>3. h[0] = accepted
    BY <1>1, <2>2
  <2>4. ASSUME NEW i \in 1 .. n PROVE h[i] = Grown(i, h[i - 1])
    <3>1. i \in 0 .. n /\ i # 0
      BY <1>1
    <3> QED
      BY <2>2, <3>1
  <2> QED
    BY <2>1, <2>3, <2>4
<1>10. PICK S : S = {i \in 0 .. n : g[i] \in SUBSET P}
  OBVIOUS
<1>11. 0 .. n \subseteq S
  <2>1. 0 \in S
    BY <1>1, <1>9, <1>10
  <2>2. ASSUME NEW i \in 1 .. n, i - 1 \in S PROVE i \in S
    BY <1>1, <1>9, <1>10, <2>2
  <2> QED
    BY <1>1, <2>1, <2>2, Throughout
<1>12. g \in [0 .. n -> SUBSET P]
  BY <1>7, <1>10, <1>11
<1> QED
  BY <1>8, <1>9, <1>12 DEF Grows

\* Propositions that do not conflict and need no other.
StandTogether(accepted) ==
    /\ \A p, q \in accepted : p # q => ~Conflict(p, q)
    /\ \A p \in accepted : p.requires \subseteq Ids(accepted)

\* Nothing that remains can be added.
Settled(remaining, accepted) == \A p \in remaining : p \in accepted \/ ~Acceptable(p, accepted)

LEMMA OneMore ==
    ASSUME NEW accepted, NEW p, StandTogether(accepted), Acceptable(p, accepted)
    PROVE  StandTogether(accepted \cup {p})
<1>1. PICK larger : larger = accepted \cup {p}
  OBVIOUS
<1>2. Ids(accepted) \subseteq Ids(larger)
  BY <1>1 DEF Ids
<1>3. \A q, r \in larger : q # r => ~Conflict(q, r)
  BY <1>1 DEF StandTogether, Acceptable, Conflict
<1>4. \A q \in larger : q.requires \subseteq Ids(larger)
  BY <1>1, <1>2 DEF StandTogether, Acceptable
<1> QED
  BY <1>1, <1>3, <1>4 DEF StandTogether

\* A round adds some of what remains, and what it accepts stands together.  It adds
\* nothing just when nothing can be added.
LEMMA RoundAdds ==
    ASSUME NEW P, NEW order \in Seq(P), NEW remaining \in SUBSET P, NEW accepted \in SUBSET P,
           NEW after, after = Accepting(order, remaining, accepted), StandTogether(accepted)
    PROVE  /\ accepted \subseteq after /\ after \subseteq accepted \cup remaining /\ StandTogether(after)
           /\ Settled(remaining, accepted) => after = accepted
           /\ (\A p \in remaining : \E i \in DOMAIN order : order[i] = p) /\ after = accepted
                 => Settled(remaining, accepted)
<1>1. PICK n \in Nat : n = Len(order)
  OBVIOUS
<1>2. PICK f \in [0 .. n -> SUBSET P] : Grows(f, order, remaining, accepted) /\ after = f[n]
  BY <1>1, RoundGrows
<1>3. f[0] = accepted
  BY <1>2 DEF Grows
<1>4. ASSUME NEW i \in 1 .. n
      PROVE  /\ \A p : p \in f[i] <=> p \in f[i - 1] \/ (p = order[i] /\ p \in remaining /\ Acceptable(p, f[i - 1]))
             /\ f[i] = f[i - 1] \/ (/\ order[i] \in remaining /\ Acceptable(order[i], f[i - 1])
                                    /\ f[i] = f[i - 1] \cup {order[i]})
  <2>1. f[i] = f[i - 1] \cup {p \in {order[i]} \cap remaining : Acceptable(p, f[i - 1])}
    BY <1>1, <1>2 DEF Grows
  <2>2. \A p : p \in f[i] <=> p \in f[i - 1] \/ (p = order[i] /\ p \in remaining /\ Acceptable(p, f[i - 1]))
    BY <2>1
  <2>3. CASE order[i] \in remaining /\ Acceptable(order[i], f[i - 1])
    BY <2>1, <2>2, <2>3
  <2>4. CASE ~(order[i] \in remaining /\ Acceptable(order[i], f[i - 1]))
    BY <2>1, <2>2, <2>4
  <2> QED
    BY <2>2, <2>3, <2>4
<1>5. PICK S : S = {i \in 0 .. n : /\ accepted \subseteq f[i] /\ f[i] \subseteq accepted \cup remaining
                                   /\ StandTogether(f[i])
                                   /\ Settled(remaining, accepted) => f[i] = accepted}
  OBVIOUS
<1>6. 0 .. n \subseteq S
  <2>1. 0 \in S
    BY <1>3, <1>5
  <2>2. ASSUME NEW i \in 1 .. n, i - 1 \in S PROVE i \in S
    <3>1. PICK b : b = f[i - 1]
      OBVIOUS
    <3>2. accepted \subseteq b /\ b \subseteq accepted \cup remaining /\ StandTogether(b)
      BY <1>5, <2>2, <3>1
    <3>3. StandTogether(f[i])
      BY <1>4, <3>1, <3>2, OneMore
    <3>4. accepted \subseteq f[i] /\ f[i] \subseteq accepted \cup remaining
      BY <1>4, <3>1, <3>2
    <3>5. ASSUME Settled(remaining, accepted) PROVE f[i] = accepted
      <4>1. b = accepted
        BY <1>5, <2>2, <3>1, <3>5
      <4>2. ASSUME NEW p \in remaining, Acceptable(p, accepted) PROVE p \in accepted
        BY <3>5, <4>2 DEF Settled
      <4>3. \A p : p \in f[i] <=> p \in b \/ (p = order[i] /\ p \in remaining /\ Acceptable(p, b))
        BY <1>4, <3>1
      <4> QED
        BY <4>1, <4>2, <4>3
    <3>6. i \in 0 .. n
      OBVIOUS
    <3> QED
      BY <1>5, <3>3, <3>4, <3>5, <3>6
  <2> QED
    BY <2>1, <2>2, Throughout
<1>7. n \in S
  BY <1>6
<1>8. ASSUME \A p \in remaining : \E i \in DOMAIN order : order[i] = p, after = accepted
      PROVE  Settled(remaining, accepted)
  <2>1. PICK T : T = {i \in 0 .. n : \A k \in i .. n : f[k] \subseteq accepted}
    OBVIOUS
  <2>2. PICK U : U = {i \in 0 .. n : n - i \in T}
    OBVIOUS
  <2>3. 0 .. n \subseteq U
    <3>1. 0 \in U
      <4>1. \A k \in n .. n : f[k] \subseteq accepted
        BY <1>2, <1>8
      <4> QED
        BY <2>1, <2>2, <4>1
    <3>2. ASSUME NEW i \in 1 .. n, i - 1 \in U PROVE i \in U
      <4>1. PICK k \in 0 .. n : k = n - i
        OBVIOUS
      <4>2. k + 1 \in T
        BY <2>2, <3>2, <4>1
      <4>3. k + 1 \in 1 .. n /\ (k + 1) - 1 = k /\ f[k + 1] \subseteq accepted
        BY <2>1, <4>1, <4>2
      <4>4. f[k] \subseteq f[k + 1]
        BY <1>4, <4>3
      <4>5. ASSUME NEW j \in k .. n PROVE f[j] \subseteq accepted
        <5>1. j = k \/ j \in (k + 1) .. n
          OBVIOUS
        <5> QED
          BY <2>1, <4>2, <4>3, <4>4, <5>1
      <4> QED
        BY <2>1, <2>2, <4>1, <4>5
    <3> QED
      BY <3>1, <3>2, Throughout
  <2>4. ASSUME NEW i \in 0 .. n PROVE f[i] = accepted
    <3>1. n \in U
      BY <2>3
    <3>2. f[i] \subseteq accepted
      BY <2>1, <2>2, <3>1
    <3> QED
      BY <1>5, <1>6, <3>2
  <2>5. ASSUME NEW p \in remaining, Acceptable(p, accepted) PROVE p \in accepted
    <3>1. PICK i \in 1 .. n : order[i] = p
      BY <1>1, <1>8
    <3>2. i \in 0 .. n /\ i - 1 \in 0 .. n
      OBVIOUS
    <3>3. f[i] = accepted /\ f[i - 1] = accepted
      BY <2>4, <3>2
    <3> QED
      BY <1>4, <2>5, <3>1, <3>3
  <2> QED
    BY <2>5 DEF Settled
<1> QED
  BY <1>2, <1>5, <1>7, <1>8

\* The states of the loop over the rounds.
Goes(f, props) ==
    /\ f[0] = [accepted |-> {}, remaining |-> props]
    /\ \A k \in 1 .. (Cardinality(props) + 1) : f[k] = Round(Ordered(props), f[k - 1])

\* The propositions are put in order.
LEMMA InOrder ==
    ASSUME NEW props, IsFiniteSet(props), \A p \in props : p.id \in Nat
    PROVE  Ordered(props) \in SetToSeqs(props)
<1>1. PICK key : key = [p \in props |-> p.id]
  OBVIOUS
<1>2. key \in [props -> Nat]
  BY <1>1
<1>3. PICK s \in SetToSeqs(props) : \A i, j \in DOMAIN s : i < j => key[s[i]] <= key[s[j]]
  BY <1>2, Sortable
<1>4. ASSUME NEW i \in DOMAIN s PROVE s[i] \in props
  BY Listed
<1>5. \A i, j \in DOMAIN s : i < j => s[i].id <= s[j].id
  BY <1>1, <1>3, <1>4
<1> QED
  BY <1>5 DEF Ordered

\* The rounds are computed one after another.
LEMMA RoundsGo ==
    ASSUME NEW props, IsFiniteSet(props), \A p \in props : p.id \in Nat
    PROVE  \E f : Goes(f, props) /\ Rounds(props) = f[Cardinality(props) + 1]
<1>1. PICK n \in Nat : n = Cardinality(props) + 1
  BY FS_CardinalityType
<1>2. PICK order \in Seq(props) : order = Ordered(props)
  BY InOrder, Listed
<1> DEFINE Go(f) == [k \in 0 .. n |-> IF k = 0 THEN [accepted |-> {}, remaining |-> props]
                                      ELSE Round(order, f[k - 1])]
           g == CHOOSE f : f = Go(f)
<1>3. PICK X : X = [accepted : SUBSET props, remaining : SUBSET props]
  OBVIOUS
<1>4. ASSUME NEW s \in X PROVE Round(order, s) \in X
  <2>1. PICK after : after = Accepting(order, s.remaining, s.accepted)
    OBVIOUS
  <2>2. after \in SUBSET props
    <3>1. s.remaining \in SUBSET props /\ s.accepted \in SUBSET props
      BY <1>3
    <3>2. PICK f \in [0 .. Len(order) -> SUBSET props] : after = f[Len(order)]
      BY <2>1, <3>1, RoundGrows
    <3> QED
      BY <3>2
  <2>3. PICK left : left = {p \in s.remaining : p.id \notin Ids(after)}
    OBVIOUS
  <2>4. left \in SUBSET props
    BY <1>3, <2>3
  <2> QED
    BY <1>3, <2>1, <2>2, <2>3, <2>4 DEF Round
<1>5. PICK first : first = [accepted |-> {}, remaining |-> props]
  OBVIOUS
<1>6. first \in X
  BY <1>3, <1>5
<1>7. PICK step : step = [k \in 1 .. n |-> [s \in X |-> Round(order, s)]]
  OBVIOUS
<1>8. step \in [1 .. n -> [X -> X]]
  BY <1>4, <1>7
<1>9. PICK f : Computes(f, n, X, first, step)
  BY <1>6, <1>8, Iterates
<1>10. f = Go(f)
  <2>1. f[0] = first /\ f \in [0 .. n -> X]
    BY <1>9 DEF Computes
  <2>2. ASSUME NEW k \in 1 .. n PROVE f[k] = Round(order, f[k - 1])
    <3>1. f[k - 1] \in X
      BY <2>1
    <3> QED
      BY <1>7, <1>9, <3>1 DEF Computes
  <2> QED
    BY <1>5, <2>1, <2>2
<1>11. g = Go(g)
  <2> HIDE DEF Go
  <2> QED
    BY <1>10
<1>12. Rounds(props) = g[Cardinality(props) + 1]
  BY <1>1, <1>2 DEF Rounds
<1> HIDE DEF g
<1>13. Goes(g, props)
  <2>1. PICK h : h = g
    OBVIOUS
  <2>2. h = Go(h)
    BY <1>11, <2>1
  <2>3. h[0] = [accepted |-> {}, remaining |-> props]
    BY <2>2
  <2>4. ASSUME NEW k \in 1 .. n PROVE h[k] = Round(order, h[k - 1])
    <3>1. k \in 0 .. n /\ k # 0
      OBVIOUS
    <3> QED
      BY <2>2, <3>1
  <2> QED
    BY <1>1, <1>2, <2>1, <2>3, <2>4 DEF Goes
<1> QED
  BY <1>12, <1>13

\* The loop has settled after as many rounds as there are propositions: until then
\* each one accepts at least one more.
LEMMA SelectSettles ==
    ASSUME NEW props, IsFiniteSet(props), \A p \in props : p.id \in Nat,
           NEW in, in = Select(props).accepted, NEW out, out = Select(props).rejected
    PROVE  /\ in \subseteq props /\ out \subseteq props
           /\ StandTogether(in) /\ Settled(out, in)
           /\ \A p \in out : p.id \notin Ids(in)
           /\ \A p \in props : p \in out \/ p.id \in Ids(in)
<1>1. PICK m \in Nat : m = Cardinality(props)
  BY FS_CardinalityType
<1>2. PICK f : Goes(f, props) /\ Rounds(props) = f[m + 1]
  BY <1>1, RoundsGo
<1>3. PICK order \in Seq(props) : order = Ordered(props) /\ \A p \in props : \E i \in DOMAIN order : order[i] = p
  BY InOrder, Listed
<1>4. in = f[m + 1].accepted /\ out = f[m + 1].remaining
  BY <1>2 DEF Select
<1>5. f[0] = [accepted |-> {}, remaining |-> props]
  BY <1>2 DEF Goes
<1> DEFINE A(k) == f[k].accepted
           R(k) == f[k].remaining
<1>6. ASSUME NEW k \in 1 .. (m + 1)
      PROVE  /\ A(k) = Accepting(order, R(k - 1), A(k - 1))
             /\ \A p : p \in R(k) <=> p \in R(k - 1) /\ p.id \notin Ids(A(k))
  <2>1. f[k] = Round(order, f[k - 1])
    BY <1>1, <1>2, <1>3 DEF Goes
  <2>2. PICK a, r : a = A(k) /\ r = R(k)
    OBVIOUS
  <2>3. a = Accepting(order, R(k - 1), A(k - 1)) /\ r = {p \in R(k - 1) : p.id \notin Ids(a)}
    BY <2>1, <2>2 DEF Round
  <2> QED
    BY <2>2, <2>3
<1>7. PICK S : S = {k \in 0 .. (m + 1) :
                       /\ A(k) \subseteq props /\ R(k) \subseteq props /\ StandTogether(A(k))
                       /\ \A p \in R(k) : p.id \notin Ids(A(k))
                       /\ \A p \in props : p \in R(k) \/ p.id \in Ids(A(k))
                       /\ Settled(R(k), A(k)) \/ Cardinality(A(k)) >= k}
  OBVIOUS
<1>8. 0 .. (m + 1) \subseteq S
  <2>1. 0 \in S
    <3>1. A(0) = {} /\ R(0) = props
      BY <1>5
    <3>2. Cardinality(A(0)) = 0
      BY <3>1, FS_EmptySet
    <3>3. StandTogether(A(0)) /\ Ids(A(0)) = {}
      BY <3>1 DEF StandTogether, Ids
    <3>4. 0 \in 0 .. (m + 1)
      OBVIOUS
    <3> HIDE DEF A, R
    <3> QED
      BY <1>7, <3>1, <3>2, <3>3, <3>4
  <2>2. ASSUME NEW k \in 1 .. (m + 1), k - 1 \in S PROVE k \in S
    <3>1. PICK a, r, b, s : a = A(k - 1) /\ r = R(k - 1) /\ b = A(k) /\ s = R(k)
      OBVIOUS
    <3> HIDE DEF A, R
    <3>2. /\ a \subseteq props /\ r \subseteq props /\ StandTogether(a)
          /\ \A p \in props : p \in r \/ p.id \in Ids(a)
          /\ Settled(r, a) \/ Cardinality(a) >= k - 1
      BY <1>7, <2>2, <3>1
    <3>3. b = Accepting(order, r, a) /\ \A p : p \in s <=> p \in r /\ p.id \notin Ids(b)
      BY <1>6, <3>1
    <3>4. /\ a \subseteq b /\ b \subseteq a \cup r /\ StandTogether(b)
          /\ Settled(r, a) => b = a
          /\ b = a => Settled(r, a)
      BY <1>3, <3>2, <3>3, RoundAdds
    <3>5. b \subseteq props /\ s \subseteq props /\ \A p \in s : p.id \notin Ids(b)
      BY <3>2, <3>3, <3>4
    <3>6. \A p \in props : p \in s \/ p.id \in Ids(b)
      <4>1. Ids(a) \subseteq Ids(b)
        BY <3>4 DEF Ids
      <4> QED
        BY <3>2, <3>3, <4>1
    <3>7. Settled(s, b) \/ Cardinality(b) >= k
      <4>1. CASE Settled(r, a)
        BY <3>3, <3>4, <4>1 DEF Settled
      <4>2. CASE ~Settled(r, a)
        <5>1. IsFiniteSet(a) /\ IsFiniteSet(b) /\ a # b
          BY <3>2, <3>4, <3>5, <4>2, FS_Subset
        <5>2. Cardinality(a) < Cardinality(b)
          BY <3>4, <5>1, FS_Subset, FS_CardinalityType
        <5>3. Cardinality(a) \in Nat /\ Cardinality(b) \in Nat
          BY <5>1, FS_CardinalityType
        <5> QED
          BY <3>2, <4>2, <5>2, <5>3
      <4> QED
        BY <4>1, <4>2
    <3>8. k \in 0 .. (m + 1)
      OBVIOUS
    <3> QED
      BY <1>7, <3>1, <3>4, <3>5, <3>6, <3>7, <3>8
  <2>3. m + 1 \in Nat
    OBVIOUS
  <2> QED
    BY <2>1, <2>2, <2>3, Throughout
<1>9. m + 1 \in S
  BY <1>8
<1>10. /\ in \subseteq props /\ out \subseteq props /\ StandTogether(in)
       /\ \A p \in out : p.id \notin Ids(in)
       /\ \A p \in props : p \in out \/ p.id \in Ids(in)
       /\ Settled(out, in) \/ Cardinality(in) >= m + 1
  BY <1>4, <1>7, <1>9
<1>11. Cardinality(in) \in Nat /\ Cardinality(in) <= m
  BY <1>1, <1>10, FS_Subset, FS_CardinalityType
<1> QED
  BY <1>10, <1>11

-----------------------------------------------------------------------------
(* What the term of a dossier evaluates to.                                 *)

TermStates == {"OBSERVED", "CONSISTENT", "REPRODUCED", "VERIFIED", "INCOMPLETE", "DIVERGENT"}
Low == {"INCOMPLETE", "DIVERGENT"}

\* The join is the worse of two states.
LEMMA Joined ==
    ASSUME NEW s \in TermStates, NEW t \in TermStates, NEW j, j = JoinState(s, t)
    PROVE  /\ j \in {s, t} /\ StateRank[s] <= StateRank[j] /\ StateRank[t] <= StateRank[j]
           /\ j \in Low <=> s \in Low \/ t \in Low
           /\ j = "DIVERGENT" <=> s = "DIVERGENT" \/ t = "DIVERGENT"
<1>1. \A x \in TermStates : StateRank[x] \in 0 .. 5 /\ (StateRank[x] >= 4 <=> x \in Low)
                            /\ (StateRank[x] >= 5 <=> x = "DIVERGENT")
  BY DEF TermStates, StateRank, Low
<1>2. j \in {s, t} /\ StateRank[s] <= StateRank[j] /\ StateRank[t] <= StateRank[j]
  BY <1>1 DEF JoinState
<1>3. j \in TermStates
  BY <1>2
<1> QED
  BY <1>1, <1>2, <1>3

\* The verifications of a dossier that is built from the pools.
Formed(d) ==
    /\ IsFiniteSet(d.observations) /\ IsFiniteSet(d.verification)
    /\ d.verification \in SUBSET Verifications
    /\ d.replay \in Replays \cup {NoReplay}

LEMMA FirstCounts ==
    ASSUME NEW d, Formed(d), NEW w \in d.verification
    PROVE  /\ First(d, w.predicate) \in d.verification /\ First(d, w.predicate).predicate = w.predicate
           /\ First(d, w.predicate).state \in TermStates
<1> DEFINE S == {v.id : v \in {x \in d.verification : x.predicate = w.predicate}}
<1>1. S \subseteq Nat /\ S # {}
  BY DossierAssumption DEF Formed
<1>2. PICK m \in S : \A k \in S : ~(k < m)
  <2>1. IsWellFoundedOn(OpToRel(<, Nat), Nat)
    BY NatLessThanWellFounded
  <2> HIDE DEF S
  <2>2. PICK m \in S : \A k \in S : <<k, m>> \notin OpToRel(<, Nat)
    BY <1>1, <2>1, WFMin
  <2>3. ASSUME NEW k \in S, k < m PROVE FALSE
    <3>1. k \in Nat /\ m \in Nat
      BY <1>1
    <3> QED
      BY <2>2, <2>3, <3>1 DEF OpToRel
  <2> QED
    BY <2>3
<1>3. \A k \in S : m <= k
  <2> HIDE DEF S
  <2>1. ASSUME NEW k \in S PROVE m <= k
    <3>1. k \in Nat /\ m \in Nat /\ ~(k < m)
      BY <1>1, <1>2
    <3> QED
      BY <3>1
  <2> QED
    BY <2>1
<1>4. PICK v \in d.verification : v.predicate = w.predicate /\ v.id = m
  OBVIOUS
<1>5. \A x \in d.verification : x.predicate = w.predicate => v.id <= x.id
  BY <1>3, <1>4
<1>6. First(d, w.predicate) \in d.verification /\ First(d, w.predicate).predicate = w.predicate
  BY <1>4, <1>5 DEF First
<1> QED
  BY <1>6, DossierAssumption DEF Formed, TermStates

\* The rules of a term: what was seen, then the checks, then the replay.
Shaped(d, term, a, b, checked) ==
    /\ a \in Nat \ {0} /\ b \in Nat /\ checked \in [1 .. b -> d.verification]
    /\ \A v \in d.verification : \E j \in 1 .. b : checked[j] = v
    /\ Len(term) = a + b + (IF Compared(d) THEN 1 ELSE 0)
    /\ term[1][1] = "OBS"
    /\ \A i \in 1 .. a : /\ term[i][1] \in {"OBS", "COMP"}
                         /\ Read(d, term[i][2]) = IF d.observations = {} THEN "INCOMPLETE" ELSE "OBSERVED"
    /\ \A j \in 1 .. b : term[a + j] = <<"CHK", checked[j].predicate>>
    /\ Compared(d) => term[a + b + 1] = <<"REP", d.replay.expected, d.replay.observed>>

\* Three sequences one after another.
Follows(s, p, q, r) ==
    /\ Len(s) = Len(p) + Len(q) + Len(r)
    /\ \A i \in 1 .. Len(p) : s[i] = p[i]
    /\ \A j \in 1 .. Len(q) : s[Len(p) + j] = q[j]
    /\ \A k \in 1 .. Len(r) : s[Len(p) + Len(q) + k] = r[k]

LEMMA TwoParts ==
    ASSUME NEW X, NEW p \in Seq(X), NEW q \in Seq(X), NEW s, s = p \o q
    PROVE  /\ s \in Seq(X) /\ Len(s) = Len(p) + Len(q)
           /\ \A i \in 1 .. Len(p) : s[i] = p[i]
           /\ \A j \in 1 .. Len(q) : s[Len(p) + j] = q[j]
<1>1. PICK a \in Nat, b \in Nat : a = Len(p) /\ b = Len(q)
  OBVIOUS
<1>2. s \in Seq(X) /\ Len(s) = a + b /\ \A i \in 1 .. (a + b) : s[i] = IF i <= a THEN p[i] ELSE q[i - a]
  BY <1>1, ConcatProperties
<1>3. ASSUME NEW i \in 1 .. a PROVE s[i] = p[i]
  <2>1. i \in 1 .. (a + b) /\ i <= a
    OBVIOUS
  <2> QED
    BY <1>2, <2>1
<1>4. ASSUME NEW j \in 1 .. b PROVE s[a + j] = q[j]
  <2>1. a + j \in 1 .. (a + b) /\ ~(a + j <= a) /\ (a + j) - a = j
    OBVIOUS
  <2> QED
    BY <1>2, <2>1
<1> QED
  BY <1>1, <1>2, <1>3, <1>4

LEMMA ThreeParts ==
    ASSUME NEW X, NEW p \in Seq(X), NEW q \in Seq(X), NEW r \in Seq(X), NEW s, s = (p \o q) \o r
    PROVE  Follows(s, p, q, r)
<1>1. PICK a \in Nat, b \in Nat, c \in Nat : a = Len(p) /\ b = Len(q) /\ c = Len(r)
  OBVIOUS
<1>2. PICK t : t = p \o q
  OBVIOUS
<1>3. /\ t \in Seq(X) /\ Len(t) = a + b
      /\ \A i \in 1 .. a : t[i] = p[i]
      /\ \A j \in 1 .. b : t[a + j] = q[j]
  BY <1>1, <1>2, TwoParts
<1>4. /\ Len(s) = (a + b) + c
      /\ \A i \in 1 .. (a + b) : s[i] = t[i]
      /\ \A k \in 1 .. c : s[(a + b) + k] = r[k]
  BY <1>1, <1>2, <1>3, TwoParts
<1>5. ASSUME NEW i \in 1 .. a PROVE s[i] = p[i]
  <2>1. i \in 1 .. (a + b)
    OBVIOUS
  <2> QED
    BY <1>3, <1>4, <2>1
<1>6. ASSUME NEW j \in 1 .. b PROVE s[a + j] = q[j]
  <2>1. a + j \in 1 .. (a + b)
    OBVIOUS
  <2> QED
    BY <1>3, <1>4, <2>1
<1> QED
  BY <1>1, <1>4, <1>5, <1>6 DEF Follows

LEMMA TermShaped ==
    ASSUME NEW d, Formed(d)
    PROVE  \E a, b, checked : Shaped(d, RealityTerm(d), a, b, checked)
<1>1. PICK seen : seen = SetToSeq(d.observations)
  OBVIOUS
<1>2. PICK checked : checked = ByPredicate(d)
  OBVIOUS
<1>3. PICK m \in Nat : m = Cardinality(d.observations)
  BY FS_CardinalityType DEF Formed
<1>4. PICK b \in Nat : b = Cardinality(d.verification)
  BY FS_CardinalityType DEF Formed
<1>5. seen \in [1 .. m -> d.observations]
  <2>1. \E f \in [1 .. m -> d.observations] : IsInjective(f)
    <3>1. PICK f : f \in Bijection(1 .. m, d.observations)
      BY <1>3, FS_NatBijection, FS_CountingElements DEF Formed, ExistsBijection
    <3> QED
      BY <3>1 DEF Bijection, Injection, IsInjective
  <2> QED
    BY <1>1, <1>3, <2>1 DEF SetToSeq
<1>6. checked \in SetToSeqs(d.verification)
  <2>1. PICK key : key = [v \in d.verification |-> v.predicate]
    OBVIOUS
  <2>2. key \in [d.verification -> Nat]
    BY <2>1, DossierAssumption DEF Formed
  <2>3. PICK s \in SetToSeqs(d.verification) : \A i, j \in DOMAIN s : i < j => key[s[i]] <= key[s[j]]
    BY <2>2, Sortable DEF Formed
  <2>4. ASSUME NEW i \in DOMAIN s PROVE s[i] \in d.verification
    BY Listed DEF Formed
  <2>5. \A i, j \in DOMAIN s : i < j => s[i].predicate <= s[j].predicate
    BY <2>1, <2>3, <2>4
  <2> QED
    BY <1>2, <2>5 DEF ByPredicate
<1>7. /\ checked \in [1 .. b -> d.verification]
      /\ \A v \in d.verification : \E j \in 1 .. b : checked[j] = v
  BY <1>4, <1>6, Listed DEF Formed, SetToSeqs
<1>8. PICK a \in Nat : a = IF m = 0 THEN 1 ELSE m
  OBVIOUS
<1>9. PICK p : p = IF seen = <<>> THEN <<<<"OBS", "missing">>>>
                   ELSE [i \in DOMAIN seen |-> <<IF i = 1 THEN "OBS" ELSE "COMP", seen[i]>>]
  OBVIOUS
<1>10. PICK q : q = [j \in DOMAIN checked |-> <<"CHK", checked[j].predicate>>]
  OBVIOUS
<1>11. PICK r : r = IF Compared(d) THEN <<<<"REP", d.replay.expected, d.replay.observed>>>> ELSE <<>>
  OBVIOUS
<1>12. PICK c \in Nat : c = IF Compared(d) THEN 1 ELSE 0
  OBVIOUS
<1>13. PICK term : term = RealityTerm(d)
  OBVIOUS
<1>14. term = p \o q \o r
  BY <1>1, <1>2, <1>9, <1>10, <1>11, <1>13 DEF RealityTerm
<1>15. PICK X : X = {p[i] : i \in 1 .. a} \cup {q[j] : j \in 1 .. b} \cup {r[k] : k \in 1 .. c}
  OBVIOUS
<1>16. /\ p \in [1 .. a -> X] /\ p[1][1] = "OBS"
       /\ \A i \in 1 .. a : /\ p[i][1] \in {"OBS", "COMP"}
                            /\ Read(d, p[i][2]) = IF d.observations = {} THEN "INCOMPLETE" ELSE "OBSERVED"
  <2>1. CASE m = 0
    <3>1. d.observations = {}
      BY <1>3, <2>1, FS_EmptySet DEF Formed
    <3>2. seen = <<>>
      BY <1>5, <2>1
    <3>3. a = 1 /\ p = <<<<"OBS", "missing">>>>
      BY <1>8, <1>9, <2>1, <3>2
    <3>4. p \in [1 .. a -> X]
      BY <1>15, <3>3
    <3> QED
      BY <3>1, <3>3, <3>4 DEF Read
  <2>2. CASE m # 0
    <3>1. a = m /\ 1 \in 1 .. m
      BY <1>8, <2>2
    <3>2. seen # <<>> /\ DOMAIN seen = 1 .. m
      BY <1>5, <3>1
    <3>3. p = [i \in 1 .. m |-> <<IF i = 1 THEN "OBS" ELSE "COMP", seen[i]>>]
      BY <1>9, <3>2
    <3>4. p \in [1 .. a -> X]
      BY <1>15, <3>1, <3>3
    <3>5. d.observations # {}
      BY <1>5, <3>1
    <3>6. ASSUME NEW i \in 1 .. a
          PROVE  p[i][1] \in {"OBS", "COMP"} /\ p[i][2] \in d.observations
      <4>1. p[i] = <<IF i = 1 THEN "OBS" ELSE "COMP", seen[i]>> /\ seen[i] \in d.observations
        BY <1>5, <3>1, <3>3
      <4> QED
        BY <4>1
    <3>7. p[1] = <<"OBS", seen[1]>>
      BY <3>1, <3>3
    <3> QED
      BY <3>4, <3>5, <3>6, <3>7 DEF Read
  <2> QED
    BY <2>1, <2>2
<1>17. q \in [1 .. b -> X] /\ \A j \in 1 .. b : q[j] = <<"CHK", checked[j].predicate>>
  <2>1. DOMAIN checked = 1 .. b
    BY <1>7
  <2> QED
    BY <1>10, <1>15, <2>1
<1>18. /\ r \in [1 .. c -> X]
       /\ Compared(d) => c = 1 /\ r[1] = <<"REP", d.replay.expected, d.replay.observed>>
  <2>1. CASE Compared(d)
    <3>1. c = 1 /\ r = <<<<"REP", d.replay.expected, d.replay.observed>>>>
      BY <1>11, <1>12, <2>1
    <3> QED
      BY <1>15, <3>1
  <2>2. CASE ~Compared(d)
    <3>1. c = 0 /\ r = <<>>
      BY <1>11, <1>12, <2>2
    <3> QED
      BY <2>2, <3>1
  <2> QED
    BY <2>1, <2>2
<1>19. /\ p \in Seq(X) /\ Len(p) = a /\ q \in Seq(X) /\ Len(q) = b /\ r \in Seq(X) /\ Len(r) = c
  BY <1>16, <1>17, <1>18
<1>20. /\ Len(term) = a + b + c
       /\ \A i \in 1 .. a : term[i] = p[i]
       /\ \A j \in 1 .. b : term[a + j] = q[j]
       /\ \A k \in 1 .. c : term[a + b + k] = r[k]
  <2>1. Follows(term, p, q, r)
    BY <1>14, <1>19, ThreeParts
  <2> QED
    BY <1>19, <2>1 DEF Follows
<1>21. a # 0
  BY <1>8
<1>22. term[1][1] = "OBS"
  BY <1>16, <1>20, <1>21
<1>23. Compared(d) => term[a + b + 1] = <<"REP", d.replay.expected, d.replay.observed>>
  BY <1>18, <1>20
<1>24. Len(term) = a + b + (IF Compared(d) THEN 1 ELSE 0)
  BY <1>12, <1>20
<1>25. \A i \in 1 .. a : /\ term[i][1] \in {"OBS", "COMP"}
                         /\ Read(d, term[i][2]) = IF d.observations = {} THEN "INCOMPLETE" ELSE "OBSERVED"
  BY <1>16, <1>20
<1>26. \A j \in 1 .. b : term[a + j] = <<"CHK", checked[j].predicate>>
  BY <1>17, <1>20
<1>27. Shaped(d, term, a, b, checked)
  BY <1>7, <1>21, <1>22, <1>23, <1>24, <1>25, <1>26 DEF Shaped
<1> QED
  BY <1>13, <1>27

\* What each rule of the term concludes.
\* What each rule of a term makes of a state.
ConcludesFrom(d, term, a, b, checked, s, seen) ==
    /\ \A i \in 1 .. a : Conclude(d, term[i], s) = IF term[i][1] = "OBS" THEN seen ELSE JoinState(s, seen)
    /\ \A j \in 1 .. b : Conclude(d, term[a + j], s)
                         = IF s \in Low THEN s ELSE JoinState(s, First(d, checked[j].predicate).state)
    /\ Compared(d) => Conclude(d, term[a + b + 1], s)
           = JoinState(s, IF d.replay.expected = d.replay.observed THEN "REPRODUCED" ELSE "DIVERGENT")

LEMMA Concluded ==
    ASSUME NEW d, Formed(d), NEW term, NEW a, NEW b, NEW checked, Shaped(d, term, a, b, checked),
           NEW s \in TermStates, NEW seen, seen = IF d.observations = {} THEN "INCOMPLETE" ELSE "OBSERVED"
    PROVE  ConcludesFrom(d, term, a, b, checked, s, seen)
<1>1. ASSUME NEW i \in 1 .. a
      PROVE  Conclude(d, term[i], s) = IF term[i][1] = "OBS" THEN seen ELSE JoinState(s, seen)
  <2>1. PICK rule : rule = term[i]
    OBVIOUS
  <2>2. rule[1] \in {"OBS", "COMP"} /\ Read(d, rule[2]) = seen
    BY <2>1 DEF Shaped
  <2>3. Conclude(d, rule, s) = IF rule[1] = "OBS" THEN seen ELSE JoinState(s, seen)
    BY <2>2 DEF Conclude
  <2> QED
    BY <2>1, <2>3
<1>2. ASSUME NEW j \in 1 .. b
      PROVE  Conclude(d, term[a + j], s)
             = IF s \in Low THEN s ELSE JoinState(s, First(d, checked[j].predicate).state)
  <2>1. PICK v \in d.verification : v = checked[j]
    BY DEF Shaped
  <2>2. PICK rule : rule = term[a + j]
    OBVIOUS
  <2>3. rule = <<"CHK", v.predicate>>
    BY <2>1, <2>2 DEF Shaped
  <2>4. rule[1] = "CHK" /\ rule[2] = v.predicate
    BY <2>3
  <2>5. \E w \in d.verification : w.predicate = rule[2]
    BY <2>4
  <2>6. Conclude(d, rule, s) = IF s \in Low THEN s ELSE JoinState(s, First(d, rule[2]).state)
    BY <2>4, <2>5 DEF Conclude, Low
  <2> QED
    BY <2>1, <2>2, <2>4, <2>6
<1>3. ASSUME Compared(d)
      PROVE  Conclude(d, term[a + b + 1], s)
             = JoinState(s, IF d.replay.expected = d.replay.observed THEN "REPRODUCED" ELSE "DIVERGENT")
  <2>1. PICK rule : rule = term[a + b + 1]
    OBVIOUS
  <2>2. rule = <<"REP", d.replay.expected, d.replay.observed>>
    BY <1>3, <2>1 DEF Shaped
  <2>3. rule[1] = "REP" /\ rule[2] = d.replay.expected /\ rule[3] = d.replay.observed
    BY <2>2
  <2>4. Conclude(d, rule, s) = JoinState(s, IF rule[2] = rule[3] THEN "REPRODUCED" ELSE "DIVERGENT")
    BY <2>3 DEF Conclude
  <2> QED
    BY <2>1, <2>3, <2>4
<1> QED
  BY <1>1, <1>2, <1>3 DEF ConcludesFrom

\* The states that the rules of a term conclude, one after another.
Infers(f, d, term) ==
    /\ f[0] = "OBSERVED"
    /\ \A i \in 1 .. Len(term) : f[i] = Conclude(d, term[i], f[i - 1])

LEMMA TermInfers ==
    ASSUME NEW d, Formed(d), NEW term, NEW a, NEW b, NEW checked, Shaped(d, term, a, b, checked)
    PROVE  \E f \in [0 .. Len(term) -> TermStates] : Infers(f, d, term) /\ Evaluate(d, term) = f[Len(term)]
<1>1. PICK n \in Nat : n = Len(term)
  BY DEF Shaped
<1> DEFINE Go(f) == [i \in 0 .. Len(term) |-> IF i = 0 THEN "OBSERVED" ELSE Conclude(d, term[i], f[i - 1])]
           g == CHOOSE f : f = Go(f)
<1>2. ASSUME NEW i \in 1 .. n, NEW s \in TermStates PROVE Conclude(d, term[i], s) \in TermStates
  <2>1. PICK seen \in TermStates : seen = IF d.observations = {} THEN "INCOMPLETE" ELSE "OBSERVED"
    BY DEF TermStates
  <2>1a. ConcludesFrom(d, term, a, b, checked, s, seen)
    BY <2>1, Concluded
  <2>2. a \in Nat /\ b \in Nat
    BY DEF Shaped
  <2>3. CASE i <= a
    <3>1. i \in 1 .. a
      BY <2>2, <2>3
    <3>2. Conclude(d, term[i], s) = IF term[i][1] = "OBS" THEN seen ELSE JoinState(s, seen)
      BY <2>1a, <3>1 DEF ConcludesFrom
    <3> QED
      BY <3>2, Joined
  <2>4. CASE i > a /\ i <= a + b
    <3>1. PICK j \in 1 .. b : i = a + j
      <4>1. i - a \in 1 .. b /\ i = a + (i - a)
        BY <2>2, <2>4
      <4> QED
        BY <4>1
    <3>2. checked[j] \in d.verification
      BY DEF Shaped
    <3>3. First(d, checked[j].predicate).state \in TermStates
      BY <3>2, FirstCounts
    <3>4. Conclude(d, term[i], s) = IF s \in Low THEN s ELSE JoinState(s, First(d, checked[j].predicate).state)
      BY <2>1a, <3>1 DEF ConcludesFrom
    <3> QED
      BY <3>3, <3>4, Joined
  <2>5. CASE i > a + b
    <3>1. Compared(d) /\ i = a + b + 1
      BY <1>1, <2>2, <2>5 DEF Shaped
    <3>2. PICK t \in TermStates : t = IF d.replay.expected = d.replay.observed THEN "REPRODUCED" ELSE "DIVERGENT"
      BY DEF TermStates
    <3>3. Conclude(d, term[i], s) = JoinState(s, t)
      BY <2>1a, <3>1, <3>2 DEF ConcludesFrom
    <3> QED
      BY <3>3, Joined
  <2> QED
    BY <2>2, <2>3, <2>4, <2>5
<1>3. PICK step : step = [i \in 1 .. n |-> [s \in TermStates |-> Conclude(d, term[i], s)]]
  OBVIOUS
<1>4. step \in [1 .. n -> [TermStates -> TermStates]]
  BY <1>2, <1>3
<1>5. "OBSERVED" \in TermStates
  BY DEF TermStates
<1>6. PICK f : Computes(f, n, TermStates, "OBSERVED", step)
  BY <1>4, <1>5, Iterates
<1>7. f[0] = "OBSERVED" /\ f \in [0 .. n -> TermStates]
  BY <1>6 DEF Computes
<1>8. f = Go(f)
  <2>1. ASSUME NEW i \in 1 .. n PROVE f[i] = Conclude(d, term[i], f[i - 1])
    <3>1. f[i - 1] \in TermStates
      BY <1>7
    <3> QED
      BY <1>3, <1>6, <3>1 DEF Computes
  <2> QED
    BY <1>1, <1>7, <2>1
<1>9. g = Go(g)
  <2> HIDE DEF Go
  <2> QED
    BY <1>8
<1>10. Evaluate(d, term) = g[Len(term)]
  BY DEF Evaluate
<1> HIDE DEF g
<1>11. PICK h : h = g
  OBVIOUS
<1>12. h = Go(h)
  BY <1>9, <1>11
<1>13. h[0] = "OBSERVED"
  BY <1>1, <1>12
<1>14. ASSUME NEW i \in 1 .. n PROVE h[i] = Conclude(d, term[i], h[i - 1])
  <2>1. i \in 0 .. n /\ i # 0
    OBVIOUS
  <2> QED
    BY <1>1, <1>12, <2>1
<1>15. PICK S : S = {i \in 0 .. n : h[i] \in TermStates}
  OBVIOUS
<1>16. 0 .. n \subseteq S
  <2>1. 0 \in S
    BY <1>5, <1>13, <1>15
  <2>2. ASSUME NEW i \in 1 .. n, i - 1 \in S PROVE i \in S
    BY <1>2, <1>14, <1>15, <2>2
  <2> QED
    BY <2>1, <2>2, Throughout
<1>17. h \in [0 .. n -> TermStates]
  BY <1>1, <1>12, <1>15, <1>16
<1> QED
  BY <1>1, <1>10, <1>11, <1>13, <1>14, <1>17 DEF Infers

\* The states of the verifications that count: the first one of each predicate.
Counting(d) == {First(d, v.predicate).state : v \in d.verification}

\* The digests of the replay are there and differ.
Differs(d) == Compared(d) /\ d.replay.expected # d.replay.observed

\* The rank of a term's state is that of the best verification, or of the replay.
RankEarned(d, e) ==
    e = "OBSERVED" \/ e \in Counting(d) \/ (e = "REPRODUCED" /\ Compared(d) /\ "VERIFIED" \notin Counting(d))

\* What the state of the term says of what was seen, checked and replayed.
Judges(d, e) ==
    /\ e \in TermStates
    /\ e \notin Low => d.observations # {}
    /\ e \notin Low => Counting(d) \cap Low = {}
    /\ e \notin Low => RankEarned(d, e)
    /\ e = "DIVERGENT" => "DIVERGENT" \in Counting(d) \/ Differs(d)
    /\ Differs(d) => e = "DIVERGENT"

LEMMA TermVerdict ==
    ASSUME NEW d, Formed(d), NEW e, e = Evaluate(d, RealityTerm(d))
    PROVE  Judges(d, e)
<1>1. PICK term, a, b, checked : term = RealityTerm(d) /\ Shaped(d, term, a, b, checked)
  BY TermShaped
<1>2. PICK n \in Nat : n = Len(term)
  BY <1>1 DEF Shaped
<1>3. PICK f \in [0 .. n -> TermStates] : Infers(f, d, term) /\ e = f[n]
  BY <1>1, <1>2, TermInfers
<1>4. PICK seen \in TermStates : seen = IF d.observations = {} THEN "INCOMPLETE" ELSE "OBSERVED"
  BY DEF TermStates
<1>5. PICK st : st = [j \in 1 .. b |-> First(d, checked[j].predicate).state]
  OBVIOUS
<1>6. st \in [1 .. b -> TermStates]
  <2>1. ASSUME NEW j \in 1 .. b PROVE First(d, checked[j].predicate).state \in TermStates
    <3>1. checked[j] \in d.verification
      BY <1>1 DEF Shaped
    <3> QED
      BY <3>1, FirstCounts
  <2> QED
    BY <1>5, <2>1
<1>7. \A s : s \in Counting(d) <=> \E j \in 1 .. b : s = st[j]
  <2>1. ASSUME NEW v \in d.verification PROVE \E j \in 1 .. b : First(d, v.predicate).state = st[j]
    <3>1. PICK j \in 1 .. b : checked[j] = v
      BY <1>1 DEF Shaped
    <3> QED
      BY <1>5, <3>1
  <2>2. ASSUME NEW j \in 1 .. b PROVE st[j] \in Counting(d)
    <3>1. checked[j] \in d.verification /\ st[j] = First(d, checked[j].predicate).state
      BY <1>1, <1>5 DEF Shaped
    <3> QED
      BY <3>1 DEF Counting
  <2> QED
    BY <2>1, <2>2 DEF Counting
<1>8. a \in Nat /\ a # 0 /\ b \in Nat /\ n = a + b + (IF Compared(d) THEN 1 ELSE 0)
  BY <1>1, <1>2 DEF Shaped
<1>8a. ASSUME NEW i \in 1 .. a, NEW s \in TermStates
       PROVE  Conclude(d, term[i], s) = IF term[i][1] = "OBS" THEN seen ELSE JoinState(s, seen)
  <2>1. Shaped(d, term, a, b, checked)
    BY <1>1
  <2>2. ConcludesFrom(d, term, a, b, checked, s, seen)
    BY <1>4, <2>1, Concluded
  <2> QED
    BY <2>2 DEF ConcludesFrom
<1>9. f[a] = seen
  <2>1. PICK S : S = {i \in 0 .. a : i = 0 \/ f[i] = seen}
    OBVIOUS
  <2>2. ASSUME NEW i \in 1 .. a, i - 1 \in S PROVE i \in S
    <3>1. i \in 1 .. n /\ i - 1 \in 0 .. n
      BY <1>8
    <3>2. PICK s \in TermStates : s = f[i - 1] /\ f[i] = Conclude(d, term[i], s)
      BY <1>2, <1>3, <3>1 DEF Infers
    <3>3. f[i] = IF term[i][1] = "OBS" THEN seen ELSE JoinState(s, seen)
      BY <1>8a, <3>2
    <3>4. CASE i = 1
      BY <1>1, <2>1, <3>3, <3>4 DEF Shaped
    <3>5. CASE i # 1
      <4>1. s = seen
        BY <2>1, <2>2, <3>2, <3>5
      <4>2. JoinState(seen, seen) = seen
        BY DEF JoinState
      <4> QED
        BY <2>1, <3>3, <4>1, <4>2
    <3> QED
      BY <3>4, <3>5
  <2>3. 0 .. a \subseteq S
    <3>1. 0 \in S
      BY <1>8, <2>1
    <3> QED
      BY <1>8, <2>2, <3>1, Throughout
  <2> QED
    BY <1>8, <2>1, <2>3
<1>9a. ASSUME NEW j \in 1 .. b, NEW s \in TermStates
      PROVE  Conclude(d, term[a + j], s)
             = IF s \in Low THEN s ELSE JoinState(s, First(d, checked[j].predicate).state)
  <2>1. Shaped(d, term, a, b, checked)
    BY <1>1
  <2>2. ConcludesFrom(d, term, a, b, checked, s, seen)
    BY <1>4, <2>1, Concluded
  <2> QED
    BY <2>2 DEF ConcludesFrom
<1>10. PICK g : g = [j \in 0 .. b |-> f[a + j]]
  OBVIOUS
<1>11. /\ g \in [0 .. b -> TermStates] /\ g[0] = seen
       /\ \A j \in 1 .. b : g[j] = IF g[j - 1] \in Low THEN g[j - 1] ELSE JoinState(g[j - 1], st[j])
  <2>1. \A j \in 0 .. b : a + j \in 0 .. n
    BY <1>8
  <2>2. g \in [0 .. b -> TermStates] /\ g[0] = seen
    BY <1>8, <1>9, <1>10, <2>1
  <2>3. ASSUME NEW j \in 1 .. b
        PROVE  g[j] = IF g[j - 1] \in Low THEN g[j - 1] ELSE JoinState(g[j - 1], st[j])
    <3>1. PICK i \in 1 .. n : i = a + j
      BY <1>8
    <3>2. i - 1 \in 0 .. n /\ i - 1 = a + (j - 1) /\ j - 1 \in 0 .. b
      BY <1>8, <3>1
    <3>3. PICK s \in TermStates : s = f[i - 1] /\ f[i] = Conclude(d, term[i], s)
      BY <1>2, <1>3, <3>2 DEF Infers
    <3>4. f[i] = IF s \in Low THEN s ELSE JoinState(s, First(d, checked[j].predicate).state)
      <4>1. Conclude(d, term[a + j], s)
            = IF s \in Low THEN s ELSE JoinState(s, First(d, checked[j].predicate).state)
        BY <3>3, <1>9a
      <4> QED
        BY <3>1, <3>3, <4>1
    <3>5. g[j] = f[i] /\ g[j - 1] = s
      BY <1>10, <3>1, <3>2, <3>3
    <3> QED
      BY <1>5, <3>4, <3>5
  <2> QED
    BY <2>2, <2>3
<1>12. PICK S : S = {j \in 0 .. b :
           /\ g[j] \notin Low => /\ d.observations # {}
                                 /\ \A l \in 1 .. j : st[l] \notin Low /\ StateRank[st[l]] <= StateRank[g[j]]
                                 /\ g[j] = "OBSERVED" \/ \E l \in 1 .. j : g[j] = st[l]
           /\ g[j] = "DIVERGENT" => \E l \in 1 .. j : st[l] = "DIVERGENT"}
  OBVIOUS
<1>13. \A s \in TermStates : StateRank[s] \in Nat
  BY DEF TermStates, StateRank
<1>14. 0 .. b \subseteq S
  <2>1. 0 \in S
    <3>1. seen \notin Low => d.observations # {} /\ seen = "OBSERVED"
      BY <1>4 DEF Low
    <3>2. seen # "DIVERGENT"
      BY <1>4
    <3> QED
      BY <1>8, <1>11, <1>12, <3>1, <3>2
  <2>2. ASSUME NEW j \in 1 .. b, j - 1 \in S PROVE j \in S
    <3>1. PICK s, t, u : s = g[j - 1] /\ t = st[j] /\ u = g[j]
      OBVIOUS
    <3>2. s \in TermStates /\ t \in TermStates /\ u \in TermStates /\ j \in 0 .. b /\ j - 1 \in 0 .. b
      BY <1>6, <1>8, <1>11, <3>1
    <3>3. u = IF s \in Low THEN s ELSE JoinState(s, t)
      BY <1>11, <3>1
    <3>4. /\ s \notin Low => /\ d.observations # {}
                             /\ \A l \in 1 .. (j - 1) : st[l] \notin Low /\ StateRank[st[l]] <= StateRank[s]
                             /\ s = "OBSERVED" \/ \E l \in 1 .. (j - 1) : s = st[l]
          /\ s = "DIVERGENT" => \E l \in 1 .. (j - 1) : st[l] = "DIVERGENT"
      BY <1>12, <2>2, <3>1
    <3>5. \A l \in 1 .. j : l = j \/ l \in 1 .. (j - 1)
      OBVIOUS
    <3>6. \A l \in 1 .. (j - 1) : l \in 1 .. j /\ l \in 1 .. b
      BY <1>8
    <3>6a. ASSUME s \notin Low, NEW l \in 1 .. (j - 1)
           PROVE  st[l] \notin Low /\ StateRank[st[l]] <= StateRank[s]
      BY <3>4, <3>6a
    <3>6b. ASSUME s \notin Low PROVE d.observations # {}
      BY <3>4, <3>6b
    <3>6c. ASSUME s \notin Low PROVE s = "OBSERVED" \/ \E l \in 1 .. j : s = st[l]
      <4>1. s = "OBSERVED" \/ \E l \in 1 .. (j - 1) : s = st[l]
        BY <3>4, <3>6c
      <4> QED
        BY <3>6, <4>1
    <3>7. CASE s \in Low
      BY <1>12, <3>1, <3>2, <3>3, <3>4, <3>6, <3>7
    <3>8. CASE s \notin Low
      <4>1. /\ u \in {s, t} /\ StateRank[s] <= StateRank[u] /\ StateRank[t] <= StateRank[u]
            /\ u \in Low <=> s \in Low \/ t \in Low
            /\ u = "DIVERGENT" <=> s = "DIVERGENT" \/ t = "DIVERGENT"
        BY <3>2, <3>3, <3>8, Joined
      <4>2. ASSUME u \notin Low
            PROVE  /\ d.observations # {}
                   /\ \A l \in 1 .. j : st[l] \notin Low /\ StateRank[st[l]] <= StateRank[u]
                   /\ u = "OBSERVED" \/ \E l \in 1 .. j : u = st[l]
        <5>1. ASSUME NEW l \in 1 .. j PROVE st[l] \notin Low /\ StateRank[st[l]] <= StateRank[u]
          <6>1. CASE l = j
            BY <3>1, <4>1, <4>2, <6>1
          <6>2. CASE l \in 1 .. (j - 1)
            <7>1. st[l] \in TermStates /\ st[l] \notin Low /\ StateRank[st[l]] <= StateRank[s]
              <8>1. l \in 1 .. b
                BY <3>6, <6>2
              <8> QED
                BY <1>6, <3>6a, <3>8, <6>2, <8>1
            <7>2. StateRank[st[l]] \in Nat /\ StateRank[s] \in Nat /\ StateRank[u] \in Nat
              BY <1>13, <3>2, <7>1
            <7> QED
              BY <4>1, <7>1, <7>2
          <6> QED
            BY <3>5, <6>1, <6>2
        <5>2. u = "OBSERVED" \/ \E l \in 1 .. j : u = st[l]
          <6>1. j \in 1 .. j
            OBVIOUS
          <6>2. s = "OBSERVED" \/ \E l \in 1 .. j : s = st[l]
            BY <3>6c, <3>8
          <6> QED
            BY <3>1, <4>1, <6>1, <6>2
        <5> QED
          BY <3>6b, <3>8, <5>1, <5>2
      <4>3. ASSUME u = "DIVERGENT" PROVE \E l \in 1 .. j : st[l] = "DIVERGENT"
        <5>1. j \in 1 .. j
          OBVIOUS
        <5> QED
          BY <3>1, <3>4, <3>6, <4>1, <4>3, <5>1
      <4> QED
        BY <1>12, <3>1, <3>2, <4>2, <4>3
    <3> QED
      BY <3>7, <3>8
  <2> QED
    BY <1>8, <2>1, <2>2, Throughout
<1>15. PICK s : s = f[a + b]
  OBVIOUS
<1>16. b \in S /\ g[b] = s /\ s \in TermStates
  BY <1>8, <1>10, <1>11, <1>14, <1>15
<1>17. ASSUME s \notin Low PROVE d.observations # {}
  BY <1>12, <1>16, <1>17
<1>18. ASSUME s \notin Low, NEW x \in Counting(d) PROVE x \notin Low /\ StateRank[x] <= StateRank[s]
  <2>1. PICK l \in 1 .. b : x = st[l]
    BY <1>7
  <2> QED
    BY <1>12, <1>16, <1>18, <2>1
<1>19. ASSUME s \notin Low PROVE s = "OBSERVED" \/ s \in Counting(d)
  <2>1. s = "OBSERVED" \/ \E l \in 1 .. b : s = st[l]
    BY <1>12, <1>16, <1>19
  <2> QED
    BY <1>7, <2>1
<1>20. ASSUME s = "DIVERGENT" PROVE "DIVERGENT" \in Counting(d)
  <2>1. PICK l \in 1 .. b : st[l] = "DIVERGENT"
    BY <1>12, <1>16, <1>20
  <2> QED
    BY <1>7, <2>1
<1>21. CASE ~Compared(d)
  <2>1. e = s
    BY <1>3, <1>8, <1>15, <1>21
  <2>2. ~Differs(d)
    BY <1>21 DEF Differs
  <2>3. e \notin Low => Counting(d) \cap Low = {}
    BY <1>18, <2>1
  <2>4. e \notin Low => RankEarned(d, e)
    BY <1>19, <2>1 DEF RankEarned
  <2> QED
    BY <1>16, <1>17, <1>20, <2>1, <2>2, <2>3, <2>4 DEF Judges
<1>22. CASE Compared(d)
  <2>1. PICK t \in TermStates : t = IF d.replay.expected = d.replay.observed THEN "REPRODUCED" ELSE "DIVERGENT"
    BY DEF TermStates
  <2>2. n = a + b + 1 /\ n \in 1 .. n /\ n - 1 = a + b
    BY <1>8, <1>22
  <2>3. e = Conclude(d, term[n], s)
    BY <1>2, <1>3, <1>15, <2>2 DEF Infers
  <2>4. e = JoinState(s, t)
    <3>1. s \in TermStates /\ Shaped(d, term, a, b, checked)
      BY <1>1, <1>16
    <3>2. Conclude(d, term[a + b + 1], s)
          = JoinState(s, IF d.replay.expected = d.replay.observed THEN "REPRODUCED" ELSE "DIVERGENT")
      <4>1. ConcludesFrom(d, term, a, b, checked, s, seen)
        BY <1>4, <3>1, Concluded
      <4> QED
        BY <1>22, <4>1 DEF ConcludesFrom
    <3> QED
      BY <2>1, <2>2, <2>3, <3>2
  <2>5. e \in {s, t} /\ (e \in Low <=> s \in Low \/ t \in Low)
        /\ (e = "DIVERGENT" <=> s = "DIVERGENT" \/ t = "DIVERGENT")
    BY <1>16, <2>1, <2>4, Joined
  <2>6. (t = "DIVERGENT" <=> Differs(d)) /\ (t # "DIVERGENT" => t = "REPRODUCED")
    BY <1>22, <2>1 DEF Differs
  <2>7. e \in TermStates
    BY <1>16, <2>1, <2>5
  <2>8. ASSUME e \notin Low PROVE d.observations # {}
    <3>1. s \notin Low
      BY <2>5, <2>8
    <3> QED
      BY <1>17, <3>1
  <2>9. ASSUME e \notin Low PROVE Counting(d) \cap Low = {}
    <3>1. s \notin Low
      BY <2>5, <2>9
    <3> QED
      BY <1>18, <3>1
  <2>10. ASSUME e \notin Low PROVE RankEarned(d, e)
    <3>1. s \notin Low
      BY <2>5, <2>10
    <3>2. t = "REPRODUCED"
      BY <2>5, <2>6, <2>10 DEF Low
    <3>3. CASE e = s
      <4>1. e = "OBSERVED" \/ e \in Counting(d)
        BY <1>19, <3>1, <3>3
      <4> QED
        BY <4>1 DEF RankEarned
    <3>4. CASE e # s
      <4>1. e = "REPRODUCED"
        BY <2>5, <3>2, <3>4
      <4>2. ~(StateRank[s] >= StateRank[t])
        BY <2>4, <3>4 DEF JoinState
      <4>3. "VERIFIED" \notin Counting(d)
        <5>1. SUFFICES ASSUME "VERIFIED" \in Counting(d) PROVE FALSE
          OBVIOUS
        <5>2. StateRank["VERIFIED"] <= StateRank[s]
          BY <1>18, <3>1, <5>1
        <5>3. StateRank["VERIFIED"] = 3 /\ StateRank["REPRODUCED"] = 2
          BY DEF StateRank
        <5>4. StateRank[s] \in Nat
          BY <1>13, <1>16
        <5> QED
          BY <3>2, <4>2, <5>2, <5>3, <5>4
      <4> QED
        BY <1>22, <4>1, <4>3 DEF RankEarned
    <3> QED
      BY <3>3, <3>4
  <2>11. ASSUME e = "DIVERGENT" PROVE "DIVERGENT" \in Counting(d) \/ Differs(d)
    BY <1>20, <2>5, <2>6, <2>11
  <2>12. Differs(d) => e = "DIVERGENT"
    BY <2>5, <2>6
  <2> QED
    BY <2>7, <2>8, <2>9, <2>10, <2>11, <2>12 DEF Judges
<1> QED
  BY <1>21, <1>22

-----------------------------------------------------------------------------
(* The dossier is built from the pools.                                     *)

DossierInv ==
    /\ IsFiniteSet(dossier.observations) /\ dossier.observations \subseteq Observations
    /\ IsFiniteSet(dossier.verification) /\ dossier.verification \subseteq Verifications
    /\ IsFiniteSet(dossier.propositions) /\ dossier.propositions \subseteq PropositionPool
    /\ dossier.claims \subseteq ClaimPool /\ dossier.bets \subseteq BetPool
    /\ dossier.replay \in Replays \cup {NoReplay}

Parts == {"observations", "claims", "verification", "propositions", "bets", "replay"}

LEMMA DossierStarts == DossierInit => DossierInv /\ DOMAIN dossier = Parts
  BY FS_EmptySet DEF DossierInit, DossierInv, Parts

LEMMA DossierStep ==
    (DossierInv /\ DOMAIN dossier = Parts) /\ [DossierNext]_dossier => (DossierInv /\ DOMAIN dossier = Parts)'
<1> SUFFICES ASSUME DossierInv, DOMAIN dossier = Parts, [DossierNext]_dossier
             PROVE  (DossierInv /\ DOMAIN dossier = Parts)'
  OBVIOUS
<1>1. ASSUME NEW r \in Replays, SetReplay(r) PROVE (DossierInv /\ DOMAIN dossier = Parts)'
  BY <1>1 DEF DossierInv, SetReplay, Parts
<1>2. ASSUME NEW o \in Observations, Observe(o) PROVE (DossierInv /\ DOMAIN dossier = Parts)'
  BY <1>2, FS_AddElement DEF DossierInv, Observe, Parts
<1>3. ASSUME NEW c \in ClaimPool, Claim(c) PROVE (DossierInv /\ DOMAIN dossier = Parts)'
  BY <1>3 DEF DossierInv, Claim, Parts
<1>4. ASSUME NEW v \in Verifications, Verify(v) PROVE (DossierInv /\ DOMAIN dossier = Parts)'
  BY <1>4, FS_AddElement DEF DossierInv, Verify, Parts
<1>5. ASSUME NEW p \in PropositionPool, Propose(p) PROVE (DossierInv /\ DOMAIN dossier = Parts)'
  BY <1>5, FS_AddElement DEF DossierInv, Propose, Parts
<1>6. ASSUME NEW b \in BetPool, Bet(b) PROVE (DossierInv /\ DOMAIN dossier = Parts)'
  BY <1>6 DEF DossierInv, Bet, Parts
<1>7. CASE UNCHANGED dossier
  BY <1>7 DEF DossierInv
<1> QED
  BY <1>1, <1>2, <1>3, <1>4, <1>5, <1>6, <1>7 DEF DossierNext

\* A dossier holds what its callers added, and finitely much of it (reality-record-adapter.ts).
THEOREM DossierKept == DossierSpec => []DossierInv
<1>1. DossierInit => DossierInv /\ DOMAIN dossier = Parts
  BY DossierStarts
<1>2. (DossierInv /\ DOMAIN dossier = Parts) /\ [DossierNext]_dossier => (DossierInv /\ DOMAIN dossier = Parts)'
  BY DossierStep
<1> QED
  BY <1>1, <1>2, PTL DEF DossierSpec

LEMMA Forms ==
    ASSUME DossierInv
    PROVE  Formed(dossier) /\ \A p \in dossier.propositions : p.id \in Nat
  BY DossierAssumption DEF DossierInv, Formed

LEMMA Settles == DossierInv => PropositionsSettle
<1> SUFFICES ASSUME DossierInv PROVE PropositionsSettle
  OBVIOUS
<1>1. PICK props : props = Select(dossier.propositions)
  OBVIOUS
<1>2. PICK in, out : in = props.accepted /\ out = props.rejected
  OBVIOUS
<1>3. /\ in \subseteq dossier.propositions /\ out \subseteq dossier.propositions
      /\ StandTogether(in) /\ Settled(out, in)
      /\ \A p \in out : p.id \notin Ids(in)
      /\ \A p \in dossier.propositions : p \in out \/ p.id \in Ids(in)
  BY <1>1, <1>2, Forms, SelectSettles DEF DossierInv
<1>4. \A p, q \in in : p # q => p.id \notin q.conflicts
  BY <1>3 DEF StandTogether, Conflict
<1>5. \A p \in in : p.id \in Ids(in) /\ p.requires \subseteq Ids(in)
  BY <1>3 DEF StandTogether, Ids
<1>6. in \cap out = {}
  BY <1>3, <1>5
<1>7. \A p \in out : \/ \E q \in in : p.id \in q.conflicts \/ q.id \in p.conflicts
                     \/ \E r \in p.requires : r \notin Ids(in)
  BY <1>3, <1>6 DEF Settled, Acceptable, Conflict
<1>8. \A p \in dossier.propositions \ (in \cup out) : p.id \in Ids(in)
  BY <1>3
<1> QED
  BY <1>1, <1>2, <1>4, <1>5, <1>6, <1>7, <1>8 DEF PropositionsSettle

\* The propositions that are accepted never conflict.
LEMMA NeverConflicting ==
    ASSUME DossierInv, NEW props, props = Select(dossier.propositions)
    PROVE  /\ props.state \in {"INCOMPLETE", "CONSISTENT"}
           /\ props.state = "CONSISTENT" =>
                 props.rejected = {} /\ Ids(props.accepted) = {p.id : p \in dossier.propositions}
<1>1. PICK in, out : in = props.accepted /\ out = props.rejected
  OBVIOUS
<1>2. /\ in \subseteq dossier.propositions /\ StandTogether(in)
      /\ \A p \in dossier.propositions : p \in out \/ p.id \in Ids(in)
  BY <1>1, Forms, SelectSettles DEF DossierInv
<1>3. props.state = Judged(in, out)
  BY <1>1 DEF Select
<1>4. props.state = IF out # {} THEN "INCOMPLETE" ELSE "CONSISTENT"
  BY <1>2, <1>3 DEF Judged, StandTogether
<1>5. out = {} => Ids(in) = {p.id : p \in dossier.propositions}
  BY <1>2 DEF Ids
<1> QED
  BY <1>1, <1>4, <1>5

\* The parts of a certificate.
LEMMA Certified ==
    ASSUME DossierInv, NEW c, c = Certificate,
           NEW e, e = Evaluate(dossier, RealityTerm(dossier)), NEW props, props = Select(dossier.propositions)
    PROVE  /\ c.propositions = props /\ c.equivocators = Equivocators(dossier.bets)
           /\ c.state = ResolveState(e, props.state, Equivocators(dossier.bets))
           /\ c.failed = {o \in Obligations(dossier, props.state, Equivocators(dossier.bets)) : o.status = "FAILED"}
           /\ c.predicted = Project(c.state, dossier, c.failed, c.open)
  BY DEF Certificate, RunRealityEngine

LEMMA Earned == DossierInv => PositiveIsEarned
<1> SUFFICES ASSUME DossierInv PROVE PositiveIsEarned
  OBVIOUS
<1>1. PICK c, e, props : /\ c = Certificate /\ e = Evaluate(dossier, RealityTerm(dossier))
                         /\ props = Select(dossier.propositions)
  OBVIOUS
<1>2. PICK liars : liars = Equivocators(dossier.bets)
  OBVIOUS
<1>3. c.propositions = props /\ c.equivocators = liars /\ c.state = ResolveState(e, props.state, liars)
  BY <1>1, <1>2, Certified
<1>4. SUFFICES ASSUME c.state \in {"CONSISTENT", "REPRODUCED", "VERIFIED"}
      PROVE  /\ dossier.observations # {}
             /\ Counting(dossier) \cap Low = {}
             /\ Ids(c.propositions.accepted) = {p.id : p \in dossier.propositions}
             /\ c.propositions.rejected = {}
             /\ \A a, b \in dossier.bets : a.source = b.source => a.claim = b.claim
             /\ Compared(dossier) => dossier.replay.expected = dossier.replay.observed
             /\ \/ c.state \in Counting(dossier)
                \/ c.state = "REPRODUCED" /\ Compared(dossier) /\ "VERIFIED" \notin Counting(dossier)
  BY <1>1 DEF PositiveIsEarned, Counting, Low
<1>5. e = c.state /\ e \notin Low /\ e # "OBSERVED" /\ liars = {} /\ props.state \notin {"CONFLICTING", "INCOMPLETE"}
  BY <1>3, <1>4 DEF ResolveState, Low
<1>6. Formed(dossier)
  BY Forms
<1>7. /\ dossier.observations # {} /\ Counting(dossier) \cap Low = {}
      /\ Compared(dossier) => dossier.replay.expected = dossier.replay.observed
      /\ \/ e \in Counting(dossier)
         \/ e = "REPRODUCED" /\ Compared(dossier) /\ "VERIFIED" \notin Counting(dossier)
  <2>1. Judges(dossier, e)
    BY <1>1, <1>6, TermVerdict
  <2>2. dossier.observations # {} /\ Counting(dossier) \cap Low = {} /\ RankEarned(dossier, e)
    BY <1>5, <2>1 DEF Judges
  <2>3. ~Differs(dossier)
    BY <1>5, <2>1 DEF Judges, Low
  <2>4. Compared(dossier) => dossier.replay.expected = dossier.replay.observed
    BY <2>3 DEF Differs
  <2>5. e \in Counting(dossier) \/ (e = "REPRODUCED" /\ Compared(dossier) /\ "VERIFIED" \notin Counting(dossier))
    BY <1>5, <2>2 DEF RankEarned
  <2> QED
    BY <2>2, <2>4, <2>5
<1>8. props.rejected = {} /\ Ids(props.accepted) = {p.id : p \in dossier.propositions}
  BY <1>1, <1>5, NeverConflicting
<1>9. ASSUME NEW a \in dossier.bets, NEW b \in dossier.bets, a.source = b.source, a.claim # b.claim PROVE FALSE
  <2>1. a.source \in Equivocators(dossier.bets)
    BY <1>9 DEF Equivocators
  <2> QED
    BY <1>2, <1>5, <2>1
<1> QED
  BY <1>3, <1>5, <1>7, <1>8, <1>9

LEMMA Agrees == DossierInv => LedgerAgrees
<1> SUFFICES ASSUME DossierInv PROVE LedgerAgrees
  OBVIOUS
<1>1. PICK c, e, props : /\ c = Certificate /\ e = Evaluate(dossier, RealityTerm(dossier))
                         /\ props = Select(dossier.propositions)
  OBVIOUS
<1>2. PICK liars : liars = Equivocators(dossier.bets)
  OBVIOUS
<1>3. /\ c.state = ResolveState(e, props.state, liars)
      /\ c.failed = {o \in Obligations(dossier, props.state, liars) : o.status = "FAILED"}
      /\ c.predicted = Project(c.state, dossier, c.failed, c.open)
  BY <1>1, <1>2, Certified
<1>4. Formed(dossier)
  BY Forms
<1>5. props.state \in {"INCOMPLETE", "CONSISTENT"}
  BY <1>1, NeverConflicting
<1>6. SUFFICES ASSUME OnePerPredicate
      PROVE  /\ c.state = "DIVERGENT" => c.failed # {}
             /\ c.failed # {} => c.state \in {"DIVERGENT", "INCOMPLETE"}
             /\ c.predicted # c.state => c.failed = {}
  BY <1>1 DEF LedgerAgrees
<1>7. PICK owed : owed = Obligations(dossier, props.state, liars)
  OBVIOUS
<1>8. ASSUME NEW v \in dossier.verification PROVE First(dossier, v.predicate) = v
  BY <1>4, <1>6, FirstCounts DEF OnePerPredicate
<1>9. \A s : s \in Counting(dossier) <=> \E v \in dossier.verification : s = v.state
  BY <1>8 DEF Counting
<1>10. /\ dossier.replay.state = "DIVERGENT" <=> Differs(dossier)
       /\ dossier.replay.state = "DIVERGENT" => dossier.replay.available
  <2>1. PICK r : r = dossier.replay
    OBVIOUS
  <2>2. CASE r \in Replays
    <3>1. r.state = "DIVERGENT" <=> r.expected # "" /\ r.observed # "" /\ r.expected # r.observed
      BY <2>2, DossierAssumption
    <3>2. r.state = "DIVERGENT" => r.available
      BY <2>2, DossierAssumption
    <3> QED
      BY <2>1, <3>1, <3>2 DEF Compared, Differs
  <2>3. CASE r = NoReplay
    <3>1. r.state # "DIVERGENT" /\ r.expected = ""
      BY <2>3 DEF NoReplay
    <3> QED
      BY <2>1, <3>1 DEF Compared, Differs
  <2> QED
    BY <2>1, <2>2, <2>3 DEF DossierInv
<1>12. c.failed # {} <=> \/ liars # {} \/ dossier.replay.state = "DIVERGENT"
                         \/ "DIVERGENT" \in Counting(dossier)
  <2>1. c.failed = {o \in owed : o.status = "FAILED"}
    BY <1>3, <1>7
  <2>2. ASSUME liars # {} PROVE c.failed # {}
    <3>1. PICK o : o = [kind |-> "EQUIVOCATION", of |-> 0, status |-> "FAILED"]
      OBVIOUS
    <3>2. o \in owed /\ o.status = "FAILED"
      BY <1>7, <2>2, <3>1 DEF Obligations
    <3> QED
      BY <2>1, <3>2
  <2>3. ASSUME dossier.replay.state = "DIVERGENT" PROVE c.failed # {}
    <3>1. PICK o : o = [kind |-> "REPLAY", of |-> 0, status |-> "FAILED"]
      OBVIOUS
    <3>2. o \in owed /\ o.status = "FAILED"
      BY <1>7, <1>10, <2>3, <3>1 DEF Obligations, StatusOf
    <3> QED
      BY <2>1, <3>2
  <2>4. ASSUME "DIVERGENT" \in Counting(dossier) PROVE c.failed # {}
    <3>1. PICK v \in dossier.verification : v.state = "DIVERGENT"
      BY <1>9, <2>4
    <3>2. PICK o : o = [kind |-> "VERIFICATION", of |-> v.id, status |-> StatusOf(v.state)]
      OBVIOUS
    <3>3. o \in owed /\ o.status = "FAILED"
      BY <1>7, <3>1, <3>2 DEF Obligations, StatusOf
    <3> QED
      BY <2>1, <3>3
  <2>5. ASSUME NEW o \in owed, o.status = "FAILED"
        PROVE  liars # {} \/ dossier.replay.state = "DIVERGENT" \/ "DIVERGENT" \in Counting(dossier)
    <3>1. \/ o.status = IF dossier.observations # {} THEN "SATISFIED" ELSE "OPEN"
          \/ o.status = IF dossier.replay.available THEN StatusOf(dossier.replay.state) ELSE "OPEN"
          \/ o.status = StatusOf(IF props.state = "CONFLICTING" THEN "DIVERGENT" ELSE props.state)
          \/ o.status = IF liars = {} THEN "SATISFIED" ELSE "FAILED"
          \/ \E claim \in dossier.claims : o.status = IF claim.basis \subseteq dossier.observations THEN "SATISFIED" ELSE "OPEN"
          \/ \E v \in dossier.verification : o.status = StatusOf(v.state)
      BY <1>7, <2>5 DEF Obligations
    <3>2. \A s : StatusOf(s) = "FAILED" => s = "DIVERGENT"
      BY DEF StatusOf
    <3> QED
      BY <1>5, <1>9, <2>5, <3>1, <3>2
  <2> QED
    BY <2>1, <2>2, <2>3, <2>4, <2>5
<1>13. c.state = "DIVERGENT" <=> e = "DIVERGENT" \/ liars # {}
  BY <1>3, <1>5 DEF ResolveState
<1>13a. Judges(dossier, e)
  BY <1>1, <1>4, TermVerdict
<1>14. c.state = "DIVERGENT" => c.failed # {}
  BY <1>10, <1>12, <1>13, <1>13a DEF Judges
<1>15. c.failed # {} => c.state \in {"DIVERGENT", "INCOMPLETE"}
  <2>1. CASE liars # {}
    BY <1>13, <2>1
  <2>2. CASE dossier.replay.state = "DIVERGENT"
    <3>1. e = "DIVERGENT"
      BY <1>10, <1>13a, <2>2 DEF Judges
    <3> QED
      BY <1>13, <3>1
  <2>3. CASE "DIVERGENT" \in Counting(dossier)
    <3>1. Counting(dossier) \cap Low # {}
      BY <2>3 DEF Low
    <3>2. e \in Low
      BY <1>13a, <3>1 DEF Judges
    <3> QED
      BY <1>3, <3>2 DEF ResolveState, Low
  <2> QED
    BY <1>12, <2>1, <2>2, <2>3
<1>16. c.predicted # c.state => c.failed = {}
  <2>1. c.predicted # c.state => c.failed = {} \/ c.state \in {"CONSISTENT", "REPRODUCED"}
    BY <1>3 DEF Project
  <2> QED
    BY <1>15, <2>1
<1> QED
  BY <1>14, <1>15, <1>16

\* For every dossier: what is accepted stands together and needs no other, it is as much as
\* can be accepted, and nothing is both accepted and rejected (selectMaximallyConsistentPropositions 76-161).
THEOREM SettlesKept == DossierSpec => []PropositionsSettle
  BY DossierKept, Settles, PTL

\* For every dossier: a positive certificate has been earned by what was seen, checked,
\* replayed, proposed and bet (runRealityEngine 185-247).
THEOREM EarnedKept == DossierSpec => []PositiveIsEarned
  BY DossierKept, Earned, PTL

\* For every dossier with one verification for each predicate: the ledger of obligations and the
\* judgement agree on what failed (buildRealityProofBundle 117-285, project 85-181).
THEOREM AgreementKept == DossierSpec => []LedgerAgrees
  BY DossierKept, Agrees, PTL

-----------------------------------------------------------------------------
(* Costs are ordered.                                                       *)

Costs(d) == [1 .. d -> Nat]

AtMost(c, e) == ~Cheaper(e, c)

\* A set of numbers that has an element has a smallest.
LEMMA Smallest ==
    ASSUME NEW S \in SUBSET Nat, S # {}
    PROVE  \E m \in S : \A k \in S : m <= k
<1>1. IsWellFoundedOn(OpToRel(<, Nat), Nat)
  BY NatLessThanWellFounded
<1>2. PICK m \in S : \A k \in S : <<k, m>> \notin OpToRel(<, Nat)
  BY <1>1, WFMin
<1>3. ASSUME NEW k \in S PROVE m <= k
  <2>1. k \in Nat /\ m \in Nat
    OBVIOUS
  <2>2. ~(k < m)
    BY <1>2, <2>1 DEF OpToRel
  <2> QED
    BY <2>1, <2>2
<1> QED
  BY <1>3

\* Of two different costs one is cheaper.
LEMMA Compares ==
    ASSUME NEW d \in Nat, NEW a \in Costs(d), NEW b \in Costs(d), a # b
    PROVE  Cheaper(a, b) \/ Cheaper(b, a)
<1>1. PICK D : D = {i \in 1 .. d : a[i] # b[i]}
  OBVIOUS
<1>2. D \in SUBSET Nat /\ D # {}
  BY <1>1 DEF Costs
<1>3. PICK i \in D : \A k \in D : i <= k
  BY <1>2, Smallest
<1>4. i \in 1 .. d /\ a[i] # b[i]
  BY <1>1
<1>5. \A j \in 1 .. (i - 1) : a[j] = b[j]
  <2>1. ASSUME NEW j \in 1 .. (i - 1) PROVE a[j] = b[j]
    <3>1. j \in 1 .. d /\ ~(i <= j)
      BY <1>4
    <3> QED
      BY <1>1, <1>3, <3>1
  <2> QED
    BY <2>1
<1>6. a[i] \in Nat /\ b[i] \in Nat /\ DOMAIN a = 1 .. d /\ DOMAIN b = 1 .. d
  BY <1>4 DEF Costs
<1>7. CASE a[i] < b[i]
  BY <1>4, <1>5, <1>6, <1>7 DEF Cheaper
<1>8. CASE b[i] < a[i]
  BY <1>4, <1>5, <1>6, <1>8 DEF Cheaper
<1> QED
  BY <1>4, <1>6, <1>7, <1>8

\* Nothing is cheaper than itself.
LEMMA NotCheaper ==
    ASSUME NEW d \in Nat, NEW a \in Costs(d)
    PROVE  ~Cheaper(a, a)
BY DEF Cheaper, Costs

\* What is cheaper than something cheaper is cheaper.
LEMMA CheaperYet ==
    ASSUME NEW d \in Nat, NEW a \in Costs(d), NEW b \in Costs(d), NEW c \in Costs(d),
           Cheaper(a, b), Cheaper(b, c)
    PROVE  Cheaper(a, c)
<1>1. PICK i \in 1 .. d : a[i] < b[i] /\ \A j \in 1 .. (i - 1) : a[j] = b[j]
  BY DEF Cheaper, Costs
<1>2. PICK k \in 1 .. d : b[k] < c[k] /\ \A j \in 1 .. (k - 1) : b[j] = c[j]
  BY DEF Cheaper, Costs
<1>3. \A j \in 1 .. d : a[j] \in Nat /\ b[j] \in Nat /\ c[j] \in Nat
  BY DEF Costs
<1>4. ASSUME NEW n \in 1 .. d, n <= i, n <= k, n = i \/ n = k PROVE a[n] < c[n] /\ \A j \in 1 .. (n - 1) : a[j] = c[j]
  <2>1. CASE n = i /\ n = k
    BY <1>1, <1>2, <1>3, <2>1
  <2>2. CASE n # k
    <3>1. n = i /\ i \in 1 .. (k - 1)
      BY <1>4, <2>2
    <3>2. \A j \in 1 .. (n - 1) : j \in 1 .. (i - 1) /\ j \in 1 .. (k - 1)
      BY <1>4
    <3> QED
      BY <1>1, <1>2, <1>3, <3>1, <3>2
  <2>3. CASE n # i
    <3>1. n = k /\ k \in 1 .. (i - 1)
      BY <1>4, <2>3
    <3>2. \A j \in 1 .. (n - 1) : j \in 1 .. (i - 1) /\ j \in 1 .. (k - 1)
      BY <1>4
    <3> QED
      BY <1>1, <1>2, <1>3, <3>1, <3>2
  <2> QED
    BY <1>4, <2>1, <2>2, <2>3
<1>5. DOMAIN a = 1 .. d
  BY DEF Costs
<1>6. CASE i <= k
  <2>1. a[i] < c[i] /\ \A j \in 1 .. (i - 1) : a[j] = c[j]
    BY <1>4, <1>6
  <2> QED
    BY <1>5, <2>1 DEF Cheaper
<1>7. CASE k <= i
  <2>1. a[k] < c[k] /\ \A j \in 1 .. (k - 1) : a[j] = c[j]
    BY <1>4, <1>7
  <2> QED
    BY <1>5, <2>1 DEF Cheaper
<1> QED
  BY <1>6, <1>7

\* "At most" goes on from one cost to the next, and together with "cheaper".
LEMMA Chained ==
    ASSUME NEW d \in Nat, NEW a \in Costs(d), NEW b \in Costs(d), NEW c \in Costs(d),
           AtMost(a, b)
    PROVE  /\ AtMost(b, c) => AtMost(a, c)
           /\ Cheaper(b, c) => Cheaper(a, c)
           /\ Cheaper(c, a) => Cheaper(c, b)
<1>1. a = b \/ Cheaper(a, b)
  BY Compares DEF AtMost
<1>2. Cheaper(b, c) => Cheaper(a, c)
  BY <1>1, CheaperYet
<1>3. Cheaper(c, a) => Cheaper(c, b)
  BY <1>1, CheaperYet
<1> QED
  BY <1>2, <1>3 DEF AtMost

\* A sum of costs is a cost.
LEMMA CostsAdd ==
    ASSUME NEW d \in Nat, NEW a \in Costs(d), NEW b \in Costs(d)
    PROVE  AddCosts(a, b) \in Costs(d)
BY DEF AddCosts, Costs

\* To pay nothing is a cost.
LEMMA FreeTyped == ASSUME NEW d \in Nat PROVE Free(d) \in Costs(d)
BY DEF Free, Costs

\* What comes on top does not change which of two is cheaper, and is never a gain.
LEMMA OnTop ==
    ASSUME NEW d \in Nat, NEW a \in Costs(d), NEW b \in Costs(d), NEW c \in Costs(d)
    PROVE  /\ Cheaper(AddCosts(a, c), AddCosts(b, c)) <=> Cheaper(a, b)
           /\ Cheaper(AddCosts(c, a), AddCosts(c, b)) <=> Cheaper(a, b)
           /\ AtMost(a, AddCosts(a, c))
<1>1. \A i \in 1 .. d : /\ AddCosts(a, c)[i] = a[i] + c[i] /\ AddCosts(b, c)[i] = b[i] + c[i]
                        /\ AddCosts(c, a)[i] = c[i] + a[i] /\ AddCosts(c, b)[i] = c[i] + b[i]
                        /\ a[i] \in Nat /\ b[i] \in Nat /\ c[i] \in Nat
  BY DEF AddCosts, Costs
<1>2. /\ DOMAIN a = 1 .. d /\ DOMAIN AddCosts(a, c) = 1 .. d /\ DOMAIN AddCosts(c, a) = 1 .. d
  BY DEF AddCosts, Costs
<1>3. \A i \in 1 .. d : \A j \in 1 .. (i - 1) : j \in 1 .. d
  OBVIOUS
<1>4. \A i \in 1 .. d : /\ AddCosts(a, c)[i] < AddCosts(b, c)[i] <=> a[i] < b[i]
                        /\ AddCosts(c, a)[i] < AddCosts(c, b)[i] <=> a[i] < b[i]
                        /\ AddCosts(a, c)[i] = AddCosts(b, c)[i] <=> a[i] = b[i]
                        /\ AddCosts(c, a)[i] = AddCosts(c, b)[i] <=> a[i] = b[i]
                        /\ ~(AddCosts(a, c)[i] < a[i])
  BY <1>1
<1>5. Cheaper(AddCosts(a, c), AddCosts(b, c)) <=> Cheaper(a, b)
  BY <1>2, <1>3, <1>4 DEF Cheaper
<1>6. Cheaper(AddCosts(c, a), AddCosts(c, b)) <=> Cheaper(a, b)
  BY <1>2, <1>3, <1>4 DEF Cheaper
<1>7. ~Cheaper(AddCosts(a, c), a)
  BY <1>2, <1>4 DEF Cheaper
<1> QED
  BY <1>5, <1>6, <1>7 DEF AtMost

\* Of finitely many priced things one is cheapest.
LEMMA Cheapest ==
    ASSUME NEW d \in Nat, NEW T, IsFiniteSet(T), T # {}, NEW price \in [T -> Costs(d)]
    PROVE  \E t \in T : \A u \in T : ~Cheaper(price[u], price[t])
<1> DEFINE Below(t) == {u \in T : Cheaper(price[u], price[t])}
           All == {Below(t) : t \in T}
<1>1. All \in SUBSET (SUBSET T) /\ All # {}
  <2>1. \A t \in T : Below(t) \in SUBSET T
    OBVIOUS
  <2> HIDE DEF Below
  <2> QED
    BY <2>1
<1>2. PICK B \in All : \A U \in All : ~(U \subseteq B /\ U # B)
  <2> HIDE DEF All
  <2> QED
    BY <1>1, SmallestSet
<1>3. PICK t \in T : B = Below(t)
  OBVIOUS
<1>4. ASSUME NEW u \in T, Cheaper(price[u], price[t]) PROVE FALSE
  <2>1. Below(u) \subseteq B
    <3>1. ASSUME NEW v \in T, Cheaper(price[v], price[u]) PROVE Cheaper(price[v], price[t])
      BY <1>4, <3>1, CheaperYet
    <3> QED
      BY <1>3, <3>1
  <2>2. u \in B /\ u \notin Below(u)
    BY <1>3, <1>4, NotCheaper
  <2>3. Below(u) \in All
    OBVIOUS
  <2> HIDE DEF Below, All
  <2> QED
    BY <1>2, <2>1, <2>2, <2>3
<1> QED
  BY <1>4

-----------------------------------------------------------------------------
(* One turn of a search.  A graph [states, start, key, moves, goals, dims]  *)
(* is what the callers of the searches give.                                *)

IsSearch(s) ==
    s = [frontier |-> s.frontier, best |-> s.best, settled |-> s.settled, prints |-> s.prints,
         found |-> s.found, status |-> s.status]

\* The entry for what t leads to.
Child(e, t) ==
    [state |-> t.to, key |-> t.key, cost |-> AddCosts(e.cost, t.cost), path |-> Append(e.path, t)]

\* What r, after a relaxation, has to do with s before it: what is new comes from `out`,
\* and nothing in it is left without a best cost.
Grown(s, r, e, out) ==
    /\ IsSearch(r) /\ r.settled = s.settled /\ r.found = s.found /\ r.status = s.status
    /\ DOMAIN s.best \subseteq DOMAIN r.best
    /\ DOMAIN r.best \subseteq DOMAIN s.best \cup {t.key : t \in out}
    /\ \A t \in out : t.key \in s.settled \cup DOMAIN r.best
    /\ DOMAIN r.prints = DOMAIN s.prints \cup {t.key : t \in out}
    /\ \A k \in DOMAIN s.prints : r.prints[k] = s.prints[k]
    /\ \A k \in DOMAIN r.prints : k \in DOMAIN s.prints \/ \E t \in out : t.key = k /\ r.prints[k] = t.to
    /\ s.frontier \subseteq r.frontier
    /\ \A f \in r.frontier : f \in s.frontier \/ \E t \in out : f = Child(e, t)

\* And what the costs have to do with each other.
Cheapened(s, r, e, out, d) ==
    /\ \A k \in DOMAIN r.best : r.best[k] \in Costs(d)
    /\ \A k \in DOMAIN s.best : AtMost(r.best[k], s.best[k])
    /\ \A k \in DOMAIN s.best : k \in s.settled => r.best[k] = s.best[k]
    /\ \A t \in out : t.key \notin s.settled => AtMost(r.best[t.key], AddCosts(e.cost, t.cost))
    /\ \A k \in DOMAIN r.best : \/ k \in DOMAIN s.best /\ r.best[k] = s.best[k]
                                \/ \E f \in r.frontier : f.key = k /\ f.cost = r.best[k]
    /\ \A f \in r.frontier : f \in s.frontier \/ AtMost(r.best[f.key], f.cost)

\* What one function laid over another says.
LEMMA OverMeans ==
    ASSUME NEW f, NEW g
    PROVE  /\ DOMAIN Over(f, g) = DOMAIN f \cup DOMAIN g
           /\ \A k \in DOMAIN f : Over(f, g)[k] = f[k]
           /\ \A k \in DOMAIN g : k \notin DOMAIN f => Over(f, g)[k] = g[k]
BY DEF Over

\* Relaxing the transitions of an entry adds its children to the queue, and only cheapens
\* what was the best cost of a key.
LEMMA Relaxed ==
    ASSUME NEW s, IsSearch(s), NEW e, NEW out, IsFiniteSet(out), NEW d \in Nat, e.cost \in Costs(d),
           \A t \in out : t.cost \in Costs(d), \A k \in DOMAIN s.best : s.best[k] \in Costs(d),
           s.settled \subseteq DOMAIN s.best
    PROVE  Grown(s, Relax(s, e, out), e, out) /\ Cheapened(s, Relax(s, e, out), e, out, d)
<1> DEFINE price(t) == AddCosts(e.cost, t.cost)
           better == {t \in out : /\ t.key \notin s.settled
                                  /\ t.key \in DOMAIN s.best => Cheaper(price(t), s.best[t.key])
                                  /\ ~\E u \in out : u.key = t.key /\ Cheaper(u.cost, t.cost)}
           keys == {t.key : t \in better}
           chosen(k) == CHOOSE t \in better : t.key = k
           pick == {chosen(k) : k \in keys}
           paid == [k \in {t.key : t \in pick} |-> price(CHOOSE t \in pick : t.key = k)]
           named == [k \in {t.key : t \in out} |-> (CHOOSE t \in out : t.key = k).to]
           new == {[state |-> t.to, key |-> t.key, cost |-> price(t), path |-> Append(e.path, t)] : t \in pick}
           r == Relax(s, e, out)
<1>1. r = [s EXCEPT !.best = Over(paid, @), !.prints = Over(@, named), !.frontier = @ \cup new]
  BY DEF Relax
<1>2. ASSUME NEW k \in keys PROVE chosen(k) \in better /\ chosen(k).key = k
  <2>1. \E t \in better : t.key = k
    OBVIOUS
  <2> HIDE DEF better
  <2> QED
    BY <2>1
<1>3. {t.key : t \in pick} = keys
  <2> HIDE DEF better, chosen
  <2> QED
    BY <1>2 DEF pick, keys
<1>4. ASSUME NEW t \in pick PROVE t = chosen(t.key) /\ t.key \in keys /\ t \in better
  <2> HIDE DEF better, chosen
  <2> QED
    BY <1>2 DEF pick, keys
<1>5. ASSUME NEW k \in keys PROVE paid[k] = price(chosen(k)) /\ k \in DOMAIN paid
  <2>1. PICK u : u = (CHOOSE t \in pick : t.key = k)
    OBVIOUS
  <2>2. chosen(k) \in pick /\ chosen(k).key = k
    BY <1>2
  <2>3. u \in pick /\ u.key = k
    <3> HIDE DEF pick
    <3> QED
      BY <2>1, <2>2
  <2>4. u = chosen(k)
    BY <1>4, <2>3
  <2>5. k \in {t.key : t \in pick}
    BY <1>3
  <2> HIDE DEF pick, chosen, price, keys
  <2> QED
    BY <2>1, <2>4, <2>5 DEF paid
<1>6. /\ IsSearch(r) /\ r.settled = s.settled /\ r.found = s.found /\ r.status = s.status
      /\ r.best = Over(paid, s.best) /\ r.prints = Over(s.prints, named) /\ r.frontier = s.frontier \cup new
  <2> HIDE DEF paid, named, new, r
  <2> QED
    BY <1>1 DEF IsSearch
<1>7. DOMAIN paid = keys
  BY <1>3
<1>8. /\ DOMAIN r.best = keys \cup DOMAIN s.best
      /\ \A k \in keys : r.best[k] = price(chosen(k))
      /\ \A k \in DOMAIN s.best : k \notin keys => r.best[k] = s.best[k]
  <2>1. PICK p : p = paid
    OBVIOUS
  <2>2. /\ DOMAIN Over(p, s.best) = DOMAIN p \cup DOMAIN s.best
        /\ \A k \in DOMAIN p : Over(p, s.best)[k] = p[k]
        /\ \A k \in DOMAIN s.best : k \notin DOMAIN p => Over(p, s.best)[k] = s.best[k]
    BY OverMeans
  <2> HIDE DEF paid, r, keys, price, chosen
  <2> QED
    BY <1>5, <1>6, <1>7, <2>1, <2>2
<1>9. /\ DOMAIN r.prints = DOMAIN s.prints \cup {t.key : t \in out}
      /\ \A k \in DOMAIN s.prints : r.prints[k] = s.prints[k]
      /\ \A k \in {t.key : t \in out} : k \in DOMAIN s.prints \/ r.prints[k] = named[k]
  <2>1. DOMAIN named = {t.key : t \in out}
    OBVIOUS
  <2>2. PICK p : p = named
    OBVIOUS
  <2>3. /\ DOMAIN Over(s.prints, p) = DOMAIN s.prints \cup DOMAIN p
        /\ \A k \in DOMAIN s.prints : Over(s.prints, p)[k] = s.prints[k]
        /\ \A k \in DOMAIN p : k \notin DOMAIN s.prints => Over(s.prints, p)[k] = p[k]
    BY OverMeans
  <2> HIDE DEF named, r
  <2> QED
    BY <1>6, <2>1, <2>2, <2>3
<1>10. ASSUME NEW k \in DOMAIN r.prints, k \notin DOMAIN s.prints
       PROVE  \E t \in out : t.key = k /\ r.prints[k] = t.to
  <2>1. k \in {t.key : t \in out}
    BY <1>9, <1>10
  <2>2. PICK t : t = CHOOSE u \in out : u.key = k
    OBVIOUS
  <2>3. t \in out /\ t.key = k
    BY <2>1, <2>2
  <2>4. r.prints[k] = t.to
    <3> HIDE DEF r
    <3> QED
      BY <1>9, <1>10, <2>1, <2>2
  <2> HIDE DEF r
  <2> QED
    BY <2>3, <2>4
<1>11. ASSUME NEW f \in new PROVE \E t \in better : f = Child(e, t) /\ t.key \in keys /\ t = chosen(t.key)
  <2>1. PICK t \in pick : f = [state |-> t.to, key |-> t.key, cost |-> price(t), path |-> Append(e.path, t)]
    <3> HIDE DEF pick, price
    <3> QED
      BY DEF new
  <2>2. f = Child(e, t)
    BY <2>1 DEF Child
  <2> QED
    BY <1>4, <2>2
<1>12. ASSUME NEW k \in keys PROVE \E f \in new : f.key = k /\ f.cost = price(chosen(k))
  <2>1. chosen(k) \in pick /\ chosen(k).key = k
    BY <1>2
  <2>2. PICK t \in pick : t = chosen(k) /\ t.key = k
    <3> HIDE DEF chosen, pick
    <3> QED
      BY <2>1
  <2>3. PICK f : f = [state |-> t.to, key |-> t.key, cost |-> price(t), path |-> Append(e.path, t)]
    OBVIOUS
  <2>4. f \in new
    <3> HIDE DEF pick, price
    <3> QED
      BY <2>3 DEF new
  <2>5. f.key = k /\ f.cost = price(chosen(k))
    <3> HIDE DEF price, chosen
    <3> QED
      BY <2>2, <2>3
  <2> QED
    BY <2>4, <2>5
<1>13. \A t \in out : price(t) \in Costs(d)
  BY CostsAdd
\* Of what shares a key, one is cheapest; it is among the better ones if any is.
<1>14. ASSUME NEW t \in out, t.key \notin s.settled,
              t.key \in DOMAIN s.best => Cheaper(price(t), s.best[t.key])
       PROVE  t.key \in keys
  <2>1. PICK U : U = {u \in out : u.key = t.key}
    OBVIOUS
  <2>2. IsFiniteSet(U) /\ t \in U /\ U \subseteq out
    BY <2>1, FS_Subset
  <2>3. PICK cost : cost = [u \in U |-> u.cost]
    OBVIOUS
  <2>4. cost \in [U -> Costs(d)]
    BY <2>2, <2>3
  <2>5. PICK u \in U : \A w \in U : ~Cheaper(cost[w], cost[u])
    BY <2>2, <2>4, Cheapest
  <2>6. \A w \in U : ~Cheaper(w.cost, u.cost)
    BY <2>3, <2>5
  <2>7. u \in out /\ u.key = t.key /\ u.cost \in Costs(d) /\ t.cost \in Costs(d)
    BY <2>1
  <2>8. ~\E w \in out : w.key = u.key /\ Cheaper(w.cost, u.cost)
    BY <2>1, <2>6, <2>7
  <2>9. ASSUME u.key \in DOMAIN s.best PROVE Cheaper(price(u), s.best[u.key])
    <3>1. PICK x : x = s.best[t.key]
      OBVIOUS
    <3>2. x \in Costs(d) /\ Cheaper(price(t), x)
      BY <1>14, <2>7, <2>9, <3>1
    <3>3. AtMost(u.cost, t.cost)
      BY <2>2, <2>6 DEF AtMost
    <3>4. ~Cheaper(price(t), price(u))
      BY <2>7, <3>3, OnTop DEF AtMost
    <3>5. Cheaper(price(u), x)
      <4>1. AtMost(price(u), price(t))
        BY <3>4 DEF AtMost
      <4>2. price(u) \in Costs(d) /\ price(t) \in Costs(d)
        BY <1>13, <2>7
      <4> HIDE DEF price
      <4> QED
        BY <3>2, <4>1, <4>2, Chained
    <3> QED
      BY <2>7, <3>1, <3>5
  <2>10. u.key \notin s.settled
    BY <1>14, <2>7
  <2>11. u \in better
    <3> HIDE DEF price
    <3> QED
      BY <2>7, <2>8, <2>9, <2>10
  <2> HIDE DEF better
  <2> QED
    BY <2>7, <2>11
<1>15. \A k \in keys : k \notin s.settled /\ price(chosen(k)) \in Costs(d) /\ \E t \in out : t.key = k
  <2>1. ASSUME NEW k \in keys PROVE k \notin s.settled /\ price(chosen(k)) \in Costs(d) /\ \E t \in out : t.key = k
    <3>1. PICK t \in better : t = chosen(k) /\ t.key = k
      <4> HIDE DEF better, chosen
      <4> QED
        BY <1>2
    <3>2. t \in out /\ t.key \notin s.settled
      OBVIOUS
    <3>3. price(t) \in Costs(d)
      BY <1>13, <3>2
    <3> HIDE DEF price, better, chosen
    <3> QED
      BY <3>1, <3>2, <3>3
  <2> HIDE DEF keys, price, chosen
  <2> QED
    BY <2>1
<1>16. ASSUME NEW k \in DOMAIN s.best PROVE AtMost(r.best[k], s.best[k])
  <2>1. CASE k \notin keys
    <3> HIDE DEF r, keys
    <3> QED
      BY <1>8, <2>1, NotCheaper DEF AtMost
  <2>2. CASE k \in keys
    <3>1. PICK t \in better : t = chosen(k) /\ t.key = k
      <4> HIDE DEF better, chosen
      <4> QED
        BY <1>2, <2>2
    <3>2. Cheaper(price(t), s.best[k])
      BY <1>16, <3>1
    <3>3. ~Cheaper(s.best[k], price(t))
      <4>1. price(t) \in Costs(d)
        BY <1>13
      <4> HIDE DEF price
      <4> QED
        BY <3>2, <4>1, CheaperYet, NotCheaper
    <3> HIDE DEF r, keys, price, chosen, better
    <3> QED
      BY <1>8, <2>2, <3>1, <3>3 DEF AtMost
  <2> QED
    BY <2>1, <2>2
<1>17. ASSUME NEW t \in out, t.key \notin s.settled PROVE AtMost(r.best[t.key], price(t)) /\ t.key \in DOMAIN r.best
  <2>1. CASE t.key \in keys
    <3>1. PICK u \in better : u = chosen(t.key) /\ u.key = t.key
      <4> HIDE DEF better, chosen
      <4> QED
        BY <1>2, <2>1
    <3>2. u.cost \in Costs(d) /\ t.cost \in Costs(d) /\ ~Cheaper(t.cost, u.cost)
      BY <3>1
    <3>3. ~Cheaper(price(t), price(u))
      BY <3>2, OnTop
    <3> HIDE DEF r, keys, price, chosen, better
    <3> QED
      BY <1>8, <2>1, <3>1, <3>3 DEF AtMost
  <2>2. CASE t.key \notin keys
    <3>1. t.key \in DOMAIN s.best /\ ~Cheaper(price(t), s.best[t.key])
      BY <1>14, <1>17, <2>2
    <3> HIDE DEF r, keys, price
    <3> QED
      BY <1>8, <2>2, <3>1 DEF AtMost
  <2> QED
    BY <2>1, <2>2
<1>18. ASSUME NEW k \in DOMAIN r.best
       PROVE  \/ k \in DOMAIN s.best /\ r.best[k] = s.best[k]
              \/ \E f \in r.frontier : f.key = k /\ f.cost = r.best[k]
  <2>1. CASE k \in keys
    <3>1. PICK f \in new : f.key = k /\ f.cost = price(chosen(k))
      BY <1>12, <2>1
    <3> HIDE DEF r, keys, price, chosen, new
    <3> QED
      BY <1>6, <1>8, <2>1, <3>1
  <2>2. CASE k \notin keys
    <3> HIDE DEF r, keys
    <3> QED
      BY <1>8, <2>2
  <2> QED
    BY <2>1, <2>2
<1>19. ASSUME NEW f \in r.frontier, f \notin s.frontier
       PROVE  (\E t \in out : f = Child(e, t)) /\ AtMost(r.best[f.key], f.cost)
  <2>1. f \in new
    <3> HIDE DEF r, new
    <3> QED
      BY <1>6, <1>19, Zenon
  <2>2. PICK t \in better : f = Child(e, t) /\ t.key \in keys /\ t = chosen(t.key)
    BY <1>11, <2>1
  <2>3. t \in out /\ t.key \notin s.settled
    BY Zenon
  <2>4. f.key = t.key /\ f.cost = price(t)
    BY <2>2 DEF Child
  <2>5. AtMost(r.best[t.key], price(t))
    BY <1>17, <2>3
  <2> HIDE DEF r, price, better, chosen, keys
  <2> QED
    BY <2>2, <2>3, <2>4, <2>5
<1>20. Grown(s, r, e, out)
  <2>1. DOMAIN r.best \subseteq DOMAIN s.best \cup {t.key : t \in out}
    <3> HIDE DEF r, keys, price, chosen
    <3> QED
      BY <1>8, <1>15
  <2>2. \A t \in out : t.key \in s.settled \cup DOMAIN r.best
    <3> HIDE DEF r, price
    <3> QED
      BY <1>17, Zenon
  <2>3. DOMAIN s.best \subseteq DOMAIN r.best /\ s.frontier \subseteq r.frontier
    <3> HIDE DEF r, keys, new
    <3> QED
      BY <1>6, <1>8, Zenon
  <2> HIDE DEF r, keys, price, chosen, new, named, better
  <2> QED
    BY <1>6, <1>9, <1>10, <1>19, <2>1, <2>2, <2>3 DEF Grown
<1>21. Cheapened(s, r, e, out, d)
  <2>1. \A k \in DOMAIN r.best : r.best[k] \in Costs(d)
    <3> HIDE DEF r, keys, price, chosen
    <3> QED
      BY <1>8, <1>15
  <2>2. \A k \in DOMAIN s.best : k \in s.settled => r.best[k] = s.best[k]
    <3> HIDE DEF r, keys, price, chosen
    <3> QED
      BY <1>8, <1>15
  <2>3. \A t \in out : t.key \notin s.settled => AtMost(r.best[t.key], AddCosts(e.cost, t.cost))
    BY <1>17
  <2> HIDE DEF r, keys, price, chosen, new, better
  <2> QED
    BY <1>16, <1>18, <1>19, <2>1, <2>2, <2>3 DEF Cheapened
<1> QED
  BY <1>20, <1>21

-----------------------------------------------------------------------------
(* What a search knows.                                                     *)

\* What the caller of a search gives it: finitely many ways on from each state.
Graph(g) ==
    /\ g.dims \in Nat /\ g.start \in g.states
    /\ \A v \in g.states :
          /\ IsFiniteSet(g.moves[v])
          /\ \A t \in g.moves[v] : t.to \in g.states /\ t.key = g.key[t.to] /\ t.cost \in Costs(g.dims)

OneKey(g) == \A v, w \in g.states : g.key[v] = g.key[w] => v = w

\* Keys are those of the states they stand for.
Typed(s, g) ==
    /\ IsSearch(s) /\ DOMAIN s.best = DOMAIN s.prints /\ s.settled \subseteq DOMAIN s.best
    /\ \A k \in DOMAIN s.best :
          s.best[k] \in Costs(g.dims) /\ s.prints[k] \in g.states /\ g.key[s.prints[k]] = k

Queued(s, g) ==
    \A e \in s.frontier : /\ e.key \in DOMAIN s.best /\ e.cost \in Costs(g.dims)
                          /\ e.state = s.prints[e.key] /\ AtMost(s.best[e.key], e.cost)

\* What is not settled waits in the queue at its best cost.
Waiting(s) == \A k \in DOMAIN s.best \ s.settled : \E e \in s.frontier : e.key = k /\ e.cost = s.best[k]

\* Nothing in the queue is cheaper than what is settled.
SettledFirst(s) == \A k \in s.settled : \A e \in s.frontier : AtMost(s.best[k], e.cost)

Started(s, g) ==
    /\ g.key[g.start] \in DOMAIN s.best /\ s.prints[g.key[g.start]] = g.start
    /\ AtMost(s.best[g.key[g.start]], Free(g.dims))

\* From what is settled every way on is known, at no more than it costs.
Expanded(s, g) ==
    \A k \in s.settled :
        /\ s.prints[k] \notin g.goals
        /\ \A t \in g.moves[s.prints[k]] :
              /\ t.key \in DOMAIN s.best /\ s.prints[t.key] = t.to
              /\ AtMost(s.best[t.key], AddCosts(s.best[k], t.cost))

Sound(s, g) ==
    Typed(s, g) /\ Queued(s, g) /\ Waiting(s) /\ SettledFirst(s) /\ Started(s, g) /\ Expanded(s, g)

\* Where no two states share a key, transitions to one key lead to one state.
LEMMA NoClash ==
    ASSUME NEW s, NEW out, ~Collides(s, out), NEW t \in out
    PROVE  /\ \A u \in out : u.key = t.key => u.to = t.to
           /\ t.key \in DOMAIN s.prints => s.prints[t.key] = t.to
<1>1. PICK S : S = {<<u.key, u.to>> : u \in out} \cup {<<k, s.prints[k]>> : k \in DOMAIN s.prints}
  OBVIOUS
<1>2. \A a, b \in S : a[1] = b[1] => a[2] = b[2]
  BY <1>1 DEF Collides
<1>3. ASSUME NEW u \in out, u.key = t.key PROVE u.to = t.to
  <2>1. <<u.key, u.to>> \in S /\ <<t.key, t.to>> \in S
    BY <1>1
  <2> QED
    BY <1>2, <1>3, <2>1
<1>4. ASSUME t.key \in DOMAIN s.prints PROVE s.prints[t.key] = t.to
  <2>1. <<t.key, s.prints[t.key]>> \in S /\ <<t.key, t.to>> \in S
    BY <1>1, <1>4
  <2> QED
    BY <1>2, <2>1
<1> QED
  BY <1>3, <1>4

\* An entry that was overtaken can be forgotten.
LEMMA Dropped ==
    ASSUME NEW g, NEW s, Sound(s, g), NEW e \in s.frontier, Stale(s, e),
           NEW r, IsSearch(r), r.frontier = s.frontier \ {e}, r.best = s.best, r.prints = s.prints,
           r.settled = s.settled, Graph(g)
    PROVE  Sound(r, g)
<1>1. Typed(r, g) /\ Queued(r, g) /\ SettledFirst(r) /\ Started(r, g) /\ Expanded(r, g)
  BY DEF Sound, Typed, Queued, SettledFirst, Started, Expanded
<1>2. Waiting(r)
  <2>1. ASSUME NEW k \in DOMAIN r.best \ r.settled PROVE \E f \in r.frontier : f.key = k /\ f.cost = r.best[k]
    <3>1. PICK f \in s.frontier : f.key = k /\ f.cost = s.best[k]
      BY DEF Sound, Waiting
    <3>2. f # e
      <4>1. s.best[k] \in Costs(g.dims) /\ g.dims \in Nat
        BY DEF Sound, Typed, Graph
      <4> QED
        BY <3>1, <4>1, NotCheaper DEF Stale
    <3> QED
      BY <3>1, <3>2
  <2> QED
    BY <2>1 DEF Waiting
<1> QED
  BY <1>1, <1>2 DEF Sound

\* The cheapest entry is settled and its ways on are queued.
LEMMA SettledStays ==
    ASSUME NEW g, Graph(g), NEW s, Sound(s, g), NEW e \in NextInQueue(s), ~Stale(s, e),
           e.state \notin g.goals, OneKey(g) \/ ~Collides(s, g.moves[e.state]),
           NEW h, IsSearch(h), h.frontier = s.frontier \ {e}, h.best = s.best, h.prints = s.prints,
           h.settled = s.settled \cup {e.key}
    PROVE  LET r == Relax(h, e, g.moves[e.state])
           IN  Sound(r, g) /\ \A f \in r.frontier : f \in s.frontier \/ \E t \in g.moves[e.state] : f = Child(e, t)
<1>1. PICK out : out = g.moves[e.state]
  OBVIOUS
<1>2. PICK r : r = Relax(h, e, out)
  OBVIOUS
<1>3. PICK d \in Nat : d = g.dims
  BY DEF Graph
<1>4. e \in s.frontier /\ \A f \in s.frontier : AtMost(e.cost, f.cost)
  BY DEF NextInQueue, AtMost
<1>5. /\ e.key \in DOMAIN s.best /\ e.cost \in Costs(d) /\ e.state = s.prints[e.key] /\ e.state \in g.states
      /\ s.best[e.key] \in Costs(d) /\ AtMost(s.best[e.key], e.cost)
  BY <1>3, <1>4 DEF Sound, Queued, Typed
<1>6. e.key \notin s.settled /\ s.best[e.key] = e.cost
  <2>1. ~Cheaper(s.best[e.key], e.cost) /\ ~Cheaper(e.cost, s.best[e.key])
    BY <1>5 DEF Stale, AtMost
  <2> QED
    BY <1>5, <2>1, Compares DEF Stale
<1>7. IsFiniteSet(out) /\ \A t \in out : t.to \in g.states /\ t.key = g.key[t.to] /\ t.cost \in Costs(d)
  BY <1>1, <1>3, <1>5 DEF Graph
<1>8. \A k \in DOMAIN s.best : s.best[k] \in Costs(d) /\ s.prints[k] \in g.states /\ g.key[s.prints[k]] = k
  BY <1>3 DEF Sound, Typed
<1>9. s.settled \subseteq DOMAIN s.best /\ DOMAIN s.best = DOMAIN s.prints
  BY DEF Sound, Typed
<1>10. Grown(h, r, e, out) /\ Cheapened(h, r, e, out, d)
  <2>1. h.settled \subseteq DOMAIN h.best
    BY <1>5, <1>9
  <2>2. \A k \in DOMAIN h.best : h.best[k] \in Costs(d)
    BY <1>8
  <2> QED
    BY <1>2, <1>5, <1>7, <2>1, <2>2, Relaxed
<1>11. /\ IsSearch(r) /\ r.settled = s.settled \cup {e.key}
       /\ DOMAIN s.best \subseteq DOMAIN r.best
       /\ DOMAIN r.best \subseteq DOMAIN s.best \cup {t.key : t \in out}
       /\ \A t \in out : t.key \in s.settled \cup {e.key} \cup DOMAIN r.best
       /\ DOMAIN r.prints = DOMAIN s.prints \cup {t.key : t \in out}
       /\ \A k \in DOMAIN s.prints : r.prints[k] = s.prints[k]
       /\ \A k \in DOMAIN r.prints : k \in DOMAIN s.prints \/ \E t \in out : t.key = k /\ r.prints[k] = t.to
       /\ s.frontier \ {e} \subseteq r.frontier
       /\ \A f \in r.frontier : f \in s.frontier \/ \E t \in out : f = Child(e, t)
  BY <1>10 DEF Grown
<1>12. /\ \A k \in DOMAIN r.best : r.best[k] \in Costs(d)
       /\ \A k \in DOMAIN s.best : AtMost(r.best[k], s.best[k])
       /\ \A k \in DOMAIN s.best : k \in s.settled \cup {e.key} => r.best[k] = s.best[k]
       /\ \A t \in out : t.key \notin s.settled \cup {e.key} => AtMost(r.best[t.key], AddCosts(e.cost, t.cost))
       /\ \A k \in DOMAIN r.best : \/ k \in DOMAIN s.best /\ r.best[k] = s.best[k]
                                   \/ \E f \in r.frontier : f.key = k /\ f.cost = r.best[k]
       /\ \A f \in r.frontier : f \in s.frontier \ {e} \/ AtMost(r.best[f.key], f.cost)
  BY <1>10 DEF Cheapened
<1>13. DOMAIN r.best = DOMAIN r.prints
  BY <1>5, <1>9, <1>11
<1>14. Typed(r, g)
  <2>1. ASSUME NEW k \in DOMAIN r.best PROVE r.prints[k] \in g.states /\ g.key[r.prints[k]] = k
    <3>1. CASE k \in DOMAIN s.prints
      BY <1>8, <1>9, <1>11, <3>1
    <3>2. CASE k \notin DOMAIN s.prints
      BY <1>7, <1>11, <1>13, <3>2
    <3> QED
      BY <3>1, <3>2
  <2>2. r.settled \subseteq DOMAIN r.best
    BY <1>5, <1>9, <1>11
  <2> QED
    BY <1>3, <1>11, <1>12, <1>13, <2>1, <2>2 DEF Typed
<1>15. ASSUME NEW t \in out PROVE t.key \in DOMAIN r.best /\ r.prints[t.key] = t.to
  <2>1. t.key \in DOMAIN r.best
    BY <1>5, <1>9, <1>11
  <2>2. CASE OneKey(g)
    <3>1. r.prints[t.key] \in g.states /\ g.key[r.prints[t.key]] = t.key
      BY <1>14, <2>1 DEF Typed
    <3> QED
      BY <1>7, <2>1, <2>2, <3>1 DEF OneKey
  <2>3. CASE ~Collides(s, out)
    <3>1. /\ \A u \in out : u.key = t.key => u.to = t.to
          /\ t.key \in DOMAIN s.prints => s.prints[t.key] = t.to
      BY <2>3, NoClash
    <3>2. t.key \in DOMAIN r.prints
      BY <1>11
    <3> QED
      BY <1>11, <2>1, <3>1, <3>2
  <2> QED
    BY <1>1, <2>2, <2>3
<1>16. Queued(r, g)
  <2>1. ASSUME NEW f \in r.frontier
        PROVE  /\ f.key \in DOMAIN r.best /\ f.cost \in Costs(d)
               /\ f.state = r.prints[f.key] /\ AtMost(r.best[f.key], f.cost)
    <3>1. CASE f \in s.frontier
      <4>1. /\ f.key \in DOMAIN s.best /\ f.cost \in Costs(d)
            /\ f.state = s.prints[f.key] /\ AtMost(s.best[f.key], f.cost)
        BY <1>3, <3>1 DEF Sound, Queued
      <4>2. f.key \in DOMAIN r.best /\ r.prints[f.key] = s.prints[f.key]
        BY <1>9, <1>11, <4>1
      <4>3. AtMost(r.best[f.key], s.best[f.key]) /\ r.best[f.key] \in Costs(d) /\ s.best[f.key] \in Costs(d)
        BY <1>8, <1>12, <4>1, <4>2
      <4>4. AtMost(r.best[f.key], f.cost)
        BY <4>1, <4>3, Chained
      <4> QED
        BY <4>1, <4>2, <4>4
    <3>2. CASE f \notin s.frontier
      <4>1. PICK t \in out : f = Child(e, t)
        BY <1>11, <3>2
      <4>2. f.key = t.key /\ f.state = t.to /\ f.cost = AddCosts(e.cost, t.cost)
        BY <4>1 DEF Child
      <4>3. f.cost \in Costs(d)
        BY <1>5, <1>7, <4>2, CostsAdd
      <4> QED
        BY <1>12, <1>15, <3>2, <4>2, <4>3
    <3> QED
      BY <3>1, <3>2
  <2> QED
    BY <1>3, <2>1 DEF Queued
<1>17. Waiting(r)
  <2>1. ASSUME NEW k \in DOMAIN r.best \ r.settled PROVE \E f \in r.frontier : f.key = k /\ f.cost = r.best[k]
    <3>1. CASE k \in DOMAIN s.best /\ r.best[k] = s.best[k]
      <4>1. k \notin s.settled /\ k # e.key
        BY <1>11
      <4>2. PICK f \in s.frontier : f.key = k /\ f.cost = s.best[k]
        BY <3>1, <4>1 DEF Sound, Waiting
      <4>3. f \in r.frontier
        BY <1>11, <4>1, <4>2
      <4> QED
        BY <3>1, <4>2, <4>3
    <3> QED
      BY <1>12, <3>1
  <2> QED
    BY <2>1 DEF Waiting
<1>18. \A k \in r.settled : k \in DOMAIN s.best /\ r.best[k] = s.best[k] /\ AtMost(s.best[k], e.cost)
  <2>1. \A k \in s.settled : AtMost(s.best[k], e.cost)
    BY <1>4 DEF Sound, SettledFirst
  <2> QED
    BY <1>5, <1>9, <1>11, <1>12, <2>1
<1>19. SettledFirst(r)
  <2>1. ASSUME NEW k \in r.settled, NEW f \in r.frontier PROVE AtMost(r.best[k], f.cost)
    <3>1. f.cost \in Costs(d) /\ r.best[k] \in Costs(d) /\ r.best[k] = s.best[k] /\ AtMost(r.best[k], e.cost)
      BY <1>3, <1>8, <1>16, <1>18 DEF Queued
    <3>2. AtMost(e.cost, f.cost)
      <4>1. CASE f \in s.frontier
        BY <1>4, <4>1
      <4>2. CASE f \notin s.frontier
        <5>1. PICK t \in out : f = Child(e, t)
          BY <1>11, <4>2
        <5>2. f.cost = AddCosts(e.cost, t.cost) /\ t.cost \in Costs(d)
          BY <1>7, <5>1 DEF Child
        <5> QED
          BY <1>5, <5>2, OnTop
      <4> QED
        BY <4>1, <4>2
    <3> QED
      BY <1>5, <3>1, <3>2, Chained
  <2> QED
    BY <2>1 DEF SettledFirst
<1>20. Started(r, g)
  <2>1. PICK k : k = g.key[g.start]
    OBVIOUS
  <2>2. k \in DOMAIN s.best /\ s.prints[k] = g.start /\ AtMost(s.best[k], Free(d))
    BY <1>3, <2>1 DEF Sound, Started
  <2>3. k \in DOMAIN r.best /\ r.prints[k] = g.start /\ AtMost(r.best[k], s.best[k])
    BY <1>9, <1>11, <1>12, <2>2
  <2>4. r.best[k] \in Costs(d) /\ s.best[k] \in Costs(d) /\ Free(d) \in Costs(d)
    BY <1>8, <1>12, <2>2, <2>3, FreeTyped
  <2>5. AtMost(r.best[k], Free(d))
    BY <2>2, <2>3, <2>4, Chained
  <2> QED
    BY <1>3, <2>1, <2>3, <2>5 DEF Started
<1>21. Expanded(r, g)
  <2>1. ASSUME NEW k \in r.settled, k # e.key
        PROVE  /\ r.prints[k] \notin g.goals
               /\ \A t \in g.moves[r.prints[k]] : /\ t.key \in DOMAIN r.best /\ r.prints[t.key] = t.to
                                                  /\ AtMost(r.best[t.key], AddCosts(r.best[k], t.cost))
    <3>1. k \in s.settled /\ r.prints[k] = s.prints[k] /\ r.best[k] = s.best[k] /\ s.best[k] \in Costs(d)
      BY <1>8, <1>9, <1>11, <1>18, <2>1
    <3>2. s.prints[k] \notin g.goals
      BY <3>1 DEF Sound, Expanded
    <3>3. ASSUME NEW t \in g.moves[s.prints[k]]
          PROVE  /\ t.key \in DOMAIN r.best /\ r.prints[t.key] = t.to
                 /\ AtMost(r.best[t.key], AddCosts(s.best[k], t.cost))
      <4>1. t.key \in DOMAIN s.best /\ s.prints[t.key] = t.to /\ AtMost(s.best[t.key], AddCosts(s.best[k], t.cost))
        BY <3>1 DEF Sound, Expanded
      <4>2. t.key \in DOMAIN r.best /\ r.prints[t.key] = t.to /\ AtMost(r.best[t.key], s.best[t.key])
        BY <1>9, <1>11, <1>12, <4>1
      <4>3. t.cost \in Costs(d)
        BY <1>3, <1>8, <1>9, <3>1 DEF Graph
      <4>4. PICK c \in Costs(d) : c = AddCosts(s.best[k], t.cost)
        BY <3>1, <4>3, CostsAdd
      <4>5. r.best[t.key] \in Costs(d) /\ s.best[t.key] \in Costs(d)
        BY <1>8, <1>12, <4>1, <4>2
      <4>6. AtMost(r.best[t.key], c)
        BY <4>1, <4>2, <4>4, <4>5, Chained
      <4> QED
        BY <4>2, <4>4, <4>6
    <3> QED
      BY <3>1, <3>2, <3>3
  <2>2. r.prints[e.key] = e.state /\ r.best[e.key] = e.cost
    BY <1>5, <1>6, <1>9, <1>11, <1>12
  <2>3. ASSUME NEW t \in out PROVE AtMost(r.best[t.key], AddCosts(e.cost, t.cost))
    <3>1. CASE t.key \notin r.settled
      BY <1>11, <1>12, <3>1
    <3>2. CASE t.key \in r.settled
      <4>1. AtMost(r.best[t.key], e.cost) /\ r.best[t.key] \in Costs(d)
        BY <1>8, <1>18, <3>2
      <4>2. AtMost(e.cost, AddCosts(e.cost, t.cost)) /\ AddCosts(e.cost, t.cost) \in Costs(d)
        BY <1>5, <1>7, OnTop, CostsAdd
      <4> QED
        BY <1>5, <4>1, <4>2, Chained
    <3> QED
      BY <3>1, <3>2
  <2> QED
    BY <1>1, <1>15, <2>1, <2>2, <2>3 DEF Expanded
<1>22. Sound(r, g)
  BY <1>14, <1>16, <1>17, <1>19, <1>20, <1>21 DEF Sound
<1> QED
  BY <1>1, <1>2, <1>11, <1>22

\* A search that starts is sound: it has its start in the queue, for nothing.
LEMMA StartSound ==
    ASSUME NEW g, Graph(g)
    PROVE  LET s == StartSearch(g.start, g.key[g.start], g.dims)
           IN  /\ Sound(s, g) /\ s.status = "SEARCHING"
               /\ s.frontier = {[state |-> g.start, key |-> g.key[g.start], cost |-> Free(g.dims), path |-> <<>>]}
<1>1. PICK s : s = StartSearch(g.start, g.key[g.start], g.dims)
  OBVIOUS
<1>2. PICK k : k = g.key[g.start]
  OBVIOUS
<1>3. PICK d \in Nat : d = g.dims
  BY DEF Graph
<1>4. PICK c \in Costs(d) : c = Free(d)
  BY FreeTyped
<1>5. PICK e : e = [state |-> g.start, key |-> k, cost |-> c, path |-> <<>>]
  OBVIOUS
<1>6. s = [frontier |-> {e}, best |-> [x \in {k} |-> c], settled |-> {}, prints |-> [x \in {k} |-> g.start],
           found |-> None, status |-> "SEARCHING"]
  BY <1>1, <1>2, <1>3, <1>4, <1>5 DEF StartSearch
<1>7. /\ IsSearch(s) /\ s.settled = {} /\ s.frontier = {e} /\ s.status = "SEARCHING"
      /\ DOMAIN s.best = {k} /\ DOMAIN s.prints = {k} /\ s.best[k] = c /\ s.prints[k] = g.start
  BY <1>6 DEF IsSearch
<1>8. ~Cheaper(c, c)
  BY NotCheaper
<1>9. Typed(s, g)
  BY <1>2, <1>3, <1>7 DEF Typed, Graph
<1>10. Queued(s, g)
  BY <1>3, <1>5, <1>7, <1>8 DEF Queued, AtMost
<1>11. Waiting(s) /\ SettledFirst(s) /\ Expanded(s, g)
  BY <1>5, <1>7 DEF Waiting, SettledFirst, Expanded
<1>12. Started(s, g)
  BY <1>2, <1>3, <1>4, <1>7, <1>8 DEF Started, AtMost
<1>13. Sound(s, g)
  BY <1>9, <1>10, <1>11, <1>12 DEF Sound
<1> QED
  BY <1>1, <1>2, <1>3, <1>4, <1>5, <1>7, <1>13

\* What one turn makes of a search.
Turn(s, r, e, g, throws, strict) ==
    /\ r.status \in {"SEARCHING", "UNREACHABLE", "REACHABLE", "LIMIT_REACHED", "ERROR"}
    /\ r.status \in {"SEARCHING", "UNREACHABLE"} =>
          /\ Sound(r, g)
          /\ \A f \in r.frontier : \/ f \in s.frontier
                                   \/ /\ ~throws /\ e.state \notin g.goals
                                      /\ \E t \in g.moves[e.state] : f = Child(e, t)
    /\ r.status = "UNREACHABLE" => r.frontier = {}
    /\ r.status = "REACHABLE" => r.found = e /\ e.state \in g.goals
    /\ r.status = "ERROR" => throws \/ (strict /\ Collides(s, g.moves[e.state]))

\* One turn of the loop of a search keeps it sound, ends it with an entry that is a goal and
\* was next in the queue, or ends it with an empty queue.
LEMMA Turned ==
    ASSUME NEW g, Graph(g), NEW s, Sound(s, g), s.status = "SEARCHING", NEW e \in NextInQueue(s),
           NEW out, out = g.moves[e.state], NEW goal \in BOOLEAN, goal <=> e.state \in g.goals,
           NEW throws \in BOOLEAN, NEW limit, NEW strict \in BOOLEAN, strict \/ OneKey(g)
    PROVE  Turn(s, Visit(s, e, out, goal, throws, limit, strict), e, g, throws, strict)
<1> DEFINE rest == [s EXCEPT !.frontier = @ \ {e}]
           here == [rest EXCEPT !.settled = @ \cup {e.key}]
           next == IF Stale(s, e) THEN rest
                   ELSE IF Cardinality(s.settled) >= limit THEN [rest EXCEPT !.status = "LIMIT_REACHED"]
                   ELSE IF goal THEN [here EXCEPT !.status = "REACHABLE", !.found = e]
                   ELSE IF throws \/ (strict /\ Collides(s, out)) THEN [here EXCEPT !.status = "ERROR"]
                   ELSE Relax(here, e, out)
<1> SUFFICES ASSUME NEW r, r = Visit(s, e, out, goal, throws, limit, strict)
             PROVE  Turn(s, r, e, g, throws, strict)
  OBVIOUS
<1>1. r = IF next.status = "SEARCHING" /\ next.frontier = {} THEN [next EXCEPT !.status = "UNREACHABLE"] ELSE next
  BY DEF Visit
<1>2. s = [frontier |-> s.frontier, best |-> s.best, settled |-> s.settled, prints |-> s.prints,
           found |-> s.found, status |-> s.status]
  BY DEF Sound, Typed, IsSearch
<1>3. /\ IsSearch(rest) /\ rest.frontier = s.frontier \ {e} /\ rest.best = s.best /\ rest.prints = s.prints
      /\ rest.settled = s.settled /\ rest.status = "SEARCHING"
  BY <1>2 DEF IsSearch
<1>4. /\ IsSearch(here) /\ here.frontier = s.frontier \ {e} /\ here.best = s.best /\ here.prints = s.prints
      /\ here.settled = s.settled \cup {e.key} /\ here.status = "SEARCHING" /\ here.found = s.found
  <2>1. PICK x : x = rest
    OBVIOUS
  <2>2. x = [frontier |-> x.frontier, best |-> x.best, settled |-> x.settled, prints |-> x.prints,
             found |-> x.found, status |-> x.status]
    BY <1>3, <2>1 DEF IsSearch
  <2>3. here = [x EXCEPT !.settled = @ \cup {e.key}]
    BY <2>1
  <2>4. here = [frontier |-> x.frontier, best |-> x.best, settled |-> x.settled \cup {e.key}, prints |-> x.prints,
                found |-> x.found, status |-> x.status]
    <3> HIDE DEF here
    <3> QED
      BY <2>2, <2>3
  <2>5. /\ IsSearch(here) /\ here.frontier = x.frontier /\ here.best = x.best /\ here.prints = x.prints
        /\ here.settled = x.settled \cup {e.key} /\ here.status = x.status /\ here.found = x.found
    <3> HIDE DEF here
    <3> QED
      BY <2>4 DEF IsSearch
  <2>6. x.found = s.found
    BY <1>2, <2>1
  <2> HIDE DEF here, rest
  <2> QED
    BY <1>3, <2>1, <2>5, <2>6
<1>5. e \in s.frontier
  BY DEF NextInQueue
\* A search that goes on, and then perhaps ends for want of entries.
<1>6. ASSUME IsSearch(next), next.status = "SEARCHING", Sound(next, g),
             \A f \in next.frontier : \/ f \in s.frontier
                                      \/ ~throws /\ e.state \notin g.goals /\ \E t \in out : f = Child(e, t)
      PROVE  Turn(s, r, e, g, throws, strict)
  <2> HIDE DEF next
  <2>1. CASE next.frontier = {}
    <3>1. PICK n : n = next
      OBVIOUS
    <3>2. n = [frontier |-> n.frontier, best |-> n.best, settled |-> n.settled, prints |-> n.prints,
               found |-> n.found, status |-> n.status]
      BY <1>6, <3>1 DEF IsSearch
    <3>3. r = [n EXCEPT !.status = "UNREACHABLE"]
      BY <1>1, <1>6, <2>1, <3>1
    <3>4. r = [frontier |-> n.frontier, best |-> n.best, settled |-> n.settled, prints |-> n.prints,
               found |-> n.found, status |-> "UNREACHABLE"]
      BY <3>2, <3>3
    <3>5. /\ IsSearch(r) /\ r.frontier = n.frontier /\ r.best = n.best /\ r.settled = n.settled
          /\ r.prints = n.prints /\ r.status = "UNREACHABLE"
      BY <3>4 DEF IsSearch
    <3>6. Sound(r, g)
      <4>1. Sound(n, g)
        BY <1>6, <3>1
      <4>2. Typed(r, g) /\ Queued(r, g) /\ Waiting(r)
        BY <3>5, <4>1 DEF Sound, Typed, Queued, Waiting
      <4>3. SettledFirst(n) /\ Started(n, g) /\ Expanded(n, g)
        BY <4>1 DEF Sound
      <4>4. SettledFirst(r)
        BY <3>5, <4>3 DEF SettledFirst
      <4>5. Started(r, g)
        BY <3>5, <4>3 DEF Started
      <4>6. Expanded(r, g)
        BY <3>5, <4>3 DEF Expanded
      <4> QED
        BY <4>2, <4>4, <4>5, <4>6 DEF Sound
    <3> QED
      BY <2>1, <3>1, <3>5, <3>6 DEF Turn
  <2>2. CASE next.frontier # {}
    <3>1. r = next
      BY <1>1, <2>2
    <3> QED
      BY <1>6, <3>1 DEF Turn
  <2> QED
    BY <2>1, <2>2
<1>7. CASE Stale(s, e)
  <2>1. next = rest
    BY <1>7
  <2>2. Sound(rest, g)
    <3> HIDE DEF rest
    <3> QED
      BY <1>3, <1>5, <1>7, Dropped
  <2> HIDE DEF rest, next
  <2> QED
    BY <1>3, <1>6, <2>1, <2>2
<1>8. CASE ~Stale(s, e) /\ Cardinality(s.settled) >= limit
  <2>1. next = [rest EXCEPT !.status = "LIMIT_REACHED"]
    BY <1>8
  <2>2. next.status = "LIMIT_REACHED"
    <3> HIDE DEF rest, next
    <3> QED
      BY <1>3, <2>1 DEF IsSearch
  <2>3. r = next
    <3> HIDE DEF next
    <3> QED
      BY <1>1, <2>2
  <2> HIDE DEF next
  <2> QED
    BY <2>2, <2>3 DEF Turn
<1>9. CASE ~Stale(s, e) /\ ~(Cardinality(s.settled) >= limit) /\ goal
  <2>1. next = [here EXCEPT !.status = "REACHABLE", !.found = e]
    BY <1>9
  <2>2. next.status = "REACHABLE" /\ next.found = e
    <3> HIDE DEF here, next
    <3> QED
      BY <1>4, <2>1 DEF IsSearch
  <2>3. r = next
    <3> HIDE DEF next
    <3> QED
      BY <1>1, <2>2
  <2> HIDE DEF next
  <2> QED
    BY <1>9, <2>2, <2>3 DEF Turn
<1>10. CASE /\ ~Stale(s, e) /\ ~(Cardinality(s.settled) >= limit) /\ ~goal
            /\ throws \/ (strict /\ Collides(s, out))
  <2>1. next = [here EXCEPT !.status = "ERROR"]
    BY <1>10
  <2>2. next.status = "ERROR"
    <3> HIDE DEF here, next
    <3> QED
      BY <1>4, <2>1 DEF IsSearch
  <2>3. r = next
    <3> HIDE DEF next
    <3> QED
      BY <1>1, <2>2
  <2> HIDE DEF next
  <2> QED
    BY <1>10, <2>2, <2>3 DEF Turn
<1>11. CASE /\ ~Stale(s, e) /\ ~(Cardinality(s.settled) >= limit) /\ ~goal
            /\ ~(throws \/ (strict /\ Collides(s, out)))
  <2>1. next = Relax(here, e, out)
    BY <1>11
  <2>2. OneKey(g) \/ ~Collides(s, out)
    BY <1>11
  <2>3. e.state \notin g.goals /\ ~throws
    BY <1>11
  <2>4. /\ Sound(next, g)
        /\ \A f \in next.frontier : f \in s.frontier \/ \E t \in out : f = Child(e, t)
    <3> HIDE DEF here, next
    <3> QED
      BY <1>4, <1>11, <2>1, <2>2, <2>3, SettledStays
  <2>5. next.status = "SEARCHING" /\ IsSearch(next)
    <3> HIDE DEF here
    <3>1. Relax(here, e, out).status = here.status
      <4> SUFFICES ASSUME NEW x, x = here PROVE Relax(x, e, out).status = x.status
        OBVIOUS
      <4>1. x = [frontier |-> x.frontier, best |-> x.best, settled |-> x.settled, prints |-> x.prints,
                 found |-> x.found, status |-> x.status]
        BY <1>4 DEF IsSearch
      <4> QED
        BY <4>1 DEF Relax
    <3> HIDE DEF next
    <3> QED
      BY <1>4, <2>1, <2>4, <3>1 DEF Sound, Typed
  <2> HIDE DEF here, next
  <2> QED
    BY <1>6, <2>3, <2>4, <2>5
<1> QED
  BY <1>7, <1>8, <1>9, <1>10, <1>11

-----------------------------------------------------------------------------
(* What a search has covered: a state that can be had for c is settled at   *)
(* no more, or something in the queue costs no more.                        *)

Covers(s, v, c) ==
    \/ \E k \in s.settled : s.prints[k] = v /\ AtMost(s.best[k], c)
    \/ \E e \in s.frontier : AtMost(e.cost, c)

\* A sound search covers the start.
LEMMA CoversStart ==
    ASSUME NEW g, Graph(g), NEW s, Sound(s, g)
    PROVE  Covers(s, g.start, Free(g.dims))
<1>1. PICK k : k = g.key[g.start]
  OBVIOUS
<1>2. k \in DOMAIN s.best /\ s.prints[k] = g.start /\ AtMost(s.best[k], Free(g.dims))
  BY <1>1 DEF Sound, Started
<1> QED
  BY <1>2 DEF Covers, Sound, Waiting

\* Whenever it covers a state it covers those that a transition leads to.
LEMMA CoversStep ==
    ASSUME NEW g, Graph(g), NEW s, Sound(s, g), NEW v \in g.states, NEW c \in Costs(g.dims), Covers(s, v, c),
           NEW t \in g.moves[v]
    PROVE  Covers(s, t.to, AddCosts(c, t.cost))
<1>1. PICK d \in Nat : d = g.dims
  BY DEF Graph
<1>2. t.cost \in Costs(d) /\ c \in Costs(d)
  BY <1>1 DEF Graph
<1>3. PICK n \in Costs(d) : n = AddCosts(c, t.cost) /\ AtMost(c, n)
  BY <1>2, CostsAdd, OnTop
<1>4. CASE \E e \in s.frontier : AtMost(e.cost, c)
  <2>1. PICK e \in s.frontier : AtMost(e.cost, c)
    BY <1>4
  <2>2. e.cost \in Costs(d)
    BY <1>1 DEF Sound, Queued
  <2>3. AtMost(e.cost, n)
    BY <1>2, <1>3, <2>1, <2>2, Chained
  <2> QED
    BY <1>3, <2>3 DEF Covers
<1>5. CASE \E k \in s.settled : s.prints[k] = v /\ AtMost(s.best[k], c)
  <2>1. PICK k \in s.settled : s.prints[k] = v /\ AtMost(s.best[k], c)
    BY <1>5
  <2>2. s.best[k] \in Costs(d)
    BY <1>1 DEF Sound, Typed
  <2>3. /\ t.key \in DOMAIN s.best /\ s.prints[t.key] = t.to
        /\ AtMost(s.best[t.key], AddCosts(s.best[k], t.cost))
    BY <2>1 DEF Sound, Expanded
  <2>4. PICK m \in Costs(d) : m = AddCosts(s.best[k], t.cost)
    BY <1>2, <2>2, CostsAdd
  <2>5. AtMost(m, n)
    BY <1>2, <1>3, <2>1, <2>2, <2>4, OnTop DEF AtMost
  <2>6. s.best[t.key] \in Costs(d)
    BY <1>1, <2>3 DEF Sound, Typed
  <2>7. AtMost(s.best[t.key], n)
    BY <2>3, <2>4, <2>5, <2>6, Chained
  <2>8. CASE t.key \in s.settled
    BY <1>3, <2>3, <2>7, <2>8 DEF Covers
  <2>9. CASE t.key \notin s.settled
    <3>1. PICK e \in s.frontier : e.key = t.key /\ e.cost = s.best[t.key]
      BY <2>3, <2>9 DEF Sound, Waiting
    <3> QED
      BY <1>3, <2>7, <3>1 DEF Covers
  <2> QED
    BY <2>8, <2>9
<1> QED
  BY <1>4, <1>5 DEF Covers

\* So the cheapest entry is no dearer than any way to a goal, and with an empty queue there is none.
LEMMA CoversGoal ==
    ASSUME NEW g, Graph(g), NEW s, Sound(s, g), NEW v \in g.goals, NEW c \in Costs(g.dims), Covers(s, v, c)
    PROVE  s.frontier # {} /\ \A e \in NextInQueue(s) : ~Cheaper(c, e.cost)
<1>1. PICK d \in Nat : d = g.dims
  BY DEF Graph
<1>2. PICK f \in s.frontier : AtMost(f.cost, c)
  BY DEF Covers, Sound, Expanded
<1>3. ASSUME NEW e \in NextInQueue(s) PROVE AtMost(e.cost, c)
  <2>1. e \in s.frontier /\ AtMost(e.cost, f.cost)
    BY <1>2 DEF NextInQueue, AtMost
  <2>2. e.cost \in Costs(d) /\ f.cost \in Costs(d)
    BY <1>1, <1>2, <2>1 DEF Sound, Queued
  <2> QED
    BY <1>1, <1>2, <2>1, <2>2, Chained
<1> QED
  BY <1>2, <1>3 DEF AtMost

\* F is what comes of a when the step h is repeated; and p is that as far as n, as long as it
\* makes sense.
Orbit(F, X, a, h) == F \in [Nat -> X] /\ F[0] = a /\ \A n \in Nat : F[n + 1] = h[F[n]]

Stepwise(p, n, X, a, h) == p[0] = a /\ \A k \in 1 .. n : p[k - 1] \in X => p[k] = h[p[k - 1]]

\* A step can be repeated for ever.
LEMMA Repeated ==
    ASSUME NEW X, NEW a \in X, NEW h \in [X -> X]
    PROVE  \E F : Orbit(F, X, a, h)
<1> DEFINE step(n) == [i \in 1 .. n |-> h]
           Runs(n, p) == Computes(p, n, X, a, step(n))
<1>1. ASSUME NEW n \in Nat PROVE \E p : Runs(n, p)
  <2>1. step(n) \in [1 .. n -> [X -> X]]
    OBVIOUS
  <2> HIDE DEF step
  <2> QED
    BY <2>1, Iterates
<1>2. ASSUME NEW n \in Nat, NEW p, Runs(n, p)
      PROVE  p \in [0 .. n -> X] /\ p[0] = a /\ \A i \in 1 .. n : p[i] = h[p[i - 1]]
  BY <1>2 DEF Computes
<1>3. ASSUME NEW n \in Nat, NEW m \in Nat, n <= m, NEW p, Runs(n, p), NEW q, Runs(m, q)
      PROVE  p[n] = q[n]
  <2> DEFINE S == {i \in 0 .. n : p[i] = q[i]}
  <2>1. 0 \in S
    BY <1>2, <1>3
  <2>2. ASSUME NEW i \in 1 .. n, i - 1 \in S PROVE i \in S
    <3>1. i \in 1 .. m
      BY <1>3
    <3>2. p[i] = h[p[i - 1]] /\ q[i] = h[q[i - 1]]
      BY <1>2, <1>3, <3>1
    <3> QED
      BY <2>2, <3>2
  <2>3. n \in S
    <3>1. 0 .. n \subseteq S
      <4> HIDE DEF S
      <4> QED
        BY <2>1, <2>2, Throughout
    <3> QED
      BY <3>1
  <2> QED
    BY <2>3
<1> DEFINE run(n) == CHOOSE p : Runs(n, p)
           F == [n \in Nat |-> run(n)[n]]
<1>4. ASSUME NEW n \in Nat PROVE Runs(n, run(n))
  BY <1>1
<1> HIDE DEF Runs, run
<1>5. F \in [Nat -> X]
  BY <1>2, <1>4
<1>6. F[0] = a
  BY <1>2, <1>4
<1>7. ASSUME NEW n \in Nat PROVE F[n + 1] = h[F[n]]
  <2>1. n + 1 \in Nat /\ n + 1 \in 1 .. (n + 1) /\ (n + 1) - 1 = n /\ n <= n + 1
    OBVIOUS
  <2>2. run(n + 1)[n + 1] = h[run(n + 1)[n]]
    BY <1>2, <1>4, <2>1
  <2>3. run(n)[n] = run(n + 1)[n]
    BY <1>3, <1>4, <2>1
  <2> QED
    BY <2>1, <2>2, <2>3
<1> HIDE DEF F
<1> QED
  BY <1>5, <1>6, <1>7 DEF Orbit

\* Whatever repeats the step does what F does.
LEMMA Unfolds ==
    ASSUME NEW X, NEW a, NEW h, NEW F, Orbit(F, X, a, h),
           NEW n \in Nat, NEW p, Stepwise(p, n, X, a, h)
    PROVE  \A k \in 0 .. n : p[k] = F[k]
<1> DEFINE S == {k \in 0 .. n : p[k] = F[k]}
<1>1. 0 \in S
  BY DEF Orbit, Stepwise
<1>2. ASSUME NEW k \in 1 .. n, k - 1 \in S PROVE k \in S
  <2>1. k - 1 \in Nat /\ (k - 1) + 1 = k
    OBVIOUS
  <2>2. F[k - 1] \in X /\ F[k] = h[F[k - 1]]
    BY <2>1 DEF Orbit
  <2> QED
    BY <1>2, <2>2 DEF Stepwise
<1>3. 0 .. n \subseteq S
  <2> HIDE DEF S
  <2> QED
    BY <1>1, <1>2, Throughout
<1> QED
  BY <1>3

-----------------------------------------------------------------------------
(* What-ifs: the graphs of the two passes.                                  *)

\* An image of a finite set is finite.
LEMMA ImageFinite ==
    ASSUME NEW S, IsFiniteSet(S), NEW f
    PROVE  IsFiniteSet({f[x] : x \in S})
<1>1. PICK h : h = [x \in S |-> f[x]]
  OBVIOUS
<1>2. h \in Surjection(S, {f[x] : x \in S})
  BY <1>1 DEF Surjection
<1> QED
  BY <1>2, FS_Surjection

Nodes == {job.start} \cup {x.to : x \in job.edges}
Comps == UNION {x.down \cup x.up : x \in job.edges}
Products == {Product(s[1], s[2], s[3]) : s \in Nodes \X (SUBSET Comps) \X (SUBSET Comps)}

AbstractGraph ==
    [states |-> Nodes, start |-> job.start, key |-> [v \in Nodes |-> v],
     moves |-> [v \in Nodes |-> AbstractMoves(v)], goals |-> {job.goal}, dims |-> Dimensions]

ExactGraph ==
    [states |-> Products, start |-> Product(job.start, {}, {}), key |-> [s \in Products |-> s],
     moves |-> [s \in Products |-> ExactMoves(s)], goals |-> {s \in Products : s.node = job.goal},
     dims |-> Dimensions]

\* What the assumption on what-ifs says of the inquiry under way.
LEMMA AskTyped ==
    ASSUME job \in Jobs, Asking
    PROVE  /\ job.failures \in Nat /\ IsFiniteSet(job.edges) /\ job.edges # {}
           /\ Dimensions \in Nat /\ \A x \in job.edges : EdgeCost(x) \in Costs(Dimensions) /\ IsFiniteSet(x.down)
<1>1. /\ job.failures \in Nat /\ IsFiniteSet(job.edges) /\ job.edges # {}
      /\ \A x \in job.edges : x.cost \in Seq(Nat) /\ Len(x.cost) > 0 /\ IsFiniteSet(x.down)
      /\ \A x, y \in job.edges : Len(x.cost) = Len(y.cost)
  BY WhatIfAssumption DEF Asking
<1>2. PICK z \in job.edges : z = CHOOSE x \in job.edges : TRUE
  BY <1>1
<1>3. CASE job.kind = "quantitative"
  <2>1. ASSUME NEW x \in job.edges PROVE EdgeCost(x) = <<x.cost[1]>> /\ x.cost[1] \in Nat
    BY <1>1, <1>3 DEF EdgeCost
  <2>2. Dimensions = 1
    BY <1>2, <2>1 DEF Dimensions
  <2>3. ASSUME NEW x \in job.edges PROVE EdgeCost(x) \in [1 .. 1 -> Nat]
    BY <2>1
  <2> QED
    BY <1>1, <2>2, <2>3 DEF Costs
<1>4. CASE job.kind # "quantitative"
  <2>1. \A x \in job.edges : EdgeCost(x) = x.cost
    BY <1>4 DEF EdgeCost
  <2>2. Dimensions = Len(z.cost)
    BY <1>2, <2>1 DEF Dimensions
  <2>3. Len(z.cost) \in Nat
    BY <1>1
  <2>4. ASSUME NEW x \in job.edges PROVE x.cost \in [1 .. Len(z.cost) -> Nat]
    <3>1. x.cost \in Seq(Nat) /\ Len(x.cost) = Len(z.cost)
      BY <1>1
    <3> QED
      BY <3>1
  <2> QED
    BY <1>1, <2>1, <2>2, <2>3, <2>4 DEF Costs
<1> QED
  BY <1>3, <1>4

\* The first pass searches a graph, and its keys are its states.
LEMMA AbstractIsGraph ==
    ASSUME job \in Jobs, Asking
    PROVE  Graph(AbstractGraph) /\ OneKey(AbstractGraph)
<1>1. PICK g : g = AbstractGraph
  OBVIOUS
<1>2. /\ g.states = Nodes /\ g.start = job.start /\ g.dims = Dimensions
      /\ \A v \in Nodes : g.key[v] = v /\ g.moves[v] = AbstractMoves(v)
  BY <1>1 DEF AbstractGraph
<1>3. ASSUME NEW v \in Nodes
      PROVE  /\ IsFiniteSet(AbstractMoves(v))
             /\ \A t \in AbstractMoves(v) : t.to \in Nodes /\ t.key = t.to /\ t.cost \in Costs(Dimensions)
  <2> DEFINE E == {y \in job.edges : /\ y.from = v
                                     /\ job.kind = "finite-state" \/ Cardinality(y.down) =< job.failures}
  <2>1. E \subseteq job.edges
    OBVIOUS
  <2>2. PICK f : f = [x \in job.edges |-> [to |-> x.to, key |-> x.to, cost |-> EdgeCost(x), edge |-> x]]
    OBVIOUS
  <2>3. E \subseteq job.edges /\ IsFiniteSet(E)
    BY <2>1, AskTyped, FS_Subset
  <2>4. AbstractMoves(v) = {f[x] : x \in E}
    <3>1. \A x \in E : f[x] = [to |-> x.to, key |-> x.to, cost |-> EdgeCost(x), edge |-> x]
      BY <2>2, <2>3
    <3>2. AbstractMoves(v) = {[to |-> x.to, key |-> x.to, cost |-> EdgeCost(x), edge |-> x] : x \in E}
      BY Zenon DEF AbstractMoves
    <3> HIDE DEF E
    <3> QED
      BY <3>1, <3>2
  <2> HIDE DEF E
  <2>5. ASSUME NEW x \in E PROVE f[x].to = x.to /\ f[x].key = x.to /\ f[x].cost = EdgeCost(x) /\ x \in job.edges
    BY <2>2, <2>3
  <2>6. \A x \in job.edges : x.to \in Nodes
    BY DEF Nodes
  <2> QED
    BY <2>3, <2>4, <2>5, <2>6, AskTyped, ImageFinite
<1>4. Dimensions \in Nat /\ job.start \in Nodes
  BY AskTyped DEF Nodes
<1>5. Graph(g)
  BY <1>2, <1>3, <1>4 DEF Graph
<1>6. OneKey(g)
  BY <1>2 DEF OneKey
<1> QED
  BY <1>1, <1>5, <1>6

\* A state of the second pass has three parts.
LEMMA ProductParts ==
    ASSUME NEW n, NEW d, NEW u
    PROVE  /\ Product(n, d, u).node = n /\ Product(n, d, u).down = d /\ Product(n, d, u).up = u
           /\ n \in Nodes /\ d \subseteq Comps /\ u \subseteq Comps => Product(n, d, u) \in Products
<1>1. /\ Product(n, d, u).node = n /\ Product(n, d, u).down = d /\ Product(n, d, u).up = u
  BY DEF Product
<1>2. ASSUME n \in Nodes, d \subseteq Comps, u \subseteq Comps PROVE Product(n, d, u) \in Products
  <2>1. <<n, d, u>> \in Nodes \X (SUBSET Comps) \X (SUBSET Comps)
    BY <1>2
  <2>2. PICK s \in Nodes \X (SUBSET Comps) \X (SUBSET Comps) : s = <<n, d, u>>
    BY <2>1
  <2>3. Product(n, d, u) = Product(s[1], s[2], s[3])
    BY <2>2
  <2> QED
    BY <2>2, <2>3 DEF Products
<1> QED
  BY <1>1, <1>2

\* And there are no other states of it.
LEMMA ProductIs ==
    ASSUME NEW s \in Products
    PROVE  s.node \in Nodes /\ s.down \subseteq Comps /\ s.up \subseteq Comps
BY ProductParts DEF Products, Product

\* What the exact pass makes of an edge.
Exactly(s, x) ==
    [to |-> Product(x.to, s.down \cup x.down, s.up \cup x.up), key |-> Product(x.to, s.down \cup x.down, s.up \cup x.up),
     cost |-> EdgeCost(x), edge |-> x]

\* The second pass searches a graph, and its keys are its states.
LEMMA ExactIsGraph ==
    ASSUME job \in Jobs, Asking
    PROVE  Graph(ExactGraph) /\ OneKey(ExactGraph)
<1>1. PICK g : g = ExactGraph
  OBVIOUS
<1>2. /\ g.states = Products /\ g.start = Product(job.start, {}, {}) /\ g.dims = Dimensions
      /\ \A s \in Products : g.key[s] = s /\ g.moves[s] = ExactMoves(s)
  BY <1>1 DEF ExactGraph
<1>3. ASSUME NEW s \in Products
      PROVE  /\ IsFiniteSet(ExactMoves(s))
             /\ \A t \in ExactMoves(s) : t.to \in Products /\ t.key = t.to /\ t.cost \in Costs(Dimensions)
  <2>1. PICK E : E = {y \in job.edges : /\ y.from = s.node
                                       /\ y.down \cap s.up = {} /\ y.up \cap s.down = {}
                                       /\ Cardinality(s.down \cup y.down) =< job.failures}
    OBVIOUS
  <2>2. PICK f : f = [x \in job.edges |-> Exactly(s, x)]
    OBVIOUS
  <2>3. E \subseteq job.edges /\ IsFiniteSet(E)
    BY <2>1, AskTyped, FS_Subset
  <2>4. ExactMoves(s) = {f[x] : x \in E}
    BY <2>1, <2>2, <2>3 DEF ExactMoves, Exactly
  <2>5. ASSUME NEW x \in E
        PROVE  f[x].to \in Products /\ f[x].key = f[x].to /\ f[x].cost \in Costs(Dimensions)
    <3>1. x \in job.edges
      BY <2>3
    <3>2. PICK p : p = Product(x.to, s.down \cup x.down, s.up \cup x.up)
      OBVIOUS
    <3>3. f[x].to = p /\ f[x].key = p /\ f[x].cost = EdgeCost(x)
      BY <2>2, <3>1, <3>2 DEF Exactly
    <3>4. x.to \in Nodes /\ s.down \cup x.down \subseteq Comps /\ s.up \cup x.up \subseteq Comps
      BY <3>1, ProductIs DEF Nodes, Comps
    <3> QED
      BY <3>1, <3>2, <3>3, <3>4, ProductParts, AskTyped
  <2> QED
    BY <2>3, <2>4, <2>5, ImageFinite
<1>4. Dimensions \in Nat /\ Product(job.start, {}, {}) \in Products
  <2>1. job.start \in Nodes
    BY DEF Nodes
  <2> QED
    BY <2>1, AskTyped, ProductParts
<1>5. Graph(g)
  BY <1>2, <1>3, <1>4 DEF Graph
<1>6. OneKey(g)
  BY <1>2 DEF OneKey
<1> QED
  BY <1>1, <1>5, <1>6

-----------------------------------------------------------------------------
(* The ways there are, and that a search covers them.                       *)

\* A way of n + 1 steps is one of n steps and an edge that is open.
LEMMA WaysMean ==
    ASSUME job \in Jobs, Asking, NEW f
    PROVE  /\ Ways(f, 0) = {<<job.start, Free(Dimensions)>>}
           /\ \A n \in Nat : Ways(f, n + 1) = UNION {Onward(f, w) : w \in Ways(f, n)}
           /\ \A n \in Nat : Ways(f, n) \subseteq Nodes \X Costs(Dimensions)
<1>1. PICK W : W = Nodes \X Costs(Dimensions)
  OBVIOUS
<1>2. PICK a : a = {<<job.start, Free(Dimensions)>>}
  OBVIOUS
<1>3. a \in SUBSET W
  <2>1. job.start \in Nodes /\ Free(Dimensions) \in Costs(Dimensions)
    BY AskTyped, FreeTyped DEF Nodes
  <2> QED
    BY <1>1, <1>2, <2>1
<1>4. PICK X : X = SUBSET W
  OBVIOUS
<1>5. PICK h : h = [S \in X |-> UNION {Onward(f, w) : w \in S}]
  OBVIOUS
<1>6. ASSUME NEW w \in W PROVE Onward(f, w) \subseteq W
  <2>1. ASSUME NEW x \in job.edges PROVE <<x.to, AddCosts(w[2], EdgeCost(x))>> \in W
    <3>1. w[2] \in Costs(Dimensions) /\ EdgeCost(x) \in Costs(Dimensions) /\ Dimensions \in Nat
      BY <1>1, AskTyped
    <3>2. AddCosts(w[2], EdgeCost(x)) \in Costs(Dimensions)
      BY <3>1, CostsAdd
    <3>3. x.to \in Nodes
      BY DEF Nodes
    <3> QED
      BY <1>1, <3>2, <3>3
  <2> QED
    BY <2>1 DEF Onward
<1>7. a \in X /\ h \in [X -> X]
  BY <1>3, <1>4, <1>5, <1>6
<1>8. PICK F : Orbit(F, X, a, h)
  BY <1>7, Repeated
<1>9. F \in [Nat -> X] /\ F[0] = a /\ \A n \in Nat : F[n + 1] = h[F[n]]
  BY <1>8 DEF Orbit
<1>10. ASSUME NEW n \in Nat PROVE Ways(f, n) = F[n]
  <2> DEFINE Go(p) == [k \in 0 .. n |-> IF k = 0 THEN {<<job.start, Free(Dimensions)>>}
                                       ELSE UNION {Onward(f, w) : w \in p[k - 1]}]
  <2>1. Ways(f, n) = (CHOOSE p : p = Go(p))[n]
    BY DEF Ways
  <2>2. \E p : p = Go(p)
    <3>1. PICK p : p = [k \in 0 .. n |-> F[k]]
      OBVIOUS
    <3>2. ASSUME NEW k \in 0 .. n PROVE p[k] = Go(p)[k]
      <4>1. CASE k = 0
        BY <1>2, <1>9, <3>1, <4>1
      <4>2. CASE k # 0
        <5>1. k - 1 \in Nat /\ (k - 1) + 1 = k /\ k - 1 \in 0 .. n
          BY <4>2
        <5>2. p[k] = h[F[k - 1]] /\ p[k - 1] = F[k - 1] /\ F[k - 1] \in X
          BY <1>9, <3>1, <5>1
        <5> QED
          BY <1>5, <4>2, <5>2
      <4> QED
        BY <4>1, <4>2
    <3>3. p = [k \in 0 .. n |-> p[k]]
      BY <3>1
    <3> QED
      BY <3>2, <3>3
  <2>3. PICK p : p = CHOOSE q : q = Go(q)
    OBVIOUS
  <2>4. p = Go(p)
    <3> HIDE DEF Go
    <3> QED
      BY <2>2, <2>3
  <2>5. p[0] = a
    <3>1. Go(p)[0] = a
      BY <1>2
    <3> HIDE DEF Go
    <3> QED
      BY <2>4, <3>1
  <2>6. ASSUME NEW k \in 1 .. n, p[k - 1] \in X PROVE p[k] = h[p[k - 1]]
    <3>1. Go(p)[k] = UNION {Onward(f, w) : w \in p[k - 1]}
      OBVIOUS
    <3>2. p[k] = Go(p)[k]
      <4> HIDE DEF Go
      <4> QED
        BY <2>4
    <3> HIDE DEF Go
    <3> QED
      BY <1>5, <2>6, <3>1, <3>2
  <2>7. \A k \in 0 .. n : p[k] = F[k]
    <3>1. \A k \in 1 .. n : p[k - 1] \in X => p[k] = h[p[k - 1]]
      BY <2>6
    <3>2. Stepwise(p, n, X, a, h)
      BY <2>5, <3>1 DEF Stepwise
    <3> HIDE DEF Go
    <3> QED
      BY <1>8, <3>2, Unfolds
  <2> HIDE DEF Go
  <2> QED
    BY <2>1, <2>3, <2>7
<1>11. Ways(f, 0) = {<<job.start, Free(Dimensions)>>}
  BY <1>2, <1>9, <1>10
<1>12. ASSUME NEW n \in Nat
       PROVE  Ways(f, n + 1) = UNION {Onward(f, w) : w \in Ways(f, n)} /\ Ways(f, n) \subseteq W
  <2>1. F[n] \in X /\ F[n + 1] = h[F[n]] /\ n + 1 \in Nat
    BY <1>9
  <2> QED
    BY <1>4, <1>5, <1>10, <2>1
<1> QED
  BY <1>1, <1>11, <1>12

AskGraph(p) == IF p = "exact" THEN ExactGraph ELSE AbstractGraph

\* A set of failures is finite and no larger than allowed.
LEMMA FailuresFinite ==
    ASSUME job \in Jobs, Asking, NEW f \in Failures
    PROVE  IsFiniteSet(f) /\ Cardinality(f) <= job.failures /\ Cardinality(f) \in Nat
<1>1. PICK D : D = {x.down : x \in job.edges}
  OBVIOUS
<1>2. PICK down : down = [x \in job.edges |-> x.down]
  OBVIOUS
<1>3. D = {down[x] : x \in job.edges}
  BY <1>1, <1>2
<1>4. IsFiniteSet(D)
  BY <1>3, AskTyped, ImageFinite
<1>5. \A d \in D : IsFiniteSet(d)
  BY <1>1, AskTyped
<1>6. IsFiniteSet(UNION D)
  BY <1>4, <1>5, FS_UNION
<1>7. f \in SUBSET UNION D /\ Cardinality(f) =< job.failures
  BY <1>1 DEF Failures
<1> QED
  BY <1>6, <1>7, FS_Subset, FS_CardinalityType

\* And so is what a way needs to have failed under it.
LEMMA FewFail ==
    ASSUME job \in Jobs, Asking, NEW f \in Failures, NEW d \in SUBSET f
    PROVE  Cardinality(d) =< job.failures
<1>1. IsFiniteSet(f) /\ Cardinality(f) <= job.failures /\ Cardinality(f) \in Nat /\ job.failures \in Nat
  BY FailuresFinite, AskTyped
<1>2. IsFiniteSet(d) /\ Cardinality(d) <= Cardinality(f) /\ Cardinality(d) \in Nat
  BY <1>1, FS_Subset, FS_CardinalityType
<1> QED
  BY <1>1, <1>2

\* A way that some failures leave open is one of the first pass ...
LEMMA AbstractCovers ==
    ASSUME job \in Jobs, Asking, NEW s, Sound(s, AbstractGraph), NEW f \in Failures, NEW n \in Nat
    PROVE  \A w \in Ways(f, n) : Covers(s, w[1], w[2])
<1>1. PICK g : g = AbstractGraph
  OBVIOUS
<1>2. /\ Graph(g) /\ Sound(s, g) /\ g.states = Nodes /\ g.start = job.start /\ g.dims = Dimensions
      /\ \A v \in Nodes : g.moves[v] = AbstractMoves(v)
  BY <1>1, AbstractIsGraph DEF AbstractGraph
<1> DEFINE S == {k \in 0 .. n : \A w \in Ways(f, k) : Covers(s, w[1], w[2])}
<1>3. 0 \in S
  <2>1. Covers(s, job.start, Free(Dimensions))
    BY <1>2, CoversStart
  <2> QED
    BY <2>1, WaysMean
<1>4. ASSUME NEW k \in 1 .. n, k - 1 \in S PROVE k \in S
  <2>1. PICK m \in Nat : m = k - 1 /\ m + 1 = k
    OBVIOUS
  <2>2. Ways(f, k) = UNION {Onward(f, u) : u \in Ways(f, m)}
    BY <2>1, WaysMean
  <2>3. ASSUME NEW w \in Ways(f, k) PROVE Covers(s, w[1], w[2])
    <3>1. PICK u \in Ways(f, m) : w \in Onward(f, u)
      BY <2>2
    <3>2. u[1] \in Nodes /\ u[2] \in Costs(Dimensions) /\ Covers(s, u[1], u[2])
      BY <1>4, <2>1, WaysMean
    <3>3. PICK x \in job.edges : x.from = u[1] /\ OpenTo(x, f) /\ w = <<x.to, AddCosts(u[2], EdgeCost(x))>>
      BY <3>1 DEF Onward
    <3>4. job.kind = "finite-state" \/ Cardinality(x.down) =< job.failures
      BY <3>3, FewFail DEF OpenTo
    <3>5. PICK t : t = [to |-> x.to, key |-> x.to, cost |-> EdgeCost(x), edge |-> x]
      OBVIOUS
    <3>6. t \in AbstractMoves(u[1]) /\ t.to = x.to /\ t.cost = EdgeCost(x)
      BY <3>3, <3>4, <3>5 DEF AbstractMoves
    <3>7. t \in g.moves[u[1]] /\ u[1] \in g.states /\ u[2] \in Costs(g.dims)
      BY <1>2, <3>2, <3>6
    <3>8. Covers(s, t.to, AddCosts(u[2], t.cost))
      BY <1>2, <3>2, <3>7, CoversStep
    <3> QED
      BY <3>3, <3>6, <3>8
  <2> QED
    BY <2>3
<1>5. 0 .. n \subseteq S
  <2> HIDE DEF S
  <2> QED
    BY <1>3, <1>4, Throughout
<1> QED
  BY <1>5

\* ... and of the second, with no more failed than has failed and nothing relied on that has.
LEMMA ExactCovers ==
    ASSUME job \in Jobs, Asking, job.kind # "finite-state", NEW s, Sound(s, ExactGraph), NEW f \in Failures, NEW n \in Nat
    PROVE  \A w \in Ways(f, n) : \E p \in Products : /\ p.node = w[1] /\ p.down \subseteq f /\ p.up \cap f = {}
                                                     /\ Covers(s, p, w[2])
<1>1. PICK g : g = ExactGraph
  OBVIOUS
<1>2. /\ Graph(g) /\ Sound(s, g) /\ g.states = Products /\ g.start = Product(job.start, {}, {}) /\ g.dims = Dimensions
      /\ \A v \in Products : g.moves[v] = ExactMoves(v)
  BY <1>1, ExactIsGraph DEF ExactGraph
<1> DEFINE Held(w) == \E p \in Products : /\ p.node = w[1] /\ p.down \subseteq f /\ p.up \cap f = {}
                                          /\ Covers(s, p, w[2])
           S == {k \in 0 .. n : \A w \in Ways(f, k) : Held(w)}
<1>3. 0 \in S
  <2>1. PICK p : p = Product(job.start, {}, {})
    OBVIOUS
  <2>2. Covers(s, p, Free(Dimensions))
    BY <1>2, <2>1, CoversStart
  <2>3. p \in Products /\ p.node = job.start /\ p.down = {} /\ p.up = {}
    BY <1>2, <2>1, ProductParts DEF Graph
  <2>4. Held(<<job.start, Free(Dimensions)>>)
    BY <2>2, <2>3
  <2> HIDE DEF Held
  <2> QED
    BY <2>4, WaysMean
<1>4. ASSUME NEW k \in 1 .. n, k - 1 \in S PROVE k \in S
  <2>1. PICK m \in Nat : m = k - 1 /\ m + 1 = k
    OBVIOUS
  <2>2. Ways(f, k) = UNION {Onward(f, u) : u \in Ways(f, m)}
    BY <2>1, WaysMean
  <2>3. ASSUME NEW w \in Ways(f, k) PROVE Held(w)
    <3>1. PICK u \in Ways(f, m) : w \in Onward(f, u)
      BY <2>2
    <3>2. u[1] \in Nodes /\ u[2] \in Costs(Dimensions) /\ Held(u)
      <4>1. Ways(f, m) \subseteq Nodes \X Costs(Dimensions)
        BY WaysMean
      <4>2. \A y \in Ways(f, m) : Held(y)
        <5> HIDE DEF Held
        <5> QED
          BY <1>4, <2>1
      <4> HIDE DEF Held
      <4> QED
        BY <4>1, <4>2
    <3>3. PICK x \in job.edges : x.from = u[1] /\ OpenTo(x, f) /\ w = <<x.to, AddCosts(u[2], EdgeCost(x))>>
      BY <3>1 DEF Onward
    <3>4. PICK p \in Products : p.node = u[1] /\ p.down \subseteq f /\ p.up \cap f = {} /\ Covers(s, p, u[2])
      BY <3>2
    <3>5. x.down \subseteq f /\ x.up \cap f = {}
      BY <3>3 DEF OpenTo
    <3>6. x.down \cap p.up = {} /\ x.up \cap p.down = {} /\ Cardinality(p.down \cup x.down) =< job.failures
      BY <3>4, <3>5, FewFail
    <3>7. PICK q : q = Product(x.to, p.down \cup x.down, p.up \cup x.up)
      OBVIOUS
    <3>8. PICK t : t = [to |-> q, key |-> q, cost |-> EdgeCost(x), edge |-> x]
      OBVIOUS
    <3>9. t \in ExactMoves(p) /\ t.to = q /\ t.cost = EdgeCost(x)
      BY <3>3, <3>4, <3>6, <3>7, <3>8 DEF ExactMoves
    <3>10. t \in g.moves[p] /\ p \in g.states /\ u[2] \in Costs(g.dims)
      BY <1>2, <3>2, <3>9
    <3>11. Covers(s, q, AddCosts(u[2], EdgeCost(x))) /\ q \in Products
      BY <1>2, <3>4, <3>9, <3>10, CoversStep DEF Graph
    <3>12. q.node = x.to /\ q.down \subseteq f /\ q.up \cap f = {}
      BY <3>4, <3>5, <3>7, ProductParts
    <3> QED
      BY <3>3, <3>11, <3>12
  <2> HIDE DEF Held
  <2> QED
    BY <2>3
<1>5. 0 .. n \subseteq S
  <2> HIDE DEF S
  <2> QED
    BY <1>3, <1>4, Throughout
<1> QED
  BY <1>5

\* As long as a search is sound, what is next in the queue costs no more than any way to the
\* goal; so the queue is empty only if there is none.
LEMMA NoCheaperWay ==
    ASSUME job \in Jobs, Asking, NEW p, p = "exact" => job.kind # "finite-state",
           NEW s, Sound(s, AskGraph(p)), NEW c \in CostsToGoal
    PROVE  s.frontier # {} /\ \A e \in NextInQueue(s) : ~Cheaper(c, e.cost)
<1>1. PICK f \in Failures, n \in 0 .. Depth : \E w \in Ways(f, n) : w[1] = job.goal /\ w[2] = c
  BY DEF CostsToGoal
<1>2. PICK w \in Ways(f, n) : w[1] = job.goal /\ w[2] = c
  BY <1>1
<1>3. n \in Nat
  BY DepthAssumption
<1>4. w[1] \in Nodes /\ w[2] \in Costs(Dimensions)
  BY <1>3, WaysMean
<1>5. CASE p = "exact"
  <2>1. PICK g : g = ExactGraph
    OBVIOUS
  <2>2. Graph(g) /\ Sound(s, g) /\ g.dims = Dimensions /\ g.goals = {u \in Products : u.node = job.goal}
    BY <1>5, <2>1, ExactIsGraph DEF AskGraph, ExactGraph
  <2>3. PICK q \in Products : q.node = job.goal /\ Covers(s, q, c)
    BY <1>2, <1>3, <1>5, <2>1, <2>2, ExactCovers
  <2>4. q \in g.goals /\ c \in Costs(g.dims)
    BY <1>2, <1>4, <2>2, <2>3
  <2> QED
    BY <2>2, <2>3, <2>4, CoversGoal
<1>6. CASE p # "exact"
  <2>1. PICK g : g = AbstractGraph
    OBVIOUS
  <2>2. Graph(g) /\ Sound(s, g) /\ g.dims = Dimensions /\ g.goals = {job.goal}
    BY <1>6, <2>1, AbstractIsGraph DEF AskGraph, AbstractGraph
  <2>3. Covers(s, job.goal, c)
    BY <1>2, <1>3, <2>1, <2>2, AbstractCovers
  <2>4. job.goal \in g.goals /\ c \in Costs(g.dims)
    BY <1>2, <1>4, <2>2
  <2> QED
    BY <2>2, <2>3, <2>4, CoversGoal
<1> QED
  BY <1>5, <1>6

-----------------------------------------------------------------------------
(* The witness is a way.                                                    *)

Spot(e, p) == IF p = "exact" THEN e.state.node ELSE e.state

AskSteps(p) == UNION {AskGraph(p).moves[v] : v \in AskGraph(p).states}

\* The path of an entry leads where the entry is, under all failures that leave its edges open.
Trail(e, p) ==
    /\ e.path \in Seq(AskSteps(p))
    /\ \A f : (\A i \in DOMAIN e.path : OpenTo(e.path[i].edge, f)) => <<Spot(e, p), e.cost>> \in Ways(f, Len(e.path))
    /\ p = "exact" => e.state.down = Down(e.path) /\ e.state.up = Up(e.path) /\ Feasible(e.path)

\* The edge x takes the entry e to the entry c by the transition t.
Taken(x, e, t, c, p) ==
    /\ x.from = Spot(e, p) /\ t.edge = x /\ t.cost = EdgeCost(x)
    /\ Spot(c, p) = x.to
    /\ p = "exact" => /\ t.to.down = e.state.down \cup x.down /\ t.to.up = e.state.up \cup x.up
                      /\ x.down \cap e.state.up = {} /\ x.up \cap e.state.down = {}
                      /\ Cardinality(e.state.down \cup x.down) =< job.failures

\* What a move of either pass is made of.
LEMMA MoveIs ==
    ASSUME job \in Jobs, Asking, NEW p, NEW e, e.state \in AskGraph(p).states,
           NEW t \in AskGraph(p).moves[e.state]
    PROVE  \E x \in job.edges : Taken(x, e, t, Child(e, t), p)
<1>1. Child(e, t).state = t.to
  BY DEF Child
<1>2. CASE p = "exact"
  <2>1. e.state \in Products /\ t \in ExactMoves(e.state)
    BY <1>2 DEF AskGraph, ExactGraph
  <2>2. PICK x \in job.edges : /\ x.from = e.state.node
                               /\ x.down \cap e.state.up = {} /\ x.up \cap e.state.down = {}
                               /\ Cardinality(e.state.down \cup x.down) =< job.failures
                               /\ t = Exactly(e.state, x)
    BY <2>1 DEF ExactMoves, Exactly
  <2>3. PICK q : q = Product(x.to, e.state.down \cup x.down, e.state.up \cup x.up)
    OBVIOUS
  <2>4. t.to = q /\ t.edge = x /\ t.cost = EdgeCost(x)
    BY <2>2, <2>3 DEF Exactly
  <2>5. q.node = x.to /\ q.down = e.state.down \cup x.down /\ q.up = e.state.up \cup x.up
    BY <2>3, ProductParts
  <2> QED
    BY <1>1, <1>2, <2>2, <2>4, <2>5 DEF Spot, Taken
<1>3. CASE p # "exact"
  <2>1. e.state \in Nodes /\ t \in AbstractMoves(e.state)
    BY <1>3 DEF AskGraph, AbstractGraph
  <2>2. PICK x \in job.edges : x.from = e.state /\ t = [to |-> x.to, key |-> x.to, cost |-> EdgeCost(x), edge |-> x]
    BY <2>1 DEF AbstractMoves
  <2> QED
    BY <1>1, <1>3, <2>2 DEF Spot, Taken
<1> QED
  BY <1>2, <1>3

\* What a path needs failed and up, when it grows by an edge.
LEMMA DownGrows ==
    ASSUME NEW T, NEW path \in Seq(T), NEW t \in T
    PROVE  /\ Down(Append(path, t)) = Down(path) \cup t.edge.down
           /\ Up(Append(path, t)) = Up(path) \cup t.edge.up
<1>1. PICK q : q = Append(path, t)
  OBVIOUS
<1>2. Len(path) \in Nat /\ DOMAIN path = 1 .. Len(path) /\ DOMAIN q = 1 .. (Len(path) + 1)
  BY <1>1
<1>3. (\A i \in DOMAIN path : q[i] = path[i]) /\ q[Len(path) + 1] = t
  BY <1>1
<1>4. DOMAIN q = DOMAIN path \cup {Len(path) + 1}
  BY <1>2
<1>5. Down(q) = Down(path) \cup t.edge.down
  <2>1. ASSUME NEW c \in Down(q) PROVE c \in Down(path) \cup t.edge.down
    <3>1. PICK i \in DOMAIN q : c \in q[i].edge.down
      BY <2>1 DEF Down
    <3>2. CASE i \in DOMAIN path
      BY <1>3, <3>1, <3>2 DEF Down
    <3>3. CASE i = Len(path) + 1
      BY <1>3, <3>1, <3>3
    <3> QED
      BY <1>4, <3>2, <3>3
  <2>2. ASSUME NEW c \in Down(path) PROVE c \in Down(q)
    <3>1. PICK i \in DOMAIN path : c \in path[i].edge.down
      BY <2>2 DEF Down
    <3>2. i \in DOMAIN q /\ c \in q[i].edge.down
      BY <1>3, <1>4, <3>1
    <3> QED
      BY <3>2 DEF Down
  <2>3. ASSUME NEW c \in t.edge.down PROVE c \in Down(q)
    <3>1. Len(path) + 1 \in DOMAIN q /\ c \in q[Len(path) + 1].edge.down
      BY <1>3, <1>4, <2>3
    <3> QED
      BY <3>1 DEF Down
  <2> QED
    BY <2>1, <2>2, <2>3
<1>6. Up(q) = Up(path) \cup t.edge.up
  <2>1. ASSUME NEW c \in Up(q) PROVE c \in Up(path) \cup t.edge.up
    <3>1. PICK i \in DOMAIN q : c \in q[i].edge.up
      BY <2>1 DEF Up
    <3>2. CASE i \in DOMAIN path
      BY <1>3, <3>1, <3>2 DEF Up
    <3>3. CASE i = Len(path) + 1
      BY <1>3, <3>1, <3>3
    <3> QED
      BY <1>4, <3>2, <3>3
  <2>2. ASSUME NEW c \in Up(path) PROVE c \in Up(q)
    <3>1. PICK i \in DOMAIN path : c \in path[i].edge.up
      BY <2>2 DEF Up
    <3>2. i \in DOMAIN q /\ c \in q[i].edge.up
      BY <1>3, <1>4, <3>1
    <3> QED
      BY <3>2 DEF Up
  <2>3. ASSUME NEW c \in t.edge.up PROVE c \in Up(q)
    <3>1. Len(path) + 1 \in DOMAIN q /\ c \in q[Len(path) + 1].edge.up
      BY <1>3, <1>4, <2>3
    <3> QED
      BY <3>1 DEF Up
  <2> QED
    BY <2>1, <2>2, <2>3
<1> QED
  BY <1>1, <1>5, <1>6

\* A child of an entry is what the path to it makes of the start.
LEMMA TrailGrows ==
    ASSUME job \in Jobs, Asking, NEW p, p = "exact" => job.kind # "finite-state",
           NEW e, e.state \in AskGraph(p).states, Trail(e, p), ~Malformed(Spot(e, p)),
           NEW t \in AskGraph(p).moves[e.state]
    PROVE  Trail(Child(e, t), p)
<1>1. PICK x \in job.edges : Taken(x, e, t, Child(e, t), p)
  BY MoveIs
<1>2. /\ x.from = Spot(e, p) /\ t.edge = x /\ t.cost = EdgeCost(x)
      /\ Spot(Child(e, t), p) = x.to
      /\ p = "exact" => /\ t.to.down = e.state.down \cup x.down /\ t.to.up = e.state.up \cup x.up
                        /\ x.down \cap e.state.up = {} /\ x.up \cap e.state.down = {}
                        /\ Cardinality(e.state.down \cup x.down) =< job.failures
  BY <1>1 DEF Taken
<1>3. PICK c : c = Child(e, t)
  OBVIOUS
<1>4. c.path = Append(e.path, t) /\ c.cost = AddCosts(e.cost, EdgeCost(x)) /\ c.state = t.to
  BY <1>2, <1>3 DEF Child
<1>5. PICK T : T = AskSteps(p)
  OBVIOUS
<1>6. t \in T /\ e.path \in Seq(T)
  BY <1>5 DEF AskSteps, Trail
<1>7. /\ c.path \in Seq(T) /\ Len(e.path) \in Nat /\ Len(c.path) = Len(e.path) + 1
      /\ DOMAIN e.path = 1 .. Len(e.path) /\ DOMAIN c.path = 1 .. (Len(e.path) + 1)
      /\ (\A i \in DOMAIN e.path : c.path[i] = e.path[i]) /\ c.path[Len(e.path) + 1] = t
  BY <1>4, <1>6
<1>8. ASSUME NEW f, \A i \in DOMAIN c.path : OpenTo(c.path[i].edge, f)
      PROVE  <<Spot(c, p), c.cost>> \in Ways(f, Len(c.path))
  <2>1. PICK n \in Nat : n = Len(e.path)
    BY <1>7
  <2>2. \A i \in DOMAIN e.path : i \in DOMAIN c.path /\ c.path[i] = e.path[i]
    BY <1>7
  <2>3. OpenTo(x, f)
    <3>1. n + 1 \in DOMAIN c.path /\ c.path[n + 1] = t
      BY <1>7, <2>1
    <3> QED
      BY <1>2, <1>8, <3>1
  <2>4. <<Spot(e, p), e.cost>> \in Ways(f, n)
    BY <1>8, <2>1, <2>2 DEF Trail
  <2>5. PICK w : w = <<Spot(e, p), e.cost>>
    OBVIOUS
  <2>6. <<x.to, AddCosts(e.cost, EdgeCost(x))>> \in Onward(f, w)
    BY <1>2, <2>3, <2>5 DEF Onward
  <2>7. Ways(f, n + 1) = UNION {Onward(f, u) : u \in Ways(f, n)}
    BY WaysMean
  <2>8. <<x.to, AddCosts(e.cost, EdgeCost(x))>> \in Ways(f, n + 1)
    BY <2>4, <2>5, <2>6, <2>7
  <2> QED
    BY <1>2, <1>3, <1>4, <1>7, <2>1, <2>8
<1>9. ASSUME p = "exact" PROVE c.state.down = Down(c.path) /\ c.state.up = Up(c.path) /\ Feasible(c.path)
  <2>1. Down(c.path) = Down(e.path) \cup x.down /\ Up(c.path) = Up(e.path) \cup x.up
    BY <1>2, <1>4, <1>6, DownGrows
  <2>2. e.state.down = Down(e.path) /\ e.state.up = Up(e.path) /\ Down(e.path) \cap Up(e.path) = {}
    BY <1>9 DEF Trail, Feasible
  <2>3. x.down \cap x.up = {}
    BY <1>2, <1>9 DEF Malformed
  <2>4. Down(c.path) \cap Up(c.path) = {}
    BY <1>2, <1>9, <2>1, <2>2, <2>3
  <2> QED
    BY <1>2, <1>4, <1>9, <2>1, <2>2, <2>4 DEF Feasible
<1> QED
  BY <1>3, <1>5, <1>7, <1>8, <1>9 DEF Trail

\* A witness that does not contradict itself is a way under the failures it names.
LEMMA WitnessIsWay ==
    ASSUME job \in Jobs, Asking, NEW p, NEW e, Trail(e, p), job.kind = "finite-state" \/ Feasible(e.path)
    PROVE  <<Spot(e, p), e.cost>> \in Ways(Down(e.path), Len(e.path))
<1>1. ASSUME NEW i \in DOMAIN e.path PROVE OpenTo(e.path[i].edge, Down(e.path))
  <2>1. e.path[i].edge.down \subseteq Down(e.path) /\ e.path[i].edge.up \subseteq Up(e.path)
    BY DEF Down, Up
  <2>2. job.kind = "finite-state" \/ Down(e.path) \cap Up(e.path) = {}
    BY DEF Feasible
  <2> QED
    BY <2>1, <2>2 DEF OpenTo
<1> QED
  BY <1>1 DEF Trail

\* What a search has found out.
Searched(s, p) ==
    /\ s.status \in {"SEARCHING", "UNREACHABLE", "REACHABLE", "LIMIT_REACHED", "ERROR"}
    /\ s.status = "SEARCHING" => Sound(s, AskGraph(p)) /\ \A e \in s.frontier : Trail(e, p)
    /\ s.status = "UNREACHABLE" => CostsToGoal = {}
    /\ s.status = "REACHABLE" =>
          /\ Trail(s.found, p) /\ Spot(s.found, p) = job.goal /\ s.found.cost \in Costs(Dimensions)
          /\ \A c \in CostsToGoal : ~Cheaper(c, s.found.cost)
    /\ s.status = "ERROR" => \E x \in job.edges : x.down \cap x.up # {}

\* Either pass searches a graph.
LEMMA AskGraphIs ==
    ASSUME job \in Jobs, Asking, NEW p
    PROVE  Graph(AskGraph(p)) /\ OneKey(AskGraph(p)) /\ AskGraph(p).dims = Dimensions
<1>1. AbstractGraph.dims = Dimensions /\ ExactGraph.dims = Dimensions
  BY DEF AbstractGraph, ExactGraph
<1> QED
  BY <1>1, AbstractIsGraph, ExactIsGraph DEF AskGraph

\* A pass begins with nothing found out that is wrong.
LEMMA SearchBegins ==
    ASSUME job \in Jobs, Asking, NEW p, NEW start, start = IF p = "exact" THEN Product(job.start, {}, {}) ELSE job.start,
           NEW dims, dims = Dimensions
    PROVE  Searched(StartSearch(start, start, dims), p)
<1>1. PICK g : g = AskGraph(p)
  OBVIOUS
<1>2. Graph(g) /\ g.dims = Dimensions /\ g.start = start
  BY <1>1, AskGraphIs DEF AskGraph, AbstractGraph, ExactGraph
<1>3. g.key[start] = start
  <2>1. CASE p = "exact"
    <3>1. start \in Products
      BY <1>1, <1>2, <2>1 DEF Graph, AskGraph, ExactGraph
    <3> QED
      BY <1>1, <2>1, <3>1 DEF AskGraph, ExactGraph
  <2>2. CASE p # "exact"
    <3>1. start \in Nodes
      BY <2>2 DEF Nodes
    <3> QED
      BY <1>1, <2>2, <3>1 DEF AskGraph, AbstractGraph
  <2> QED
    BY <2>1, <2>2
<1>4. PICK s : s = StartSearch(start, start, dims)
  OBVIOUS
<1>5. PICK e : e = [state |-> start, key |-> start, cost |-> Free(Dimensions), path |-> <<>>]
  OBVIOUS
<1>6. Sound(s, g) /\ s.status = "SEARCHING" /\ s.frontier = {e}
  BY <1>2, <1>3, <1>4, <1>5, StartSound
<1>7. e.state = start /\ e.path = <<>> /\ e.cost = Free(Dimensions)
  BY <1>5
<1>8. Spot(e, p) = job.start
  BY <1>7, ProductParts DEF Spot
<1>9. Down(e.path) = {} /\ Up(e.path) = {} /\ Len(e.path) = 0
  BY <1>7 DEF Down, Up
<1>10. Trail(e, p)
  <2>1. e.path \in Seq(AskSteps(p))
    BY <1>7
  <2>2. \A f : <<Spot(e, p), e.cost>> \in Ways(f, Len(e.path))
    BY <1>7, <1>8, <1>9, WaysMean
  <2>3. Feasible(e.path)
    BY <1>9, FS_EmptySet, AskTyped DEF Feasible
  <2>4. ASSUME p = "exact" PROVE e.state.down = Down(e.path) /\ e.state.up = Up(e.path)
    <3>1. PICK q : q = Product(job.start, {}, {})
      OBVIOUS
    <3>2. q.down = {} /\ q.up = {}
      BY <3>1, ProductParts
    <3> QED
      BY <1>7, <1>9, <2>4, <3>1, <3>2
  <2> QED
    BY <2>1, <2>2, <2>3, <2>4 DEF Trail
<1> QED
  BY <1>1, <1>4, <1>6, <1>10 DEF Searched

-----------------------------------------------------------------------------
(* The turns of a what-if's search.                                         *)

\* States that are their own keys never collide.
LEMMA NeverCollides ==
    ASSUME NEW g, Graph(g), OneKey(g), NEW s, Typed(s, g), NEW v \in g.states
    PROVE  ~Collides(s, g.moves[v])
<1>1. PICK S : S = {<<t.key, t.to>> : t \in g.moves[v]} \cup {<<k, s.prints[k]>> : k \in DOMAIN s.prints}
  OBVIOUS
<1>2. ASSUME NEW a \in S PROVE a[2] \in g.states /\ a[1] = g.key[a[2]]
  <2>1. CASE a \in {<<t.key, t.to>> : t \in g.moves[v]}
    <3>1. PICK t \in g.moves[v] : a = <<t.key, t.to>>
      BY <2>1
    <3> QED
      BY <3>1 DEF Graph
  <2>2. CASE a \in {<<k, s.prints[k]>> : k \in DOMAIN s.prints}
    <3>1. PICK k \in DOMAIN s.prints : a = <<k, s.prints[k]>>
      BY <2>2
    <3> QED
      BY <3>1 DEF Typed
  <2> QED
    BY <1>1, <2>1, <2>2
<1>3. \A a, b \in S : a[1] = b[1] => a[2] = b[2]
  BY <1>2 DEF OneKey
<1> QED
  BY <1>1, <1>3 DEF Collides

\* A turn of a pass keeps what it has found out right.
LEMMA SearchTurns ==
    ASSUME job \in Jobs, Asking, NEW p, p = "exact" => job.kind # "finite-state",
           NEW s, Searched(s, p), s.status = "SEARCHING", NEW e \in NextInQueue(s),
           NEW goal \in BOOLEAN, goal <=> Spot(e, p) = job.goal,
           NEW throws \in BOOLEAN, throws <=> Malformed(Spot(e, p)),
           NEW limit, NEW strict \in BOOLEAN, NEW out, out = AskGraph(p).moves[e.state],
           NEW r, r = Visit(s, e, out, goal, throws, limit, strict)
    PROVE  Searched(r, p) /\ e.state \in AskGraph(p).states
<1>1. PICK g : g = AskGraph(p)
  OBVIOUS
<1>2. Graph(g) /\ OneKey(g) /\ g.dims = Dimensions
  BY <1>1, AskGraphIs
<1>3. Sound(s, g) /\ \A f \in s.frontier : Trail(f, p)
  BY <1>1 DEF Searched
<1>4. e \in s.frontier /\ e.state \in g.states /\ e.cost \in Costs(Dimensions)
  BY <1>2, <1>3 DEF NextInQueue, Sound, Queued, Typed
<1>5. goal <=> e.state \in g.goals
  <2>1. CASE p = "exact"
    <3>1. g.states = Products /\ g.goals = {v \in Products : v.node = job.goal}
      BY <1>1, <2>1 DEF AskGraph, ExactGraph
    <3> QED
      BY <1>4, <2>1, <3>1 DEF Spot
  <2>2. CASE p # "exact"
    <3>1. g.goals = {job.goal}
      BY <1>1, <2>2 DEF AskGraph, AbstractGraph
    <3> QED
      BY <2>2, <3>1 DEF Spot
  <2> QED
    BY <2>1, <2>2
<1>6. Turn(s, r, e, g, throws, strict)
  BY <1>1, <1>2, <1>3, <1>5, Turned
<1>7. ~Collides(s, g.moves[e.state])
  BY <1>2, <1>3, <1>4, NeverCollides DEF Sound
<1>8. r.status \in {"SEARCHING", "UNREACHABLE", "REACHABLE", "LIMIT_REACHED", "ERROR"}
  BY <1>6 DEF Turn
<1>9. ASSUME r.status = "SEARCHING" PROVE Sound(r, g) /\ \A f \in r.frontier : Trail(f, p)
  <2>1. /\ Sound(r, g)
        /\ \A f \in r.frontier : f \in s.frontier \/ (~throws /\ \E t \in g.moves[e.state] : f = Child(e, t))
    BY <1>6, <1>9 DEF Turn
  <2>2. ASSUME NEW f \in r.frontier, f \notin s.frontier PROVE Trail(f, p)
    <3>1. PICK t \in g.moves[e.state] : f = Child(e, t)
      BY <2>1, <2>2
    <3>2. ~Malformed(Spot(e, p)) /\ Trail(e, p)
      BY <1>3, <1>4, <2>1, <2>2
    <3>3. Trail(Child(e, t), p)
      BY <1>1, <1>4, <3>2, TrailGrows
    <3> QED
      BY <3>1, <3>3
  <2> QED
    BY <1>3, <2>1, <2>2
<1>10. ASSUME r.status = "UNREACHABLE" PROVE CostsToGoal = {}
  <2>1. Sound(r, AskGraph(p)) /\ r.frontier = {}
    BY <1>1, <1>6, <1>10 DEF Turn
  <2> QED
    BY <2>1, NoCheaperWay
<1>11. ASSUME r.status = "REACHABLE"
       PROVE  /\ Trail(r.found, p) /\ Spot(r.found, p) = job.goal /\ r.found.cost \in Costs(Dimensions)
              /\ \A c \in CostsToGoal : ~Cheaper(c, r.found.cost)
  <2>1. r.found = e /\ goal
    BY <1>5, <1>6, <1>11 DEF Turn
  <2>2. \A c \in CostsToGoal : ~Cheaper(c, e.cost)
    BY <1>1, <1>3, NoCheaperWay
  <2> QED
    BY <1>3, <1>4, <2>1, <2>2
<1>12. ASSUME r.status = "ERROR" PROVE \E x \in job.edges : x.down \cap x.up # {}
  <2>1. throws
    BY <1>6, <1>7, <1>12 DEF Turn
  <2> QED
    BY <2>1 DEF Malformed
<1> QED
  BY <1>1, <1>4, <1>8, <1>9, <1>10, <1>11, <1>12 DEF Searched

\* The inquiry's moves, goal and place are those of the graph of its pass.
LEMMA AskMoves ==
    ASSUME job \in Jobs, Asking, NEW e, e.state \in AskGraph(pass).states
    PROVE  /\ Moves(e) = AskGraph(pass).moves[e.state]
           /\ Goal(e) <=> Spot(e, pass) = job.goal
           /\ Where(e) = Spot(e, pass)
<1>1. job.kind # "casper" /\ ~Repairing
  BY DEF Asking, Questions, Repairing
<1>2. Where(e) = Spot(e, pass)
  BY DEF Where, Spot
<1>3. Goal(e) <=> Spot(e, pass) = job.goal
  BY <1>1, <1>2 DEF Goal
<1>4. Moves(e) = IF pass = "exact" THEN ExactMoves(e.state) ELSE AbstractMoves(e.state)
  BY <1>1 DEF Moves
<1>5. CASE pass = "exact"
  <2>1. e.state \in Products
    BY <1>5 DEF AskGraph, ExactGraph
  <2>2. AskGraph(pass).moves[e.state] = ExactMoves(e.state)
    BY <1>5, <2>1 DEF AskGraph, ExactGraph
  <2> QED
    BY <1>2, <1>3, <1>4, <1>5, <2>2
<1>6. CASE pass # "exact"
  <2>1. e.state \in Nodes
    BY <1>6 DEF AskGraph, AbstractGraph
  <2>2. AskGraph(pass).moves[e.state] = AbstractMoves(e.state)
    BY <1>6, <2>1 DEF AskGraph, AbstractGraph
  <2> QED
    BY <1>2, <1>3, <1>4, <1>6, <2>2
<1> QED
  BY <1>5, <1>6

-----------------------------------------------------------------------------
(* What-ifs: the invariant of an inquiry that asks one.                     *)

AskInv ==
    Asking =>
        /\ cheated = FALSE
        /\ pass \in {None, "abstract", "exact"}
        /\ pass = "exact" => job.kind # "finite-state"
        /\ pass # None => Searched(search, pass)
        /\ answer # None => pass = None \/ search.status # "SEARCHING"

\* What an answer says of a way, a search and the costs of other ways.
AskExact(a, path) ==
    /\ a.status \in {"REACHABLE", "WITNESS_FOUND"} =>
          /\ \A c \in CostsToGoal : ~Cheaper(c, a.cost)
          /\ <<job.goal, a.cost>> \in Ways(a.end, Len(path))
          /\ job.kind # "finite-state" => Cardinality(a.end) =< job.failures
    /\ a.status \in {"UNREACHABLE", "UNREACHABLE_IN_MODEL"} => CostsToGoal = {}
    /\ a.status \in {"INCONCLUSIVE", "LIMIT_REACHED"} => a.cost = None
    /\ a.status = "ERROR" => \E x \in job.edges : x.down \cap x.up # {}

\* Nothing about a what-if changes while its job does not.
LEMMA AskFixed ==
    ASSUME job' = job
    PROVE  /\ Asking' <=> Asking
           /\ \A s, p : Searched(s, p)' <=> Searched(s, p)
           /\ \A a, path : AskExact(a, path)' <=> AskExact(a, path)
<1>1. Asking' <=> Asking
  BY DEF Asking
<1>2. ASSUME NEW p PROVE AskGraph(p)' = AskGraph(p)
  BY DEF AskGraph, AbstractGraph, ExactGraph, Nodes, Comps, Products, AbstractMoves, ExactMoves, EdgeCost, Dimensions
<1>3. CostsToGoal' = CostsToGoal /\ Dimensions' = Dimensions
  BY DEF CostsToGoal, Failures, Ways, Onward, OpenTo, EdgeCost, Dimensions
<1>4. ASSUME NEW e, NEW p PROVE Trail(e, p)' <=> Trail(e, p)
  <2>1. AskSteps(p)' = AskSteps(p)
    BY <1>2 DEF AskSteps
  <2>2. \A f : \A x : OpenTo(x, f)' <=> OpenTo(x, f)
    BY DEF OpenTo
  <2>3. \A f, n : Ways(f, n)' = Ways(f, n)
    BY DEF Ways, Onward, OpenTo, EdgeCost, Dimensions
  <2>4. Feasible(e.path)' <=> Feasible(e.path)
    BY DEF Feasible
  <2> QED
    BY <2>1, <2>2, <2>3, <2>4 DEF Trail
<1>5. ASSUME NEW s, NEW p PROVE Searched(s, p)' <=> Searched(s, p)
  <2>1. AskGraph(p)' = AskGraph(p)
    BY <1>2
  <2>2. Sound(s, AskGraph(p))' <=> Sound(s, AskGraph(p))
    BY <2>1 DEF Sound, Typed, Queued, Waiting, SettledFirst, Started, Expanded
  <2>3. (\A e \in s.frontier : Trail(e, p))' <=> \A e \in s.frontier : Trail(e, p)
    BY <1>4
  <2>4. Trail(s.found, p)' <=> Trail(s.found, p)
    BY <1>4
  <2> QED
    BY <1>3, <2>2, <2>3, <2>4 DEF Searched
<1>6. ASSUME NEW a, NEW path PROVE AskExact(a, path)' <=> AskExact(a, path)
  BY DEF AskExact, CostsToGoal, Failures, Ways, Onward, OpenTo, EdgeCost, Dimensions
<1> QED
  BY <1>1, <1>5, <1>6

\* Which outcome each answer of a what-if stands for.
LEMMA OutcomeOf ==
    ASSUME Asking, cheated = FALSE,
           NEW st \in {"UNREACHABLE", "REACHABLE", "LIMIT_REACHED", "ERROR"}
    PROVE  /\ Outcome(st) \in {"REACHABLE", "WITNESS_FOUND"} <=> st = "REACHABLE"
           /\ Outcome(st) \in {"UNREACHABLE", "UNREACHABLE_IN_MODEL"} <=> st = "UNREACHABLE"
           /\ Outcome(st) = "ERROR" <=> st = "ERROR"
           /\ Outcome(st) # "BLOCKED"
<1>1. job.kind \in {"quantitative", "multi-objective", "finite-state"} /\ ~Repairing
  BY DEF Asking, Questions, Repairing
<1>2. CASE st = "ERROR"
  BY <1>2 DEF Outcome
<1>3. CASE st # "ERROR"
  <2>1. CASE job.kind = "finite-state"
    <3>1. Outcome(st) = CASE st = "REACHABLE" -> "WITNESS_FOUND" [] st = "UNREACHABLE" -> "UNREACHABLE_IN_MODEL" [] OTHER -> "LIMIT_REACHED"
      BY <1>1, <1>3, <2>1 DEF Outcome
    <3> QED
      BY <1>3, <3>1
  <2>2. CASE job.kind # "finite-state"
    <3>1. Outcome(st) = CASE st = "REACHABLE" -> "REACHABLE" [] st = "UNREACHABLE" -> "UNREACHABLE" [] OTHER -> "INCONCLUSIVE"
      BY <1>1, <1>3, <2>2 DEF Outcome
    <3> QED
      BY <1>3, <3>1
  <2> QED
    BY <2>1, <2>2
<1> QED
  BY <1>2, <1>3

AskKnown == job \in Jobs /\ AskInv /\ AnswerIsExact

\* The invariant of a what-if holds at first.
LEMMA AskedInit == InquiryInit => AskKnown
BY NoneAssumption DEF InquiryInit, AskKnown, AskInv, AnswerIsExact

\* Every action keeps it: Open, a turn, the second pass and the answer.
LEMMA AskedNext == AskKnown /\ [InquiryNext]_inquiryVars => AskKnown'
<1> SUFFICES ASSUME AskKnown, [InquiryNext]_inquiryVars PROVE AskKnown'
  OBVIOUS
<1>1. job' = job /\ job \in Jobs
  BY DEF AskKnown, InquiryNext, inquiryVars, Open, Iterate, Refine, Close
<1>2. CASE ~Asking
  BY <1>1, <1>2, AskFixed DEF AskKnown, AskInv, AnswerIsExact
<1> SUFFICES ASSUME Asking PROVE AskKnown'
  BY <1>2
<1>3. /\ cheated = FALSE /\ pass \in {None, "abstract", "exact"}
      /\ pass = "exact" => job.kind # "finite-state"
      /\ pass # None => Searched(search, pass)
      /\ answer # None => pass = None \/ search.status # "SEARCHING"
      /\ answer # None => AskExact(answer, search.found.path)
  BY DEF AskKnown, AskInv, AnswerIsExact, AskExact
<1>4. ASSUME /\ cheated' = FALSE /\ pass' \in {None, "abstract", "exact"}
             /\ pass' = "exact" => job.kind # "finite-state"
             /\ pass' # None => Searched(search', pass')
             /\ answer' # None => pass' = None \/ search'.status # "SEARCHING"
             /\ answer' # None => AskExact(answer', search'.found.path)
      PROVE  AskKnown'
  <2>1. Asking'
    BY <1>1, AskFixed
  <2>2. AskInv'
    BY <1>1, <1>4, AskFixed DEF AskInv
  <2>3. answer' # None => AskExact(answer, search.found.path)'
    BY <1>1, <1>4, AskFixed
  <2>4. AnswerIsExact'
    BY <2>3 DEF AnswerIsExact, AskExact
  <2> QED
    BY <1>1, <2>2, <2>4 DEF AskKnown
<1>5. job.kind \in Questions /\ job.kind \notin {"casper", "repair", "coverage"} /\ ~Repairing
  BY DEF Asking, Questions, Repairing
<1>6. CASE Open
  <2>1. Refusal = None
    BY <1>5 DEF Refusal
  <2>2. search' = StartSearch(job.start, job.start, Dimensions) /\ pass' = "abstract" /\ answer' = None /\ cheated' = cheated
    BY <1>5, <1>6, <2>1 DEF Open, Begin
  <2>3. Searched(search', pass')
    <3>1. PICK st : st = job.start
      OBVIOUS
    <3>2. PICK d : d = Dimensions
      OBVIOUS
    <3>3. Searched(StartSearch(st, st, d), "abstract")
      BY <1>1, <3>1, <3>2, SearchBegins
    <3> QED
      BY <2>2, <3>1, <3>2, <3>3
  <2> QED
    BY <1>3, <1>4, <2>2, <2>3
<1>7. CASE Iterate
  <2>1. /\ pass # None /\ search.status = "SEARCHING" /\ pass' = pass /\ answer' = answer
        /\ Searched(search, pass) /\ answer = None
    BY <1>3, <1>7 DEF Iterate
  <2>2. PICK e \in NextInQueue(search) :
           /\ search' = Visit(search, e, Moves(e), Goal(e), Asking /\ Malformed(Where(e)), Limit, Strict)
           /\ cheated' = (cheated \/ /\ Repairing
                                     /\ e.key \in search'.settled \ search.settled
                                     /\ search'.status # "REACHABLE"
                                     /\ Cheats(Request, e.state) # {})
    BY <1>7 DEF Iterate
  <2>3. cheated' = FALSE
    BY <1>3, <1>5, <2>2
  <2>4. e.state \in AskGraph(pass).states
    <3>1. Sound(search, AskGraph(pass)) /\ e \in search.frontier
      BY <2>1 DEF Searched, NextInQueue
    <3> QED
      BY <3>1 DEF Sound, Queued, Typed
  <2>5. /\ Moves(e) = AskGraph(pass).moves[e.state]
        /\ Goal(e) <=> Spot(e, pass) = job.goal
        /\ Where(e) = Spot(e, pass)
    BY <1>1, <2>4, AskMoves
  <2>6. PICK out : out = Moves(e)
    OBVIOUS
  <2>7. PICK goal \in BOOLEAN : goal = Goal(e)
    BY <1>5 DEF Goal
  <2>8. PICK throws \in BOOLEAN : throws = (Asking /\ Malformed(Where(e)))
    OBVIOUS
  <2>9. PICK strict \in BOOLEAN : strict = Strict
    BY DEF Strict
  <2>10. PICK limit : limit = Limit
    OBVIOUS
  <2>11. PICK r : r = Visit(search, e, out, goal, throws, limit, strict)
    OBVIOUS
  <2>12. search' = r
    BY <2>2, <2>6, <2>7, <2>8, <2>9, <2>10, <2>11
  <2>13. throws <=> Malformed(Spot(e, pass))
    BY <2>5, <2>8
  <2>14. goal <=> Spot(e, pass) = job.goal
    BY <2>5, <2>7
  <2>15. out = AskGraph(pass).moves[e.state]
    BY <2>5, <2>6
  <2>16. PICK s : s = search
    OBVIOUS
  <2>17. PICK p : p = pass
    OBVIOUS
  <2>18. Searched(r, p)
    <3>1. p = "exact" => job.kind # "finite-state"
      BY <1>3, <2>17
    <3>2. Searched(s, p) /\ s.status = "SEARCHING" /\ e \in NextInQueue(s)
      BY <2>1, <2>16, <2>17
    <3>3. goal <=> Spot(e, p) = job.goal
      BY <2>14, <2>17
    <3>4. throws <=> Malformed(Spot(e, p))
      BY <2>13, <2>17
    <3>5. out = AskGraph(p).moves[e.state] /\ r = Visit(s, e, out, goal, throws, limit, strict)
      BY <2>11, <2>15, <2>16, <2>17
    <3> QED
      BY <1>1, <3>1, <3>2, <3>3, <3>4, <3>5, SearchTurns
  <2> QED
    BY <1>3, <1>4, <2>1, <2>3, <2>12, <2>17, <2>18
<1>8. CASE Refine
  <2>1. /\ pass # None /\ answer = None /\ pass' = "exact" /\ cheated' = cheated /\ answer' = answer
        /\ job.kind # "finite-state" /\ search.status = "REACHABLE"
    BY <1>8 DEF Refine, Spurious
  <2>2. PICK st : st = Product(job.start, {}, {})
    OBVIOUS
  <2>3. PICK d : d = Len(search.found.cost)
    OBVIOUS
  <2>4. search' = StartSearch(st, st, d)
    BY <1>8, <2>2, <2>3 DEF Refine
  <2>5. d = Dimensions
    <3>1. search.found.cost \in [1 .. Dimensions -> Nat] /\ Dimensions \in Nat
      BY <1>1, <1>3, <2>1, AskTyped DEF Searched, Costs
    <3>2. PICK n \in Nat : n = Dimensions
      BY <3>1
    <3>3. PICK c \in [1 .. n -> Nat] : c = search.found.cost
      BY <3>1, <3>2
    <3> QED
      BY <2>3, <3>2, <3>3
  <2>6. Searched(StartSearch(st, st, d), "exact")
    BY <1>1, <2>2, <2>5, SearchBegins
  <2> QED
    BY <1>3, <1>4, <2>1, <2>4, <2>6
<1>9. CASE Close
  <2>1. /\ pass # None /\ answer = None /\ search.status # "SEARCHING" /\ ~Spurious
        /\ pass' = pass /\ search' = search /\ cheated' = cheated
    BY <1>9 DEF Close
  <2>2. Searched(search, pass)
    BY <1>3, <2>1
  <2>3. PICK st : st = search.status
    OBVIOUS
  <2>4. st \in {"UNREACHABLE", "REACHABLE", "LIMIT_REACHED", "ERROR"}
    BY <2>1, <2>2, <2>3 DEF Searched
  <2>5. PICK o : o = Outcome(st)
    OBVIOUS
  <2>6. /\ o \in {"REACHABLE", "WITNESS_FOUND"} <=> st = "REACHABLE"
        /\ o \in {"UNREACHABLE", "UNREACHABLE_IN_MODEL"} <=> st = "UNREACHABLE"
        /\ o = "ERROR" <=> st = "ERROR"
        /\ o # "BLOCKED"
    BY <1>3, <2>4, <2>5, OutcomeOf
  <2>7. PICK a : a = answer'
    OBVIOUS
  <2>8. /\ a.status = o
        /\ st # "REACHABLE" => a.cost = None
        /\ st = "REACHABLE" => a.cost = search.found.cost /\ a.end = Down(search.found.path)
    BY <1>9, <2>3, <2>5, <2>6, <2>7 DEF Close
  <2>9. ASSUME st = "REACHABLE"
        PROVE  /\ \A c \in CostsToGoal : ~Cheaper(c, a.cost)
               /\ <<job.goal, a.cost>> \in Ways(a.end, Len(search.found.path))
               /\ job.kind # "finite-state" => Cardinality(a.end) =< job.failures
    <3>1. PICK f : f = search.found
      OBVIOUS
    <3>2. Trail(f, pass) /\ Spot(f, pass) = job.goal /\ \A c \in CostsToGoal : ~Cheaper(c, f.cost)
      BY <2>2, <2>3, <2>9, <3>1 DEF Searched
    <3>3. job.kind = "finite-state" \/ Feasible(f.path)
      <4>1. CASE pass = "exact"
        BY <3>2, <4>1 DEF Trail
      <4>2. CASE pass = "abstract"
        <5>1. job.kind = "finite-state" \/ job.kind \in {"quantitative", "multi-objective"}
          BY <1>5 DEF Questions
        <5> QED
          BY <2>1, <2>3, <2>9, <3>1, <4>2, <5>1 DEF Spurious
      <4> QED
        BY <1>3, <2>1, <4>1, <4>2
    <3>4. <<Spot(f, pass), f.cost>> \in Ways(Down(f.path), Len(f.path))
      BY <1>1, <3>2, <3>3, WitnessIsWay
    <3> QED
      BY <2>8, <2>9, <3>1, <3>2, <3>3, <3>4 DEF Feasible
  <2>10. st = "UNREACHABLE" => CostsToGoal = {}
    BY <2>2, <2>3 DEF Searched
  <2>11. st = "ERROR" => \E x \in job.edges : x.down \cap x.up # {}
    BY <2>2, <2>3 DEF Searched
  <2>12. a.status \in {"INCONCLUSIVE", "LIMIT_REACHED"} => a.cost = None
    BY <2>6, <2>8
  <2>13. AskExact(a, search.found.path)
    BY <2>6, <2>8, <2>9, <2>10, <2>11, <2>12 DEF AskExact
  <2> QED
    BY <1>3, <1>4, <2>1, <2>7, <2>13
<1>10. CASE UNCHANGED inquiryVars
  BY <1>3, <1>4, <1>10 DEF inquiryVars
<1> QED
  BY <1>6, <1>7, <1>8, <1>9, <1>10 DEF InquiryNext

\* A what-if is answered exactly, in every state of every inquiry and whatever its edges, their
\* costs and the number of failures: the witness is a way under the failures it names, no way of
\* up to Depth steps is cheaper under any that are allowed, and unreachable means there is none
\* (analyzeQuantitativeWhatIf 74-208, analyzeMultiObjectiveWhatIf 74-209).
THEOREM AnswerKept == InquirySpec => []AnswerIsExact
<1>1. AskKnown => AnswerIsExact
  BY DEF AskKnown
<1> QED
  BY <1>1, AskedInit, AskedNext, PTL DEF InquirySpec

-----------------------------------------------------------------------------
(* Repairs: what the verifier says, and the graph of honest moves.          *)

Space == SpaceOf(Request)
Honest == {s \in DOMAIN Space.moves : SameClaim(Space.problem[s], Request.original)}

\* The transition of the search for a move of the space.
Repairs(t) == [to |-> t.to, key |-> Space.key[t.to], cost |-> t.cost]

RepairGraph ==
    [states |-> Honest, start |-> Space.initial, key |-> [s \in Honest |-> Space.key[s]],
     moves |-> [s \in Honest |-> {Repairs(t) : t \in HonestMoves(Request, s)}],
     goals |-> {s \in Honest : Repaired(Request, s)}, dims |-> Space.dims]

\* An artifact answers for the problem and the adapter unless the adapter says otherwise.
LEMMA ArtifactIs ==
    ASSUME NEW a, NEW p, p.payload \in DOMAIN a.verify, "outcome" \in DOMAIN a.verify[p.payload]
    PROVE  /\ ArtifactMatches(ArtifactOf(a, p), p, a) <=>
                 \A part \in DOMAIN a.verify[p.payload] \cap DOMAIN Standard(a, p) :
                     a.verify[p.payload][part] = Standard(a, p)[part]
           /\ ArtifactOf(a, p).outcome = a.verify[p.payload].outcome
<1>1. PICK said : said = a.verify[p.payload]
  OBVIOUS
<1>2. PICK due : due = Standard(a, p)
  OBVIOUS
<1>3. /\ DOMAIN due = {"problem", "family", "claim", "adapter", "version"}
      /\ due["problem"] = p.id /\ due["family"] = p.family /\ due["claim"] = p.claim
      /\ due["adapter"] = a.id /\ due["version"] = a.version
  BY <1>2 DEF Standard
<1>4. PICK art : art = ArtifactOf(a, p)
  OBVIOUS
<1>5. art = Over(said, due)
  BY <1>1, <1>2, <1>4 DEF ArtifactOf
<1>6. /\ \A k \in DOMAIN said : art[k] = said[k]
      /\ \A k \in DOMAIN due : k \notin DOMAIN said => art[k] = due[k]
  <2>1. /\ \A k \in DOMAIN said : Over(said, due)[k] = said[k]
        /\ \A k \in DOMAIN due : k \notin DOMAIN said => Over(said, due)[k] = due[k]
    BY OverMeans
  <2> QED
    BY <1>5, <2>1
<1>7. ArtifactMatches(art, p, a) <=> \A k \in {"problem", "family", "claim", "adapter", "version"} : art[k] = due[k]
  BY <1>3 DEF ArtifactMatches
<1>8. (\A k \in DOMAIN due : art[k] = due[k]) <=> \A part \in DOMAIN said \cap DOMAIN due : said[part] = due[part]
  BY <1>6
<1>9. art["outcome"] = said["outcome"]
  BY <1>1, <1>6
<1> QED
  BY <1>1, <1>2, <1>3, <1>4, <1>7, <1>8, <1>9

\* One adapter compiles a verification when it is of the family and answers for the problem.
LEMMA Compiles ==
    ASSUME NEW a, a.priority \in Int, NEW p, OfFamily(a, p.family)
    PROVE  /\ p.payload \notin DOMAIN a.verify => CompileVerification(p, {a}) = None
           /\ p.payload \in DOMAIN a.verify =>
                 CompileVerification(p, {a}) = IF ArtifactMatches(ArtifactOf(a, p), p, a) THEN ArtifactOf(a, p) ELSE None
<1>1. CASE p.payload \notin DOMAIN a.verify
  <2>1. Best(Compatible(p, {a})) = {}
    BY <1>1 DEF Compatible, Best
  <2>2. Cardinality(Best(Compatible(p, {a}))) = 0
    BY <2>1, FS_EmptySet
  <2> QED
    BY <1>1, <2>2 DEF CompileVerification
<1>2. CASE p.payload \in DOMAIN a.verify
  <2>1. Compatible(p, {a}) = {a}
    BY <1>2 DEF Compatible
  <2>2. Best({a}) = {a}
    BY DEF Best
  <2>3. Cardinality({a}) = 1 /\ (CHOOSE b \in {a} : TRUE) = a
    BY FS_Singleton
  <2> QED
    BY <1>2, <2>1, <2>2, <2>3 DEF CompileVerification
<1> QED
  BY <1>1, <1>2

\* A verifier says nothing of a problem of another family.
LEMMA NotOfFamily ==
    ASSUME NEW a, NEW p, ~OfFamily(a, p.family)
    PROVE  CompileVerification(p, {a}) = None
<1>1. Best(Compatible(p, {a})) = {}
  BY DEF Compatible, Best
<1>2. Cardinality(Best(Compatible(p, {a}))) = 0
  BY <1>1, FS_EmptySet
<1> QED
  BY <1>2 DEF CompileVerification

\* What the assumptions on spaces and verifiers say of a repair that is not blocked.
LEMMA SpaceTyped ==
    ASSUME job \in Jobs, Repairing, ~RepairBlocked(Request)
    PROVE  /\ Space.dims \in Nat /\ Space.initial \in Honest
           /\ Space.problem[Space.initial].payload = Request.original.payload
           /\ \A s \in DOMAIN Space.moves :
                 /\ IsFiniteSet(Space.moves[s])
                 /\ \A t \in Space.moves[s] : t.to \in DOMAIN Space.moves /\ t.cost \in Costs(Space.dims)
                 /\ Space.problem[s].payload \in DOMAIN Request.verifier.verify =>
                       ArtifactOf(Request.verifier, Space.problem[s]) # None
<1>1. Cardinality(Repairers(Request)) = 1
  BY DEF RepairBlocked
<1>2. Repairers(Request) # {}
  BY <1>1, FS_EmptySet
<1>3. PICK a \in Repairers(Request) : a = CHOOSE b \in Repairers(Request) : TRUE
  BY <1>2
<1>4. a \in Request.repairers /\ Space = a.space
  BY <1>3 DEF Repairers, Best, Space, SpaceOf
<1>5. job.kind \in {"repair", "coverage"} /\ Request = job.request
  BY DEF Repairing, Request
<1>6. PICK sp : sp = Space
  OBVIOUS
<1>7. /\ sp.dims \in Nat /\ sp.initial \in DOMAIN sp.moves
      /\ \A s \in DOMAIN sp.moves :
            /\ IsFiniteSet(sp.moves[s])
            /\ \A t \in sp.moves[s] : t.to \in DOMAIN sp.moves /\ t.cost \in [1 .. sp.dims -> Nat]
  BY <1>4, <1>5, <1>6, SpaceAssumption
<1>8. \A s \in DOMAIN sp.moves : sp.problem[s].payload \in DOMAIN Request.verifier.verify =>
          ArtifactOf(Request.verifier, sp.problem[s]) # None
  BY <1>4, <1>5, <1>6, VerifierAssumption
<1>9. /\ SameClaim(Space.problem[Space.initial], Request.original)
      /\ Space.problem[Space.initial].payload = Request.original.payload
  BY DEF RepairBlocked, Space
<1> QED
  BY <1>6, <1>7, <1>8, <1>9 DEF Honest, Costs

\* The search accepts a state when the verifier says of its problem that it is unreachable.
LEMMA RepairedIs ==
    ASSUME job \in Jobs, Repairing, ~RepairBlocked(Request), NEW s \in Honest
    PROVE  /\ Repaired(Request, s) <=> Verdict(s) = "UNREACHABLE_IN_MODEL"
           /\ s = Space.initial => Verdict(s) = "WITNESS_FOUND"
<1>1. PICK v : v = Request.verifier
  OBVIOUS
<1>2. PICK p : p = Space.problem[s]
  OBVIOUS
<1>3. PICK q : q = Request.original
  OBVIOUS
<1>4. job.kind \in {"repair", "coverage"} /\ Request = job.request
  BY DEF Repairing, Request
<1>5. /\ v.priority \in Int /\ Request.artifact # None
      /\ \A x \in DOMAIN v.verify : "outcome" \in DOMAIN v.verify[x]
  BY <1>1, <1>4, VerifierAssumption
<1>6. p.id = q.id /\ p.family = q.family /\ p.claim = q.claim /\ SameClaim(p, q) /\ s \in DOMAIN Space.moves
  BY <1>2, <1>3 DEF Honest, SameClaim
<1>7. CompileVerification(q, {v}) = Request.artifact /\ Request.artifact.outcome = "WITNESS_FOUND"
  BY <1>1, <1>3 DEF RepairBlocked, OriginalArtifactMatches
<1>8. OfFamily(v, q.family)
  BY <1>5, <1>7, NotOfFamily
<1>9. OfFamily(v, p.family)
  BY <1>6, <1>8
<1>10. p.payload \in DOMAIN v.verify => ArtifactOf(v, p) # None
  BY <1>1, <1>2, <1>6, SpaceTyped
<1>11. Verdict(s) = IF /\ p.payload \in DOMAIN v.verify
                       /\ \A part \in DOMAIN v.verify[p.payload] \cap DOMAIN Standard(v, p) :
                             v.verify[p.payload][part] = Standard(v, p)[part]
                    THEN v.verify[p.payload].outcome ELSE None
  BY <1>1, <1>2 DEF Verdict, Space
<1>12. Repaired(Request, s) <=> CompileVerification(p, {v}) # None /\ CompileVerification(p, {v}).outcome = "UNREACHABLE_IN_MODEL"
  BY <1>1, <1>2, <1>3, <1>6 DEF Repaired, VerificationSucceeded, Space
<1>13. ASSUME s = Space.initial PROVE Verdict(s) = "WITNESS_FOUND"
  <2>1. p.payload = q.payload
    BY <1>2, <1>3, <1>13, SpaceTyped
  <2>2. q.payload \in DOMAIN v.verify
    BY <1>5, <1>7, <1>8, Compiles
  <2>3. ArtifactMatches(ArtifactOf(v, q), q, v) /\ ArtifactOf(v, q) = Request.artifact
    BY <1>5, <1>7, <1>8, <2>2, Compiles
  <2>4. /\ \A part \in DOMAIN v.verify[q.payload] \cap DOMAIN Standard(v, q) :
               v.verify[q.payload][part] = Standard(v, q)[part]
        /\ v.verify[q.payload].outcome = "WITNESS_FOUND"
    BY <1>5, <1>7, <2>2, <2>3, ArtifactIs
  <2>5. Standard(v, q) = Standard(v, p)
    BY <1>6 DEF Standard
  <2> QED
    BY <1>11, <2>1, <2>2, <2>4, <2>5
<1>14. CASE p.payload \notin DOMAIN v.verify
  <2>1. CompileVerification(p, {v}) = None
    BY <1>5, <1>9, <1>14, Compiles
  <2> QED
    BY <1>11, <1>12, <1>13, <1>14, <2>1, NoneAssumption
<1>15. CASE p.payload \in DOMAIN v.verify
  <2>1. CompileVerification(p, {v}) = IF ArtifactMatches(ArtifactOf(v, p), p, v) THEN ArtifactOf(v, p) ELSE None
    BY <1>5, <1>9, <1>15, Compiles
  <2>2. /\ ArtifactMatches(ArtifactOf(v, p), p, v) <=>
               \A part \in DOMAIN v.verify[p.payload] \cap DOMAIN Standard(v, p) :
                   v.verify[p.payload][part] = Standard(v, p)[part]
        /\ ArtifactOf(v, p).outcome = v.verify[p.payload].outcome
    BY <1>5, <1>15, ArtifactIs
  <2>3. Repaired(Request, s) <=> ArtifactMatches(ArtifactOf(v, p), p, v) /\ v.verify[p.payload].outcome = "UNREACHABLE_IN_MODEL"
    BY <1>10, <1>12, <1>15, <2>1, <2>2
  <2>4. Verdict(s) = IF ArtifactMatches(ArtifactOf(v, p), p, v) THEN v.verify[p.payload].outcome ELSE None
    BY <1>11, <1>15, <2>2
  <2> QED
    BY <1>13, <2>3, <2>4, NoneAssumption
<1> QED
  BY <1>14, <1>15

\* A repair searches a graph.
LEMMA RepairIsGraph ==
    ASSUME job \in Jobs, Repairing, ~RepairBlocked(Request)
    PROVE  Graph(RepairGraph)
<1>1. PICK g : g = RepairGraph
  OBVIOUS
<1>2. PICK sp : sp = Space
  OBVIOUS
<1>3. PICK rep : rep = [t \in UNION {sp.moves[s] : s \in DOMAIN sp.moves} |-> Repairs(t)]
  OBVIOUS
<1>4. /\ g.states = Honest /\ g.start = sp.initial /\ g.dims = sp.dims
      /\ \A s \in Honest : g.key[s] = sp.key[s] /\ g.moves[s] = {Repairs(t) : t \in HonestMoves(Request, s)}
  BY <1>1, <1>2 DEF RepairGraph
<1>5. /\ sp.dims \in Nat /\ sp.initial \in Honest
      /\ \A s \in DOMAIN sp.moves :
            /\ IsFiniteSet(sp.moves[s])
            /\ \A t \in sp.moves[s] : t.to \in DOMAIN sp.moves /\ t.cost \in Costs(sp.dims)
  BY <1>2, SpaceTyped
<1>6. ASSUME NEW s \in Honest
      PROVE  /\ IsFiniteSet(g.moves[s])
             /\ \A t \in g.moves[s] : t.to \in Honest /\ t.key = g.key[t.to] /\ t.cost \in Costs(sp.dims)
  <2>1. PICK H : H = HonestMoves(Request, s)
    OBVIOUS
  <2>2. s \in DOMAIN sp.moves
    BY <1>2 DEF Honest
  <2>3. H \subseteq sp.moves[s] /\ \A t \in H : SameClaim(sp.problem[t.to], Request.original)
    BY <1>2, <2>1 DEF HonestMoves, Cheats, Space
  <2>4. IsFiniteSet(H)
    BY <1>5, <2>2, <2>3, FS_Subset
  <2>5. g.moves[s] = {rep[t] : t \in H}
    BY <1>3, <1>4, <2>1, <2>2, <2>3
  <2>6. ASSUME NEW t \in H PROVE rep[t].to \in Honest /\ rep[t].key = g.key[rep[t].to] /\ rep[t].cost \in Costs(sp.dims)
    <3>1. rep[t] = Repairs(t)
      BY <1>3, <2>2, <2>3
    <3>2. t.to \in Honest /\ t.cost \in Costs(sp.dims)
      BY <1>2, <1>5, <2>2, <2>3 DEF Honest
    <3>3. rep[t].to = t.to /\ rep[t].key = sp.key[t.to] /\ rep[t].cost = t.cost
      BY <1>2, <3>1 DEF Repairs
    <3> QED
      BY <1>4, <3>2, <3>3
  <2> QED
    BY <2>4, <2>5, <2>6, ImageFinite
<1> QED
  BY <1>1, <1>4, <1>5, <1>6 DEF Graph

-----------------------------------------------------------------------------
(* The ways of a repair, and that a search covers them.                     *)

\* Its moves are those that leave the claim as it is.
LEMMA RepairOnwardIs ==
    ASSUME job \in Jobs, Repairing, ~RepairBlocked(Request), NEW w \in Honest \X Costs(Space.dims)
    PROVE  /\ RepairOnward(w) = {<<t.to, AddCosts(w[2], t.cost)>> : t \in RepairGraph.moves[w[1]]}
           /\ RepairOnward(w) \subseteq Honest \X Costs(Space.dims)
<1>1. PICK s \in Honest : s = w[1]
  OBVIOUS
<1>2. PICK c \in Costs(Space.dims) : c = w[2]
  OBVIOUS
<1>3. PICK H : H = HonestMoves(Request, s)
  OBVIOUS
<1>4. H = {u \in Space.moves[s] : SameClaim(Space.problem[u.to], Request.original)}
  BY <1>3 DEF HonestMoves, Cheats, Space
<1>5. RepairOnward(w) = {<<t.to, AddCosts(c, t.cost)>> : t \in H}
  BY <1>1, <1>2, <1>4 DEF RepairOnward, Space
<1>6. PICK M : M = {Repairs(t) : t \in H}
  OBVIOUS
<1>7. RepairGraph.moves[s] = M /\ RepairGraph.dims = Space.dims /\ RepairGraph.states = Honest
  BY <1>3, <1>6 DEF RepairGraph
<1>8. \A t : Repairs(t).to = t.to /\ Repairs(t).cost = t.cost
  BY DEF Repairs
<1>9. {<<t.to, AddCosts(c, t.cost)>> : t \in H} = {<<t.to, AddCosts(c, t.cost)>> : t \in M}
  BY <1>6, <1>8
<1>10. ASSUME NEW t \in M PROVE <<t.to, AddCosts(c, t.cost)>> \in Honest \X Costs(Space.dims)
  <2>1. t.to \in Honest /\ t.cost \in Costs(Space.dims) /\ Space.dims \in Nat
    BY <1>7, RepairIsGraph DEF Graph
  <2> QED
    BY <2>1, CostsAdd
<1> QED
  BY <1>1, <1>2, <1>5, <1>7, <1>9, <1>10

\* A way of n + 1 moves is one of n moves and an honest move.
LEMMA RepairWaysMean ==
    ASSUME job \in Jobs, Repairing, ~RepairBlocked(Request)
    PROVE  /\ RepairWays(0) = {<<Space.initial, Free(Space.dims)>>}
           /\ \A n \in Nat : RepairWays(n + 1) = UNION {RepairOnward(w) : w \in RepairWays(n)}
           /\ \A n \in Nat : RepairWays(n) \subseteq Honest \X Costs(Space.dims)
<1>1. PICK W : W = Honest \X Costs(Space.dims)
  OBVIOUS
<1>2. PICK a : a = {<<Space.initial, Free(Space.dims)>>}
  OBVIOUS
<1>3. a \in SUBSET W
  <2>1. Space.initial \in Honest /\ Free(Space.dims) \in Costs(Space.dims)
    BY SpaceTyped, FreeTyped
  <2> QED
    BY <1>1, <1>2, <2>1
<1>4. PICK X : X = SUBSET W
  OBVIOUS
<1>5. PICK h : h = [S \in X |-> UNION {RepairOnward(w) : w \in S}]
  OBVIOUS
<1>6. \A w \in W : RepairOnward(w) \subseteq W
  BY <1>1, RepairOnwardIs
<1>7. a \in X /\ h \in [X -> X]
  BY <1>3, <1>4, <1>5, <1>6
<1>8. PICK F : Orbit(F, X, a, h)
  BY <1>7, Repeated
<1>9. F \in [Nat -> X] /\ F[0] = a /\ \A n \in Nat : F[n + 1] = h[F[n]]
  BY <1>8 DEF Orbit
<1>10. ASSUME NEW n \in Nat PROVE RepairWays(n) = F[n]
  <2> DEFINE Go(p) == [k \in 0 .. n |-> IF k = 0 THEN {<<Space.initial, Free(Space.dims)>>}
                                       ELSE UNION {RepairOnward(w) : w \in p[k - 1]}]
  <2>1. RepairWays(n) = (CHOOSE p : p = Go(p))[n]
    BY DEF RepairWays, Space
  <2>2. \E p : p = Go(p)
    <3>1. PICK p : p = [k \in 0 .. n |-> F[k]]
      OBVIOUS
    <3>2. ASSUME NEW k \in 0 .. n PROVE p[k] = Go(p)[k]
      <4>1. CASE k = 0
        BY <1>2, <1>9, <3>1, <4>1
      <4>2. CASE k # 0
        <5>1. k - 1 \in Nat /\ (k - 1) + 1 = k /\ k - 1 \in 0 .. n
          BY <4>2
        <5>2. p[k] = h[F[k - 1]] /\ p[k - 1] = F[k - 1] /\ F[k - 1] \in X
          BY <1>9, <3>1, <5>1
        <5> QED
          BY <1>5, <4>2, <5>2
      <4> QED
        BY <4>1, <4>2
    <3>3. p = [k \in 0 .. n |-> p[k]]
      BY <3>1
    <3> QED
      BY <3>2, <3>3
  <2>3. PICK p : p = CHOOSE q : q = Go(q)
    OBVIOUS
  <2>4. p = Go(p)
    <3> HIDE DEF Go
    <3> QED
      BY <2>2, <2>3
  <2>5. p[0] = a
    <3>1. Go(p)[0] = a
      BY <1>2
    <3> HIDE DEF Go
    <3> QED
      BY <2>4, <3>1
  <2>6. ASSUME NEW k \in 1 .. n, p[k - 1] \in X PROVE p[k] = h[p[k - 1]]
    <3>1. Go(p)[k] = UNION {RepairOnward(w) : w \in p[k - 1]}
      OBVIOUS
    <3>2. p[k] = Go(p)[k]
      <4> HIDE DEF Go
      <4> QED
        BY <2>4
    <3> HIDE DEF Go
    <3> QED
      BY <1>5, <2>6, <3>1, <3>2
  <2>7. \A k \in 0 .. n : p[k] = F[k]
    <3>1. \A k \in 1 .. n : p[k - 1] \in X => p[k] = h[p[k - 1]]
      BY <2>6
    <3>2. Stepwise(p, n, X, a, h)
      BY <2>5, <3>1 DEF Stepwise
    <3> HIDE DEF Go
    <3> QED
      BY <1>8, <3>2, Unfolds
  <2> HIDE DEF Go
  <2> QED
    BY <2>1, <2>3, <2>7
<1>11. RepairWays(0) = {<<Space.initial, Free(Space.dims)>>}
  BY <1>2, <1>9, <1>10
<1>12. ASSUME NEW n \in Nat
       PROVE  RepairWays(n + 1) = UNION {RepairOnward(w) : w \in RepairWays(n)} /\ RepairWays(n) \subseteq W
  <2>1. F[n] \in X /\ F[n + 1] = h[F[n]] /\ n + 1 \in Nat
    BY <1>9
  <2> QED
    BY <1>4, <1>5, <1>10, <2>1
<1> QED
  BY <1>1, <1>11, <1>12

\* A sound search of a repair covers every way of honest moves.
LEMMA RepairCovers ==
    ASSUME job \in Jobs, Repairing, ~RepairBlocked(Request), NEW s, Sound(s, RepairGraph), NEW n \in Nat
    PROVE  \A w \in RepairWays(n) : Covers(s, w[1], w[2])
<1>1. PICK g : g = RepairGraph
  OBVIOUS
<1>2. Graph(g) /\ Sound(s, g) /\ g.states = Honest /\ g.start = Space.initial /\ g.dims = Space.dims
  BY <1>1, RepairIsGraph DEF RepairGraph
<1> DEFINE S == {k \in 0 .. n : \A w \in RepairWays(k) : Covers(s, w[1], w[2])}
<1>3. 0 \in S
  <2>1. Covers(s, Space.initial, Free(Space.dims))
    BY <1>2, CoversStart
  <2> QED
    BY <2>1, RepairWaysMean
<1>4. ASSUME NEW k \in 1 .. n, k - 1 \in S PROVE k \in S
  <2>1. PICK m \in Nat : m = k - 1 /\ m + 1 = k
    OBVIOUS
  <2>2. RepairWays(k) = UNION {RepairOnward(u) : u \in RepairWays(m)}
    BY <2>1, RepairWaysMean
  <2>3. ASSUME NEW w \in RepairWays(k) PROVE Covers(s, w[1], w[2])
    <3>1. PICK u \in RepairWays(m) : w \in RepairOnward(u)
      BY <2>2
    <3>2. u \in Honest \X Costs(Space.dims) /\ Covers(s, u[1], u[2])
      BY <1>4, <2>1, RepairWaysMean
    <3>3. PICK t \in g.moves[u[1]] : w = <<t.to, AddCosts(u[2], t.cost)>>
      BY <1>1, <3>1, <3>2, RepairOnwardIs
    <3>4. u[1] \in g.states /\ u[2] \in Costs(g.dims)
      BY <1>2, <3>2
    <3>5. Covers(s, t.to, AddCosts(u[2], t.cost))
      BY <1>2, <3>2, <3>4, CoversStep
    <3> QED
      BY <3>3, <3>5
  <2> QED
    BY <2>3
<1>5. 0 .. n \subseteq S
  <2> HIDE DEF S
  <2> QED
    BY <1>3, <1>4, Throughout
<1> QED
  BY <1>5

\* What is next in its queue costs no more than any repair that is accepted.
LEMMA NoCheaperRepair ==
    ASSUME job \in Jobs, Repairing, ~RepairBlocked(Request), NEW s, Sound(s, RepairGraph), NEW c \in RepairCosts
    PROVE  s.frontier # {} /\ \A e \in NextInQueue(s) : ~Cheaper(c, e.cost)
<1>1. PICK n \in 0 .. Depth : \E w \in RepairWays(n) : Verdict(w[1]) = "UNREACHABLE_IN_MODEL" /\ w[2] = c
  BY DEF RepairCosts
<1>2. PICK w \in RepairWays(n) : Verdict(w[1]) = "UNREACHABLE_IN_MODEL" /\ w[2] = c
  BY <1>1
<1>3. n \in Nat
  BY DepthAssumption
<1>4. w \in Honest \X Costs(Space.dims)
  BY <1>2, <1>3, RepairWaysMean
<1>5. PICK g : g = RepairGraph
  OBVIOUS
<1>6. Graph(g) /\ Sound(s, g) /\ g.dims = Space.dims /\ g.goals = {v \in Honest : Repaired(Request, v)}
  BY <1>5, RepairIsGraph DEF RepairGraph
<1>7. PICK v : v = w[1]
  OBVIOUS
<1>8. v \in g.goals /\ c \in Costs(g.dims)
  BY <1>2, <1>4, <1>6, <1>7, RepairedIs
<1>9. Covers(s, v, c)
  BY <1>2, <1>3, <1>7, RepairCovers
<1> QED
  BY <1>6, <1>8, <1>9, CoversGoal

-----------------------------------------------------------------------------
(* The turns of a repair's search.                                          *)

RepairTrail(e) == e.path \in Seq(UNION {RepairGraph.moves[s] : s \in Honest}) /\ <<e.state, e.cost>> \in RepairWays(Len(e.path))

\* What the search for a repair has found out.
RepairFound(s) ==
    /\ s.status \in {"SEARCHING", "UNREACHABLE", "REACHABLE", "LIMIT_REACHED", "ERROR"}
    /\ s.status = "SEARCHING" => Sound(s, RepairGraph) /\ \A e \in s.frontier : RepairTrail(e)
    /\ s.status = "UNREACHABLE" => RepairCosts = {}
    /\ s.status = "REACHABLE" =>
          /\ RepairTrail(s.found) /\ s.found.state \in Honest /\ Repaired(Request, s.found.state)
          /\ \A c \in RepairCosts : ~Cheaper(c, s.found.cost)

\* A repair begins with nothing found out that is wrong.
LEMMA RepairBegins ==
    ASSUME job \in Jobs, Repairing, ~RepairBlocked(Request)
    PROVE  RepairFound(StartSearch(Space.initial, Space.key[Space.initial], Space.dims))
<1>1. PICK g : g = RepairGraph
  OBVIOUS
<1>2. PICK start : start = Space.initial
  OBVIOUS
<1>3. start \in Honest
  BY <1>2, SpaceTyped
<1>4. Graph(g) /\ g.dims = Space.dims /\ g.start = start /\ g.key[start] = Space.key[start]
  BY <1>1, <1>2, <1>3, RepairIsGraph DEF RepairGraph
<1>5. PICK s : s = StartSearch(g.start, g.key[g.start], g.dims)
  OBVIOUS
<1>6. PICK e : e = [state |-> g.start, key |-> g.key[g.start], cost |-> Free(g.dims), path |-> <<>>]
  OBVIOUS
<1>7. Sound(s, g) /\ s.status = "SEARCHING" /\ s.frontier = {e}
  BY <1>4, <1>5, <1>6, StartSound
<1>8. e.state = start /\ e.path = <<>> /\ e.cost = Free(Space.dims)
  BY <1>4, <1>6
<1>9. RepairTrail(e)
  <2>1. <<start, Free(Space.dims)>> \in RepairWays(0)
    BY <1>2, RepairWaysMean
  <2> QED
    BY <1>8, <2>1 DEF RepairTrail
<1> QED
  BY <1>1, <1>2, <1>4, <1>5, <1>7, <1>9 DEF RepairFound

\* A child of an entry is what honest moves make of the initial state.
LEMMA RepairTrailGrows ==
    ASSUME job \in Jobs, Repairing, ~RepairBlocked(Request), NEW e, e.state \in Honest, RepairTrail(e),
           NEW t \in RepairGraph.moves[e.state]
    PROVE  RepairTrail(Child(e, t))
<1>1. PICK c : c = Child(e, t)
  OBVIOUS
<1>2. c.path = Append(e.path, t) /\ c.cost = AddCosts(e.cost, t.cost) /\ c.state = t.to
  BY <1>1 DEF Child
<1>3. PICK T : T = UNION {RepairGraph.moves[s] : s \in Honest}
  OBVIOUS
<1>4. t \in T /\ e.path \in Seq(T)
  BY <1>3 DEF RepairTrail
<1>5. PICK n \in Nat : n = Len(e.path)
  BY <1>4
<1>6. c.path \in Seq(T) /\ Len(c.path) = n + 1
  BY <1>2, <1>4, <1>5
<1>7. PICK w : w = <<e.state, e.cost>>
  OBVIOUS
<1>8. w \in RepairWays(n)
  BY <1>5, <1>7 DEF RepairTrail
<1>9. w \in Honest \X Costs(Space.dims) /\ w[1] = e.state /\ w[2] = e.cost
  BY <1>7, <1>8, RepairWaysMean
<1>10. RepairOnward(w) = {<<u.to, AddCosts(w[2], u.cost)>> : u \in RepairGraph.moves[w[1]]}
  BY <1>9, RepairOnwardIs
<1>11. <<c.state, c.cost>> \in RepairOnward(w)
  BY <1>2, <1>9, <1>10
<1>12. RepairWays(n + 1) = UNION {RepairOnward(u) : u \in RepairWays(n)}
  BY RepairWaysMean
<1>13. <<c.state, c.cost>> \in RepairWays(n + 1)
  BY <1>8, <1>11, <1>12
<1> QED
  BY <1>1, <1>3, <1>6, <1>13 DEF RepairTrail

\* A turn of a repair keeps what it has found out right.
LEMMA RepairTurns ==
    ASSUME job \in Jobs, Repairing, ~RepairBlocked(Request),
           NEW s, RepairFound(s), s.status = "SEARCHING", NEW e \in NextInQueue(s),
           NEW goal \in BOOLEAN, goal <=> Repaired(Request, e.state),
           NEW limit, NEW out, out = RepairGraph.moves[e.state],
           NEW r, r = Visit(s, e, out, goal, FALSE, limit, TRUE)
    PROVE  RepairFound(r)
<1>1. PICK g : g = RepairGraph
  OBVIOUS
<1>2. Graph(g) /\ g.dims = Space.dims /\ g.states = Honest /\ g.goals = {v \in Honest : Repaired(Request, v)}
  BY <1>1, RepairIsGraph DEF RepairGraph
<1>3. Sound(s, g) /\ \A f \in s.frontier : RepairTrail(f)
  BY <1>1 DEF RepairFound
<1>4. e \in s.frontier /\ e.state \in Honest
  BY <1>2, <1>3 DEF NextInQueue, Sound, Queued, Typed
<1>5. goal <=> e.state \in g.goals
  BY <1>2, <1>4
<1>6. Turn(s, r, e, g, FALSE, TRUE)
  BY <1>1, <1>2, <1>3, <1>5, Turned
<1>7. r.status \in {"SEARCHING", "UNREACHABLE", "REACHABLE", "LIMIT_REACHED", "ERROR"}
  BY <1>6 DEF Turn
<1>8. ASSUME r.status = "SEARCHING" PROVE Sound(r, g) /\ \A f \in r.frontier : RepairTrail(f)
  <2>1. /\ Sound(r, g)
        /\ \A f \in r.frontier : f \in s.frontier \/ \E t \in g.moves[e.state] : f = Child(e, t)
    BY <1>6, <1>8 DEF Turn
  <2>2. ASSUME NEW f \in r.frontier, f \notin s.frontier PROVE RepairTrail(f)
    <3>1. PICK t \in g.moves[e.state] : f = Child(e, t)
      BY <2>1, <2>2
    <3>2. RepairTrail(Child(e, t))
      BY <1>1, <1>3, <1>4, RepairTrailGrows
    <3> QED
      BY <3>1, <3>2
  <2> QED
    BY <1>3, <2>1, <2>2
<1>9. ASSUME r.status = "UNREACHABLE" PROVE RepairCosts = {}
  <2>1. Sound(r, RepairGraph) /\ r.frontier = {}
    BY <1>1, <1>6, <1>9 DEF Turn
  <2> QED
    BY <2>1, NoCheaperRepair
<1>10. ASSUME r.status = "REACHABLE"
       PROVE  /\ RepairTrail(r.found) /\ r.found.state \in Honest /\ Repaired(Request, r.found.state)
              /\ \A c \in RepairCosts : ~Cheaper(c, r.found.cost)
  <2>1. r.found = e /\ goal
    BY <1>5, <1>6, <1>10 DEF Turn
  <2>2. \A c \in RepairCosts : ~Cheaper(c, e.cost)
    BY <1>1, <1>3, NoCheaperRepair
  <2> QED
    BY <1>3, <1>4, <2>1, <2>2
<1> QED
  BY <1>1, <1>7, <1>8, <1>9, <1>10 DEF RepairFound

\* What an answer says of a repair that a search found by a path.
RepairExact(a, path, cheat) ==
    /\ a.status = "REPAIR_FOUND" =>
          /\ Verdict(SpaceOf(Request).initial) = "WITNESS_FOUND"
          /\ Request.artifact.outcome = "WITNESS_FOUND"
          /\ Verdict(a.end) = "UNREACHABLE_IN_MODEL"
          /\ SameClaim(SpaceOf(Request).problem[a.end], Request.original)
          /\ <<a.end, a.cost>> \in RepairWays(Len(path))
          /\ \A c \in RepairCosts : ~Cheaper(c, a.cost)
          /\ ~cheat
    /\ a.status = "NO_REPAIR_IN_MODEL" => RepairCosts = {}
    /\ a.status \in {"BLOCKED", "ERROR"} => a.cost = None

RepairInv ==
    Repairing =>
        /\ pass \in {None, "abstract"}
        /\ pass # None => ~RepairBlocked(Request) /\ RepairFound(search)
        /\ answer # None => pass = None \/ search.status # "SEARCHING"

RepairKnown == job \in Jobs /\ RepairInv /\ RepairIsLeast

\* Nothing about a repair changes while its job does not.
LEMMA RepairFixed ==
    ASSUME job' = job
    PROVE  /\ Repairing' <=> Repairing
           /\ RepairBlocked(Request)' <=> RepairBlocked(Request)
           /\ \A s : RepairFound(s)' <=> RepairFound(s)
           /\ \A a, path, cheat : RepairExact(a, path, cheat)' <=> RepairExact(a, path, cheat)
<1>1. Repairing' <=> Repairing
  BY DEF Repairing
<1>2. Request' = Request /\ Space' = Space
  BY DEF Request, Space
<1>3. RepairBlocked(Request)' <=> RepairBlocked(Request)
  BY <1>2 DEF RepairBlocked
<1>4. RepairGraph' = RepairGraph /\ Honest' = Honest
  BY <1>2 DEF RepairGraph, Honest, Repairs
<1>5. \A n : RepairWays(n)' = RepairWays(n)
  BY <1>2 DEF RepairWays, RepairOnward
<1>6. \A s : Verdict(s)' = Verdict(s)
  BY <1>2 DEF Verdict
<1>7. RepairCosts' = RepairCosts
  BY <1>5, <1>6 DEF RepairCosts
<1>8. ASSUME NEW e PROVE RepairTrail(e)' <=> RepairTrail(e)
  BY <1>4, <1>5 DEF RepairTrail
<1>9. ASSUME NEW s PROVE RepairFound(s)' <=> RepairFound(s)
  <2>1. Sound(s, RepairGraph)' <=> Sound(s, RepairGraph)
    BY <1>4 DEF Sound, Typed, Queued, Waiting, SettledFirst, Started, Expanded
  <2> QED
    BY <1>2, <1>4, <1>7, <1>8, <2>1 DEF RepairFound
<1>10. ASSUME NEW a, NEW path, NEW cheat PROVE RepairExact(a, path, cheat)' <=> RepairExact(a, path, cheat)
  BY <1>2, <1>5, <1>6, <1>7 DEF RepairExact
<1> QED
  BY <1>1, <1>3, <1>9, <1>10

\* What a repair says of the outcome of its search.
LEMMA RepairOutcome ==
    ASSUME Repairing, cheated \in BOOLEAN,
           NEW st \in {"UNREACHABLE", "REACHABLE", "LIMIT_REACHED", "ERROR"}
    PROVE  /\ Outcome(st) = "REPAIR_FOUND" => st = "REACHABLE" /\ ~cheated
           /\ Outcome(st) = "NO_REPAIR_IN_MODEL" => st = "UNREACHABLE"
           /\ Outcome(st) = "ERROR" => st = "ERROR"
<1>1. job.kind \notin {"casper", "finite-state"}
  BY DEF Repairing
<1>2. CASE st = "ERROR" \/ cheated
  BY <1>2 DEF Outcome
<1>3. CASE st # "ERROR" /\ ~cheated
  <2>1. Outcome(st) = CASE st = "REACHABLE" -> "REPAIR_FOUND" [] st = "UNREACHABLE" -> "NO_REPAIR_IN_MODEL" [] OTHER -> "LIMIT_REACHED"
    BY <1>1, <1>3 DEF Outcome
  <2> QED
    BY <1>3, <2>1
<1> QED
  BY <1>2, <1>3

\* The invariant of a repair holds at first.
LEMMA RepairInit == InquiryInit => RepairKnown
BY NoneAssumption DEF InquiryInit, RepairKnown, RepairInv, RepairIsLeast

\* Every action keeps it.
LEMMA RepairNext == RepairKnown /\ cheated \in BOOLEAN /\ [InquiryNext]_inquiryVars => RepairKnown'
<1> SUFFICES ASSUME RepairKnown, cheated \in BOOLEAN, [InquiryNext]_inquiryVars PROVE RepairKnown'
  OBVIOUS
<1>1. job' = job /\ job \in Jobs
  BY DEF RepairKnown, InquiryNext, inquiryVars, Open, Iterate, Refine, Close
<1>2. CASE ~Repairing
  BY <1>1, <1>2, RepairFixed DEF RepairKnown, RepairInv, RepairIsLeast
<1> SUFFICES ASSUME Repairing PROVE RepairKnown'
  BY <1>2
<1>3. /\ pass \in {None, "abstract"}
      /\ pass # None => ~RepairBlocked(Request) /\ RepairFound(search)
      /\ answer # None => pass = None \/ search.status # "SEARCHING"
      /\ answer # None => RepairExact(answer, search.found.path, cheated)
  BY DEF RepairKnown, RepairInv, RepairIsLeast, RepairExact
<1>4. ASSUME /\ pass' \in {None, "abstract"}
             /\ pass' # None => ~RepairBlocked(Request) /\ RepairFound(search')
             /\ answer' # None => pass' = None \/ search'.status # "SEARCHING"
             /\ answer' # None => RepairExact(answer', search'.found.path, cheated')
      PROVE  RepairKnown'
  <2>1. Repairing'
    BY <1>1, RepairFixed
  <2>2. RepairInv'
    BY <1>1, <1>4, RepairFixed DEF RepairInv
  <2>3. answer' # None => RepairExact(answer, search.found.path, cheated)'
    BY <1>1, <1>4, RepairFixed
  <2>4. RepairIsLeast'
    BY <2>3 DEF RepairIsLeast, RepairExact
  <2> QED
    BY <1>1, <2>2, <2>4 DEF RepairKnown
<1>5. job.kind \in {"repair", "coverage"} /\ job.kind \notin {"casper", "quantitative", "multi-objective", "finite-state"} /\ ~Asking
  BY DEF Asking, Questions, Repairing
<1>6. CASE Open
  <2>1. CASE Refusal # None
    <3>1. Refusal \in {"ERROR", "BLOCKED"}
      BY <2>1 DEF Refusal
    <3>2. /\ answer'.status = Refusal /\ answer'.cost = None /\ pass' = None /\ search' = search /\ cheated' = cheated
      BY <1>6, <2>1 DEF Open
    <3>3. RepairExact(answer', search.found.path, cheated)
      BY <3>1, <3>2 DEF RepairExact
    <3> QED
      BY <1>4, <3>2, <3>3
  <2>2. CASE Refusal = None
    <3>1. ~RepairBlocked(Request)
      BY <1>5, <2>2, NoneAssumption DEF Refusal
    <3>2. /\ search' = StartSearch(Space.initial, Space.key[Space.initial], Space.dims)
          /\ pass' = "abstract" /\ answer' = None
      BY <1>5, <1>6, <2>2 DEF Open, Begin, Space
    <3>3. RepairFound(search')
      BY <1>1, <3>1, <3>2, RepairBegins
    <3> QED
      BY <1>4, <3>1, <3>2, <3>3
  <2> QED
    BY <2>1, <2>2
<1>7. CASE Iterate
  <2>1. /\ pass # None /\ search.status = "SEARCHING" /\ pass' = pass /\ answer' = answer
        /\ RepairFound(search) /\ ~RepairBlocked(Request) /\ answer = None
    BY <1>3, <1>7 DEF Iterate
  <2>2. PICK e \in NextInQueue(search) :
           search' = Visit(search, e, Moves(e), Goal(e), Asking /\ Malformed(Where(e)), Limit, Strict)
    BY <1>7 DEF Iterate
  <2>3. PICK s : s = search
    OBVIOUS
  <2>4. Sound(s, RepairGraph) /\ e \in s.frontier
    BY <2>1, <2>3 DEF RepairFound, NextInQueue
  <2>5. e.state \in Honest
    <3>1. RepairGraph.states = Honest
      BY DEF RepairGraph
    <3> QED
      BY <2>4, <3>1 DEF Sound, Queued, Typed
  <2>6. Moves(e) = RepairGraph.moves[e.state]
    <3>1. Moves(e) = {Repairs(t) : t \in HonestMoves(Request, e.state)}
      BY <1>5 DEF Moves, Repairs, Space
    <3> QED
      BY <2>5, <3>1 DEF RepairGraph
  <2>7. PICK out : out = Moves(e)
    OBVIOUS
  <2>8. PICK goal \in BOOLEAN : goal = Goal(e)
    <3>1. Goal(e) = Repaired(Request, e.state)
      BY <1>5 DEF Goal
    <3> QED
      BY <3>1 DEF Repaired
  <2>9. (Asking /\ Malformed(Where(e))) = FALSE /\ Strict = TRUE
    BY <1>5 DEF Strict
  <2>10. PICK limit : limit = Limit
    OBVIOUS
  <2>11. PICK r : r = Visit(s, e, out, goal, FALSE, limit, TRUE)
    OBVIOUS
  <2>12. search' = r
    BY <2>2, <2>3, <2>7, <2>8, <2>9, <2>10, <2>11
  <2>13. goal <=> Repaired(Request, e.state)
    BY <1>5, <2>8 DEF Goal
  <2>14. RepairFound(s) /\ s.status = "SEARCHING" /\ e \in NextInQueue(s)
    BY <2>1, <2>3
  <2>15. RepairFound(r)
    BY <1>1, <2>1, <2>6, <2>7, <2>11, <2>13, <2>14, RepairTurns
  <2> QED
    BY <1>3, <1>4, <2>1, <2>12, <2>15
<1>8. CASE Refine
  BY <1>5, <1>8 DEF Refine, Spurious
<1>9. CASE Close
  <2>1. /\ pass # None /\ answer = None /\ search.status # "SEARCHING"
        /\ pass' = pass /\ search' = search /\ cheated' = cheated
    BY <1>9 DEF Close
  <2>2. RepairFound(search) /\ ~RepairBlocked(Request)
    BY <1>3, <2>1
  <2>3. PICK st : st = search.status
    OBVIOUS
  <2>4. st \in {"UNREACHABLE", "REACHABLE", "LIMIT_REACHED", "ERROR"}
    BY <2>1, <2>2, <2>3 DEF RepairFound
  <2>5. PICK o : o = Outcome(st)
    OBVIOUS
  <2>6. /\ o = "REPAIR_FOUND" => st = "REACHABLE" /\ ~cheated
        /\ o = "NO_REPAIR_IN_MODEL" => st = "UNREACHABLE"
        /\ o = "ERROR" => st = "ERROR"
    BY <2>4, <2>5, RepairOutcome
  <2>7. PICK a : a = answer'
    OBVIOUS
  <2>8. /\ a.status = o
        /\ st # "REACHABLE" \/ o = "BLOCKED" => a.cost = None
        /\ st = "REACHABLE" /\ o # "BLOCKED" => a.cost = search.found.cost /\ a.end = search.found.state
    BY <1>5, <1>9, <2>3, <2>5, <2>7 DEF Close
  <2>9. ASSUME o = "REPAIR_FOUND"
        PROVE  /\ Verdict(Space.initial) = "WITNESS_FOUND"
               /\ Request.artifact.outcome = "WITNESS_FOUND"
               /\ Verdict(a.end) = "UNREACHABLE_IN_MODEL"
               /\ SameClaim(Space.problem[a.end], Request.original)
               /\ <<a.end, a.cost>> \in RepairWays(Len(search.found.path))
               /\ \A c \in RepairCosts : ~Cheaper(c, a.cost)
    <3>1. PICK f : f = search.found
      OBVIOUS
    <3>2. RepairTrail(f) /\ f.state \in Honest /\ Repaired(Request, f.state) /\ \A c \in RepairCosts : ~Cheaper(c, f.cost)
      BY <2>2, <2>3, <2>6, <2>9, <3>1 DEF RepairFound
    <3>3. a.cost = f.cost /\ a.end = f.state
      BY <2>6, <2>8, <2>9, <3>1
    <3>4. Space.initial \in Honest
      BY <1>1, <2>2, SpaceTyped
    <3>5. Verdict(f.state) = "UNREACHABLE_IN_MODEL" /\ Verdict(Space.initial) = "WITNESS_FOUND"
      BY <1>1, <2>2, <3>2, <3>4, RepairedIs
    <3>6. Request.artifact.outcome = "WITNESS_FOUND"
      BY <2>2 DEF RepairBlocked, OriginalArtifactMatches
    <3>7. SameClaim(Space.problem[f.state], Request.original)
      BY <3>2 DEF Honest
    <3> QED
      BY <3>1, <3>2, <3>3, <3>5, <3>6, <3>7 DEF RepairTrail
  <2>10. o = "NO_REPAIR_IN_MODEL" => RepairCosts = {}
    BY <2>2, <2>3, <2>6 DEF RepairFound
  <2>11. o \in {"BLOCKED", "ERROR"} => a.cost = None
    BY <2>6, <2>8
  <2>12. RepairExact(a, search.found.path, cheated)
    BY <2>6, <2>8, <2>9, <2>10, <2>11 DEF RepairExact, Space
  <2> QED
    BY <1>3, <1>4, <2>1, <2>7, <2>12
<1>10. CASE UNCHANGED inquiryVars
  BY <1>3, <1>4, <1>10 DEF inquiryVars
<1> QED
  BY <1>6, <1>7, <1>8, <1>9, <1>10 DEF InquiryNext

\* That an adapter cheated is true or false.
LEMMA CheatedTyped == InquirySpec => [](cheated \in BOOLEAN)
<1>1. InquiryInit => cheated \in BOOLEAN
  BY DEF InquiryInit
<1>2. cheated \in BOOLEAN /\ [InquiryNext]_inquiryVars => (cheated \in BOOLEAN)'
  BY DEF InquiryNext, inquiryVars, Open, Iterate, Refine, Close
<1> QED
  BY <1>1, <1>2, PTL DEF InquirySpec

\* A repair is least, whatever its space of changes, costs and verifier: the verifier that
\* witnessed the claim accepts it for the same claim, honest moves lead to it at its cost, and
\* no accepted repair of up to Depth moves is cheaper (compileRepair 185-411).
THEOREM RepairKept == InquirySpec => []RepairIsLeast
<1>1. RepairKnown => RepairIsLeast
  BY DEF RepairKnown
<1> QED
  BY <1>1, RepairInit, RepairNext, CheatedTyped, PTL DEF InquirySpec

-----------------------------------------------------------------------------
(* Histories: what a message has seen, and deletions of parents.            *)

\* s says of every message what it has seen: itself and what its parents have seen.
SeenFrom(s, parents) ==
    s = [m \in DOMAIN parents |-> {m} \cup UNION {s[p] : p \in parents[m] \cap DOMAIN parents}]

\* A set that holds the parents of what it holds.
ClosedUp(S, parents) == \A y \in S : parents[y] \cap DOMAIN parents \subseteq S

\* deriveSeen: what a message has seen is itself and what its parents have seen.
LEMMA SeenExists ==
    ASSUME NEW parents
    PROVE  SeenFrom(Seen(parents), parents)
<1>1. PICK D : D = DOMAIN parents
  OBVIOUS
<1> DEFINE from(m) == {x \in D : \A C \in SUBSET D : m \in C /\ ClosedUp(C, parents) => x \in C}
<1>2. ASSUME NEW m \in D PROVE m \in from(m) /\ ClosedUp(from(m), parents)
  BY <1>1 DEF ClosedUp
<1>3. ASSUME NEW m \in D, NEW p \in parents[m] \cap D PROVE from(p) \subseteq from(m)
  BY <1>1, <1>3 DEF ClosedUp
<1>4. ASSUME NEW m \in D PROVE from(m) = {m} \cup UNION {from(p) : p \in parents[m] \cap D}
  <2> DEFINE C == {m} \cup UNION {from(p) : p \in parents[m] \cap D}
  <2>1. C \subseteq from(m)
    <3> HIDE DEF from
    <3> QED
      BY <1>2, <1>3
  <2>2. C \in SUBSET D
    OBVIOUS
  <2>3. ClosedUp(C, parents)
    <3>1. ASSUME NEW y \in C PROVE parents[y] \cap D \subseteq C
      <4>1. CASE y = m
        <5>1. \A p \in parents[m] \cap D : p \in from(p)
          BY <1>2
        <5> HIDE DEF from
        <5> QED
          BY <4>1, <5>1
      <4>2. CASE \E p \in parents[m] \cap D : y \in from(p)
        <5>1. PICK p \in parents[m] \cap D : y \in from(p)
          BY <4>2
        <5>2. parents[y] \cap D \subseteq from(p)
          <6>1. ClosedUp(from(p), parents)
            BY <1>2
          <6> HIDE DEF from
          <6> QED
            BY <1>1, <5>1, <6>1 DEF ClosedUp
        <5> HIDE DEF from
        <5> QED
          BY <5>1, <5>2
      <4> HIDE DEF from
      <4> QED
        BY <3>1, <4>1, <4>2
    <3> HIDE DEF C
    <3> QED
      BY <1>1, <3>1 DEF ClosedUp
  <2>4. m \in C
    OBVIOUS
  <2>5. from(m) \subseteq C
    <3> HIDE DEF C
    <3> QED
      BY <2>2, <2>3, <2>4
  <2> HIDE DEF from
  <2> QED
    BY <2>1, <2>5
<1> HIDE DEF from
<1>5. PICK s : s = [m \in D |-> from(m)]
  OBVIOUS
<1>6. SeenFrom(s, parents)
  <2>1. \A m \in D : {s[p] : p \in parents[m] \cap D} = {from(p) : p \in parents[m] \cap D}
    BY <1>5
  <2>2. \A m \in D : s[m] = {m} \cup UNION {s[p] : p \in parents[m] \cap D}
    BY <1>4, <1>5, <2>1
  <2>3. s = [m \in D |-> s[m]]
    BY <1>5
  <2> QED
    BY <1>1, <2>2, <2>3 DEF SeenFrom
<1>7. Seen(parents) = CHOOSE t : SeenFrom(t, parents)
  BY DEF Seen, SeenFrom
<1> QED
  BY <1>6, <1>7

\* The n-th of the sets that Grounded finds one after another.
Finds(found, parents, n) ==
    /\ found[0] = {}
    /\ \A k \in 1 .. n : found[k] = RestOn(parents, found[k - 1])

\* The messages that are grounded are found layer by layer.
LEMMA GroundedIs ==
    ASSUME NEW parents, IsFiniteSet(DOMAIN parents)
    PROVE  \E found : /\ Finds(found, parents, Cardinality(DOMAIN parents))
                      /\ Grounded(parents) = found[Cardinality(DOMAIN parents)]
<1>1. PICK D : D = DOMAIN parents
  OBVIOUS
<1>2. PICK n \in Nat : n = Cardinality(D)
  BY <1>1, FS_CardinalityType
<1>3. PICK X : X = SUBSET D
  OBVIOUS
<1>4. PICK h : h = [S \in X |-> RestOn(parents, S)]
  OBVIOUS
<1>5. {} \in X /\ h \in [X -> X]
  BY <1>1, <1>3, <1>4 DEF RestOn
<1>6. PICK F : Orbit(F, X, {}, h)
  BY <1>5, Repeated
<1>7. F \in [Nat -> X] /\ F[0] = {} /\ \A k \in Nat : F[k + 1] = h[F[k]]
  BY <1>6 DEF Orbit
<1> DEFINE Go(p) == [k \in 0 .. n |-> IF k = 0 THEN {} ELSE RestOn(parents, p[k - 1])]
<1>8. Grounded(parents) = (CHOOSE p : p = Go(p))[n]
  BY <1>1, <1>2 DEF Grounded
<1>9. \E p : p = Go(p)
  <2>1. PICK p : p = [k \in 0 .. n |-> F[k]]
    OBVIOUS
  <2>2. ASSUME NEW k \in 0 .. n PROVE p[k] = Go(p)[k]
    <3>1. CASE k = 0
      BY <1>7, <2>1, <3>1
    <3>2. CASE k # 0
      <4>1. k - 1 \in Nat /\ (k - 1) + 1 = k /\ k - 1 \in 0 .. n
        BY <3>2
      <4>2. p[k] = h[F[k - 1]] /\ p[k - 1] = F[k - 1] /\ F[k - 1] \in X
        BY <1>7, <2>1, <4>1
      <4> QED
        BY <1>4, <3>2, <4>2
    <3> QED
      BY <3>1, <3>2
  <2>3. p = [k \in 0 .. n |-> p[k]]
    BY <2>1
  <2> QED
    BY <2>2, <2>3
<1>10. PICK p : p = CHOOSE q : q = Go(q)
  OBVIOUS
<1>11. p = Go(p)
  <2> HIDE DEF Go
  <2> QED
    BY <1>9, <1>10
<1>12. p[0] = {}
  <2>1. Go(p)[0] = {}
    OBVIOUS
  <2> HIDE DEF Go
  <2> QED
    BY <1>11, <2>1
<1>13. ASSUME NEW k \in 1 .. n PROVE p[k] = RestOn(parents, p[k - 1])
  <2>1. Go(p)[k] = RestOn(parents, p[k - 1])
    OBVIOUS
  <2> HIDE DEF Go
  <2> QED
    BY <1>11, <2>1
<1>14. Finds(p, parents, n)
  BY <1>12, <1>13 DEF Finds
<1> HIDE DEF Go
<1> QED
  BY <1>1, <1>2, <1>8, <1>10, <1>14

\* Without some of the parents no message loses its ground.
LEMMA GroundStays ==
    ASSUME NEW parents, NEW fewer, DOMAIN fewer = DOMAIN parents, IsFiniteSet(DOMAIN parents),
           \A m \in DOMAIN parents : fewer[m] \subseteq parents[m], Grounded(parents) = DOMAIN parents
    PROVE  Grounded(fewer) = DOMAIN fewer
<1>1. PICK n \in Nat : n = Cardinality(DOMAIN parents)
  BY FS_CardinalityType
<1>2. PICK f : Finds(f, parents, n) /\ Grounded(parents) = f[n]
  BY <1>1, GroundedIs
<1>3. PICK g : Finds(g, fewer, n) /\ Grounded(fewer) = g[n]
  BY <1>1, GroundedIs
<1> DEFINE S == {k \in 0 .. n : f[k] \subseteq g[k] /\ g[k] \subseteq DOMAIN parents}
<1>4. 0 \in S
  BY <1>2, <1>3 DEF Finds
<1>5. ASSUME NEW k \in 1 .. n, k - 1 \in S PROVE k \in S
  <2>1. f[k] = RestOn(parents, f[k - 1]) /\ g[k] = RestOn(fewer, g[k - 1])
    BY <1>2, <1>3 DEF Finds
  <2>2. f[k] \subseteq g[k] /\ g[k] \subseteq DOMAIN parents
    BY <1>5, <2>1 DEF RestOn
  <2> QED
    BY <2>2
<1>6. n \in S
  <2>1. 0 .. n \subseteq S
    <3> HIDE DEF S
    <3> QED
      BY <1>4, <1>5, Throughout
  <2> QED
    BY <2>1
<1> QED
  BY <1>2, <1>3, <1>6

\* Where every message has its ground there is one thing that each can have seen.
LEMMA SeenIsOne ==
    ASSUME NEW parents, IsFiniteSet(DOMAIN parents), Grounded(parents) = DOMAIN parents,
           NEW s, SeenFrom(s, parents), NEW t, SeenFrom(t, parents)
    PROVE  s = t
<1>1. PICK n \in Nat : n = Cardinality(DOMAIN parents)
  BY FS_CardinalityType
<1>2. PICK f : Finds(f, parents, n) /\ Grounded(parents) = f[n]
  BY <1>1, GroundedIs
<1>3. PICK D : D = DOMAIN parents
  OBVIOUS
<1>4. /\ s = [m \in D |-> s[m]] /\ t = [m \in D |-> t[m]]
      /\ \A m \in D : /\ s[m] = {m} \cup UNION {s[p] : p \in parents[m] \cap D}
                      /\ t[m] = {m} \cup UNION {t[p] : p \in parents[m] \cap D}
  BY <1>3 DEF SeenFrom
<1> DEFINE S == {k \in 0 .. n : \A m \in f[k] : m \in D /\ s[m] = t[m]}
<1>5. 0 \in S
  BY <1>2 DEF Finds
<1>6. ASSUME NEW k \in 1 .. n, k - 1 \in S PROVE k \in S
  <2>1. f[k] = RestOn(parents, f[k - 1])
    BY <1>2 DEF Finds
  <2>2. ASSUME NEW m \in f[k] PROVE m \in D /\ s[m] = t[m]
    <3>1. m \in D /\ parents[m] \cap D \subseteq f[k - 1]
      BY <1>3, <2>1 DEF RestOn
    <3>2. \A p \in parents[m] \cap D : s[p] = t[p]
      BY <1>6, <3>1
    <3>3. {s[p] : p \in parents[m] \cap D} = {t[p] : p \in parents[m] \cap D}
      BY <3>2
    <3> QED
      BY <1>4, <3>1, <3>3
  <2> QED
    BY <2>2
<1>7. n \in S
  <2>1. 0 .. n \subseteq S
    <3> HIDE DEF S
    <3> QED
      BY <1>5, <1>6, Throughout
  <2> QED
    BY <2>1
<1>8. \A m \in D : s[m] = t[m]
  BY <1>2, <1>3, <1>7
<1> QED
  BY <1>4, <1>8

-----------------------------------------------------------------------------
(* What deletions make of a history.                                        *)

Plain(f) ==
    /\ f = [bonds |-> f.bonds, parents |-> [m \in Messages(f) |-> f.parents[m]],
            seen |-> [m \in Messages(f) |-> f.seen[m]], just |-> f.just]
    /\ IsFiniteSet(Messages(f)) /\ \A m \in Messages(f) : m = <<m[1], m[2]>> /\ m[2] \in Nat

\* What is left of the parents.
Left(f, E) == [m \in Messages(f) |-> f.parents[m] \ {e[2] : e \in {x \in E : x[1] = m}}]

History(f, parents) == [bonds |-> f.bonds, parents |-> parents, seen |-> Seen(parents), just |-> f.just]

\* A history without some edges is the history of the parents that are left.
LEMMA WithoutIs ==
    ASSUME NEW f, Plain(f), NEW E
    PROVE  Without(f, E) = History(f, Left(f, E))
<1>1. PICK a : a = f.bonds
  OBVIOUS
<1>2. PICK b : b = [m \in Messages(f) |-> f.parents[m]]
  OBVIOUS
<1>3. PICK c : c = [m \in Messages(f) |-> f.seen[m]]
  OBVIOUS
<1>4. PICK d : d = f.just
  OBVIOUS
<1>5. f = [bonds |-> a, parents |-> b, seen |-> c, just |-> d]
  BY <1>1, <1>2, <1>3, <1>4 DEF Plain
<1>6. PICK p : p = Left(f, E)
  OBVIOUS
<1>7. PICK s : s = Seen(p)
  OBVIOUS
<1>8. Without(f, E) = [f EXCEPT !.parents = p, !.seen = s]
  BY <1>6, <1>7 DEF Without, Left
<1>9. [f EXCEPT !.parents = p, !.seen = s] = [bonds |-> a, parents |-> p, seen |-> s, just |-> d]
  <2> SUFFICES ASSUME NEW r, r = [bonds |-> a, parents |-> b, seen |-> c, just |-> d]
               PROVE  [r EXCEPT !.parents = p, !.seen = s] = [bonds |-> a, parents |-> p, seen |-> s, just |-> d]
    BY <1>5
  <2>1. PICK q : q = [bonds |-> a, parents |-> p, seen |-> c, just |-> d]
    OBVIOUS
  <2>2. [r EXCEPT !.parents = p] = q
    BY <2>1
  <2>3. [q EXCEPT !.seen = s] = [bonds |-> a, parents |-> p, seen |-> s, just |-> d]
    BY <2>1
  <2> QED
    BY <2>2, <2>3
<1> QED
  BY <1>1, <1>4, <1>6, <1>7, <1>8, <1>9 DEF History

\* The parts of a history.
LEMMA HistoryParts ==
    ASSUME NEW f, NEW p
    PROVE  /\ History(f, p).bonds = f.bonds /\ History(f, p).parents = p
           /\ History(f, p).seen = Seen(p) /\ History(f, p).just = f.just
           /\ Messages(History(f, p)) = DOMAIN p
BY DEF History, Messages

\* The parents that are left.
LEMMA LeftParts ==
    ASSUME NEW f, NEW E
    PROVE  /\ DOMAIN Left(f, E) = Messages(f)
           /\ \A m \in Messages(f) : \A p : p \in Left(f, E)[m] <=> p \in f.parents[m] /\ ~\E e \in E : e[1] = m /\ e[2] = p
BY DEF Left

\* The last of a sender's own messages before this one.
LEMMA OwnLast ==
    ASSUME NEW f, Plain(f), Reachable(f), NEW m \in Messages(f)
    PROVE  /\ OwnParents(f, m) = {} => m[2] = 0
           /\ OwnParents(f, m) # {} => /\ <<m[1], m[2] - 1>> \in OwnParents(f, m) /\ m[2] > 0
                                       /\ \A q \in OwnParents(f, m) : q[2] <= m[2] - 1
<1>1. PICK O : O = OwnParents(f, m)
  OBVIOUS
<1>2. PICK S : S = {p[2] : p \in O}
  OBVIOUS
<1>3. O \subseteq Messages(f) /\ \A p \in O : p = <<m[1], p[2]>> /\ p[2] \in Nat
  <2>1. \A p \in O : p \in Messages(f) /\ p[1] = m[1]
    BY <1>1 DEF OwnParents
  <2>2. \A p \in O : p = <<p[1], p[2]>> /\ p[2] \in Nat
    BY <2>1 DEF Plain
  <2> QED
    BY <2>1, <2>2
<1>4. IsFiniteSet(S) /\ S \in SUBSET Nat
  <2>1. IsFiniteSet(O)
    BY <1>3, FS_Subset DEF Plain
  <2>2. PICK second : second = [p \in O |-> p[2]]
    OBVIOUS
  <2>3. S = {second[p] : p \in O}
    BY <1>2, <2>2
  <2>4. IsFiniteSet(S)
    BY <2>1, <2>3, ImageFinite
  <2>5. \A x \in S : x \in Nat
    BY <1>2, <1>3
  <2> QED
    BY <2>4, <2>5
<1>5. m[2] = Max({-1} \cup S) + 1 /\ m[2] \in Nat
  BY <1>1, <1>2 DEF Reachable, Plain
<1>6. PICK T : T = {-1} \cup S
  OBVIOUS
<1>7. Max(T) = CHOOSE x \in T : \A y \in T : x >= y
  BY DEF Max
<1>8. CASE O = {}
  <2>1. T = {-1}
    BY <1>2, <1>6, <1>8
  <2>2. Max(T) = -1
    BY <1>7, <2>1
  <2> QED
    BY <1>1, <1>5, <1>6, <1>8, <2>2
<1>9. CASE O # {}
  <2>1. PICK x \in S : \A y \in S : y <= x
    BY <1>2, <1>4, <1>9, LargestExists
  <2>2. x \in T /\ \A y \in T : x >= y
    BY <1>4, <1>6, <2>1
  <2>3. Max(T) \in T /\ \A y \in T : Max(T) >= y
    BY <1>7, <2>2
  <2>4. Max(T) \in S
    BY <1>4, <1>6, <2>1, <2>3
  <2>5. PICK p \in O : p[2] = Max(T)
    BY <1>2, <2>4
  <2>6. Max(T) \in Nat /\ m[2] - 1 = Max(T) /\ m[2] > 0
    <3>1. PICK k \in Nat : k = Max(T)
      BY <1>4, <2>4
    <3>2. m[2] = k + 1
      BY <1>5, <1>6, <3>1
    <3> QED
      BY <3>1, <3>2
  <2>7. p = <<m[1], m[2] - 1>>
    BY <1>3, <2>5, <2>6
  <2>8. \A q \in O : q[2] <= m[2] - 1
    BY <1>2, <1>3, <1>6, <2>3, <2>6
  <2> QED
    BY <1>1, <1>9, <2>5, <2>6, <2>7, <2>8
<1> QED
  BY <1>8, <1>9

\* It stays whatever is deleted.
LEMMA OwnStay ==
    ASSUME NEW f, Plain(f), Reachable(f), NEW E \in SUBSET Deletable(f), NEW g, g = Without(f, E), NEW m \in Messages(f)
    PROVE  /\ OwnParents(g, m) \subseteq OwnParents(f, m)
           /\ OwnParents(g, m) = {} <=> OwnParents(f, m) = {}
           /\ OwnParents(f, m) # {} => <<m[1], m[2] - 1>> \in OwnParents(g, m)
<1>1. /\ g.parents = Left(f, E) /\ Messages(g) = Messages(f)
      /\ \A p : p \in g.parents[m] <=> p \in f.parents[m] /\ ~\E e \in E : e[1] = m /\ e[2] = p
  BY WithoutIs, HistoryParts, LeftParts
<1>2. OwnParents(g, m) \subseteq OwnParents(f, m)
  BY <1>1 DEF OwnParents
<1>3. ASSUME OwnParents(f, m) # {} PROVE <<m[1], m[2] - 1>> \in OwnParents(g, m)
  <2>1. PICK p : p = <<m[1], m[2] - 1>>
    OBVIOUS
  <2>2. p \in OwnParents(f, m)
    BY <1>3, <2>1, OwnLast
  <2>3. ~\E e \in E : e[1] = m /\ e[2] = p
    BY <2>1 DEF Deletable
  <2> QED
    BY <1>1, <2>1, <2>2, <2>3 DEF OwnParents
<1> QED
  BY <1>2, <1>3

\* Deletions leave the last of a sender's own messages before this one as it was.
LEMMA SelfParentStays ==
    ASSUME NEW f, Plain(f), Reachable(f), NEW E \in SUBSET Deletable(f), NEW g, g = Without(f, E), NEW m \in Messages(f),
           OwnParents(f, m) # {}
    PROVE  SelfParent(f, m) = <<m[1], m[2] - 1>> /\ SelfParent(g, m) = <<m[1], m[2] - 1>>
<1>1. PICK p : p = <<m[1], m[2] - 1>>
  OBVIOUS
<1>2. m[2] \in Nat /\ m[2] > 0
  BY OwnLast DEF Plain
<1>3. PICK n \in Nat : n = m[2] - 1
  BY <1>2
<1>4. p \in OwnParents(f, m) /\ p[2] = n /\ \A q \in OwnParents(f, m) : q[2] <= n
  BY <1>1, <1>3, OwnLast
<1>5. p \in OwnParents(g, m) /\ OwnParents(g, m) \subseteq OwnParents(f, m)
  BY <1>1, OwnStay
<1>6. ASSUME NEW q \in OwnParents(f, m), p[2] <= q[2] PROVE q = p
  <2>1. q \in Messages(f) /\ q[1] = m[1]
    BY DEF OwnParents
  <2>2. q = <<m[1], q[2]>> /\ q[2] \in Nat
    BY <2>1 DEF Plain
  <2>3. q[2] = n
    BY <1>3, <1>4, <1>6, <2>2
  <2> QED
    BY <1>1, <1>3, <2>2, <2>3
<1>7. SelfParent(f, m) = p
  BY <1>4, <1>6 DEF SelfParent
<1>8. SelfParent(g, m) = p
  BY <1>4, <1>5, <1>6 DEF SelfParent
<1> QED
  BY <1>1, <1>7, <1>8

\* So they leave the chain of a sender's messages as it was.
LEMMA ChainStays ==
    ASSUME NEW f, Plain(f), Reachable(f), NEW E \in SUBSET Deletable(f), NEW m
    PROVE  SelfMessages(Without(f, E), m) = SelfMessages(f, m)
<1>1. PICK g : g = Without(f, E)
  OBVIOUS
<1> DEFINE Of(c) == [x \in Messages(f) |-> IF OwnParents(f, x) = {} THEN <<x>> ELSE <<x>> \o c[SelfParent(f, x)]]
           Go(c) == [x \in Messages(g) |-> IF OwnParents(g, x) = {} THEN <<x>> ELSE <<x>> \o c[SelfParent(g, x)]]
<1>2. Messages(g) = Messages(f)
  BY <1>1, WithoutIs, HistoryParts, LeftParts
<1>3. ASSUME NEW x \in Messages(f)
      PROVE  /\ OwnParents(g, x) = {} <=> OwnParents(f, x) = {}
             /\ OwnParents(f, x) # {} => SelfParent(g, x) = SelfParent(f, x)
  <2>1. OwnParents(g, x) = {} <=> OwnParents(f, x) = {}
    BY <1>1, OwnStay
  <2>2. ASSUME OwnParents(f, x) # {} PROVE SelfParent(g, x) = SelfParent(f, x)
    <3>1. SelfParent(f, x) = <<x[1], x[2] - 1>> /\ SelfParent(g, x) = <<x[1], x[2] - 1>>
      BY <1>1, <2>2, SelfParentStays
    <3> QED
      BY <3>1
  <2> QED
    BY <2>1, <2>2
<1>4. ASSUME NEW c PROVE Of(c) = Go(c)
  BY <1>2, <1>3
<1>5. SelfMessages(f, m) = (CHOOSE c : c = Of(c))[m] /\ SelfMessages(g, m) = (CHOOSE c : c = Go(c))[m]
  BY DEF SelfMessages
<1>6. \A c : c = Of(c) <=> c = Go(c)
  <2> HIDE DEF Of, Go
  <2> QED
    BY <1>4
<1>7. (CHOOSE c : c = Of(c)) = (CHOOSE c : c = Go(c))
  <2> HIDE DEF Of, Go
  <2> QED
    BY <1>6, Zenon
<1> HIDE DEF Of, Go
<1> QED
  BY <1>1, <1>5, <1>7

\* Deletions of which none takes a message's predecessor leave a history that upstream could have built.
LEMMA DeletionsReach ==
    ASSUME NEW f, Plain(f), Reachable(f), NEW E \in SUBSET Deletable(f)
    PROVE  Reachable(Without(f, E))
<1>1. PICK g : g = Without(f, E)
  OBVIOUS
<1>2. PICK left : left = Left(f, E)
  OBVIOUS
<1>3. /\ g.parents = left /\ g.seen = Seen(left) /\ Messages(g) = Messages(f) /\ DOMAIN left = Messages(f)
      /\ \A m \in Messages(f) : left[m] \subseteq f.parents[m]
  BY <1>1, <1>2, WithoutIs, HistoryParts, LeftParts
<1>4. ASSUME NEW m \in Messages(f) PROVE g.parents[m] \subseteq Messages(f)
  BY <1>3 DEF Reachable
<1>5. ASSUME NEW m \in Messages(f) PROVE m[2] = Max({-1} \cup {p[2] : p \in OwnParents(g, m)}) + 1
  <2>1. CASE OwnParents(f, m) = {}
    <3>1. OwnParents(g, m) = {}
      BY <1>1, <2>1, OwnStay
    <3>2. m[2] = Max({-1} \cup {p[2] : p \in OwnParents(f, m)}) + 1
      BY DEF Reachable
    <3> QED
      BY <2>1, <3>1, <3>2
  <2>2. CASE OwnParents(f, m) # {}
    <3>1. m[2] \in Nat /\ m[2] > 0 /\ \A q \in OwnParents(f, m) : q[2] <= m[2] - 1
      <4>1. m[2] \in Nat
        BY DEF Plain
      <4>2. m[2] > 0 /\ \A q \in OwnParents(f, m) : q[2] <= m[2] - 1
        BY <2>2, OwnLast
      <4> QED
        BY <4>1, <4>2
    <3>2. PICK n \in Nat : n = m[2] - 1 /\ m[2] = n + 1
      BY <3>1
    <3>3. PICK T : T = {-1} \cup {p[2] : p \in OwnParents(g, m)}
      OBVIOUS
    <3>4. n \in T
      <4>1. <<m[1], n>> \in OwnParents(g, m)
        BY <1>1, <2>2, <3>2, OwnStay
      <4> QED
        BY <3>3, <4>1
    <3>5. ASSUME NEW y \in T PROVE y \in Int /\ y <= n
      <4>1. CASE y = -1
        BY <3>2, <4>1
      <4>2. CASE y # -1
        <5>1. PICK p \in OwnParents(g, m) : y = p[2]
          BY <3>3, <4>2
        <5>2. p \in OwnParents(f, m) /\ p \in Messages(f)
          BY <1>1, <5>1, OwnStay DEF OwnParents
        <5>3. p[2] \in Nat
          BY <5>2 DEF Plain
        <5> QED
          BY <3>1, <3>2, <5>1, <5>2, <5>3
      <4> QED
        BY <4>1, <4>2
    <3>6. Max(T) = n
      <4>1. Max(T) = CHOOSE x \in T : \A y \in T : x >= y
        BY DEF Max
      <4>2. \A x \in T : (\A y \in T : x >= y) => x = n
        BY <3>2, <3>4, <3>5
      <4>3. n \in T /\ \A y \in T : n >= y
        BY <3>2, <3>4, <3>5
      <4> QED
        BY <4>1, <4>2, <4>3
    <3> QED
      BY <3>2, <3>3, <3>6
  <2> QED
    BY <2>1, <2>2
<1>6. ASSUME NEW m \in Messages(f) PROVE g.seen[m] = {m} \cup UNION {g.seen[p] : p \in g.parents[m]}
  <2>1. SeenFrom(g.seen, left)
    BY <1>3, SeenExists
  <2>2. g.seen[m] = {m} \cup UNION {g.seen[p] : p \in left[m] \cap DOMAIN left}
    BY <1>3, <2>1 DEF SeenFrom
  <2>3. left[m] \cap DOMAIN left = left[m]
    BY <1>3, <1>4
  <2> QED
    BY <1>3, <2>2, <2>3
<1>7. Grounded(g.parents) = Messages(g)
  <2>1. Grounded(f.parents) = DOMAIN f.parents /\ DOMAIN f.parents = Messages(f) /\ IsFiniteSet(Messages(f))
    BY DEF Reachable, Messages, Plain
  <2> QED
    BY <1>3, <2>1, GroundStays
<1> QED
  BY <1>1, <1>3, <1>4, <1>5, <1>6, <1>7 DEF Reachable

\* A deletion leaves a history of messages.
LEMMA PlainStays ==
    ASSUME NEW f, Plain(f), NEW E
    PROVE  Plain(Without(f, E))
<1>1. PICK left : left = Left(f, E)
  OBVIOUS
<1>2. PICK g : g = History(f, left)
  OBVIOUS
<1>3. /\ g.bonds = f.bonds /\ g.parents = left /\ g.seen = Seen(left) /\ g.just = f.just
      /\ Messages(g) = DOMAIN left /\ DOMAIN left = Messages(f)
  BY <1>1, <1>2, HistoryParts, LeftParts
<1>4. left = [m \in Messages(f) |-> left[m]]
  BY <1>1 DEF Left
<1>5. Seen(left) = [m \in Messages(f) |-> Seen(left)[m]]
  <2>1. SeenFrom(Seen(left), left)
    BY SeenExists
  <2>2. PICK s : s = Seen(left)
    OBVIOUS
  <2>3. s = [m \in DOMAIN left |-> {m} \cup UNION {s[p] : p \in left[m] \cap DOMAIN left}]
    BY <2>1, <2>2 DEF SeenFrom
  <2>4. s = [m \in DOMAIN left |-> s[m]]
    BY <2>3
  <2> QED
    BY <1>3, <2>2, <2>4
<1>6. g = [bonds |-> g.bonds, parents |-> [m \in Messages(g) |-> g.parents[m]],
           seen |-> [m \in Messages(g) |-> g.seen[m]], just |-> g.just]
  <2>1. g = [bonds |-> f.bonds, parents |-> left, seen |-> Seen(left), just |-> f.just]
    BY <1>2 DEF History
  <2> QED
    BY <1>3, <1>4, <1>5, <2>1
<1>7. IsFiniteSet(Messages(g)) /\ \A m \in Messages(g) : m = <<m[1], m[2]>> /\ m[2] \in Nat
  BY <1>3 DEF Plain
<1>8. Plain(g)
  BY <1>6, <1>7 DEF Plain
<1> QED
  BY <1>1, <1>2, <1>8, WithoutIs

\* Nothing deleted is nothing changed.
LEMMA WithoutNone ==
    ASSUME NEW f, Plain(f), Reachable(f)
    PROVE  Without(f, {}) = f
<1>1. PICK p : p = f.parents
  OBVIOUS
<1>2. p = [m \in Messages(f) |-> p[m]] /\ f.seen = [m \in Messages(f) |-> f.seen[m]] /\ DOMAIN p = Messages(f)
  <2>1. PICK b : b = [m \in Messages(f) |-> f.parents[m]]
    OBVIOUS
  <2>2. PICK c : c = [m \in Messages(f) |-> f.seen[m]]
    OBVIOUS
  <2>3. f = [bonds |-> f.bonds, parents |-> b, seen |-> c, just |-> f.just]
    BY <2>1, <2>2 DEF Plain
  <2>4. f.parents = b /\ f.seen = c
    BY <2>3
  <2> QED
    BY <1>1, <2>1, <2>2, <2>4 DEF Messages
<1>3. Left(f, {}) = p
  <2>1. Left(f, {}) = [m \in Messages(f) |-> p[m]]
    BY <1>1 DEF Left
  <2> QED
    BY <1>2, <2>1
<1>4. SeenFrom(f.seen, p)
  <2>1. ASSUME NEW m \in Messages(f)
        PROVE  f.seen[m] = {m} \cup UNION {f.seen[q] : q \in p[m] \cap DOMAIN p}
    <3>1. p[m] \subseteq Messages(f) /\ f.seen[m] = {m} \cup UNION {f.seen[q] : q \in p[m]}
      BY <1>1 DEF Reachable
    <3>2. p[m] \cap DOMAIN p = p[m]
      BY <1>2, <3>1
    <3> QED
      BY <3>1, <3>2
  <2> QED
    BY <1>2, <2>1 DEF SeenFrom
<1>5. f.seen = Seen(p)
  <2>1. IsFiniteSet(DOMAIN p) /\ Grounded(p) = DOMAIN p
    BY <1>1, <1>2 DEF Plain, Reachable
  <2> QED
    BY <1>4, <2>1, SeenExists, SeenIsOne
<1>6. f = [bonds |-> f.bonds, parents |-> p, seen |-> f.seen, just |-> f.just]
  BY <1>1, <1>2 DEF Plain
<1>7. Without(f, {}) = History(f, p)
  BY <1>3, WithoutIs
<1> QED
  BY <1>5, <1>6, <1>7 DEF History

\* The search deletes one parent more.
LEMMA RemoveIs ==
    ASSUME NEW f, Plain(f), NEW E, NEW e, e[1] \in Messages(f)
    PROVE  RemoveParent(Without(f, E), e[1], e[2]) = Without(f, E \cup {e})
<1>1. PICK left : left = Left(f, E)
  OBVIOUS
<1>2. PICK g : g = History(f, left)
  OBVIOUS
<1>3. PICK less : less = Left(f, E \cup {e})
  OBVIOUS
<1>4. g = Without(f, E) /\ Without(f, E \cup {e}) = History(f, less)
  BY <1>1, <1>2, <1>3, WithoutIs
<1>5. [left EXCEPT ![e[1]] = @ \ {e[2]}] = less
  <2>1. left = [m \in Messages(f) |-> left[m]] /\ less = [m \in Messages(f) |-> less[m]]
    BY <1>1, <1>3 DEF Left
  <2>2. PICK l : l = [left EXCEPT ![e[1]] = @ \ {e[2]}]
    OBVIOUS
  <2>3. l = [m \in Messages(f) |-> l[m]] /\ \A m \in Messages(f) : l[m] = IF m = e[1] THEN left[m] \ {e[2]} ELSE left[m]
    BY <2>1, <2>2
  <2>4. ASSUME NEW m \in Messages(f), NEW p PROVE p \in l[m] <=> p \in less[m]
    <3>1. p \in left[m] <=> p \in f.parents[m] /\ ~\E x \in E : x[1] = m /\ x[2] = p
      BY <1>1, LeftParts
    <3>2. p \in less[m] <=> p \in f.parents[m] /\ ~\E x \in E \cup {e} : x[1] = m /\ x[2] = p
      BY <1>3, LeftParts
    <3>3. p \in l[m] <=> p \in left[m] /\ ~(m = e[1] /\ p = e[2])
      BY <2>3
    <3> QED
      BY <3>1, <3>2, <3>3
  <2>5. \A m \in Messages(f) : l[m] = less[m]
    <3>1. ASSUME NEW m \in Messages(f) PROVE l[m] = less[m]
      <4>1. CASE m = e[1]
        <5>1. l[m] = left[m] \ {e[2]} /\ less[m] = f.parents[m] \ {x[2] : x \in {y \in E \cup {e} : y[1] = m}}
          BY <1>3, <2>3, <4>1 DEF Left
        <5> QED
          BY <2>4, <5>1
      <4>2. CASE m # e[1]
        <5>1. l[m] = f.parents[m] \ {x[2] : x \in {y \in E : y[1] = m}}
          BY <1>1, <2>3, <4>2 DEF Left
        <5>2. less[m] = f.parents[m] \ {x[2] : x \in {y \in E \cup {e} : y[1] = m}}
          BY <1>3 DEF Left
        <5> QED
          BY <2>4, <5>1, <5>2
      <4> QED
        BY <4>1, <4>2
    <3> QED
      BY <3>1
  <2> QED
    BY <2>1, <2>2, <2>3, <2>5
<1>6. RemoveParent(g, e[1], e[2]) = [g EXCEPT !.parents = less, !.seen = Seen(less)]
  <2>1. g.parents = left
    BY <1>2, HistoryParts
  <2>2. PICK q : q = [g.parents EXCEPT ![e[1]] = @ \ {e[2]}]
    OBVIOUS
  <2>3. q = less
    BY <1>5, <2>1, <2>2
  <2>4. RemoveParent(g, e[1], e[2]) = [g EXCEPT !.parents = q, !.seen = Seen(q)]
    BY <2>2 DEF RemoveParent
  <2> QED
    BY <2>3, <2>4
<1>7. [g EXCEPT !.parents = less, !.seen = Seen(less)] = History(f, less)
  <2>1. PICK s : s = Seen(less)
    OBVIOUS
  <2>2. PICK t : t = Seen(left)
    OBVIOUS
  <2>3. g = [bonds |-> f.bonds, parents |-> left, seen |-> t, just |-> f.just]
    BY <1>2, <2>2 DEF History
  <2>4. PICK q : q = [bonds |-> f.bonds, parents |-> less, seen |-> t, just |-> f.just]
    OBVIOUS
  <2>5. [g EXCEPT !.parents = less] = q
    BY <2>3, <2>4
  <2>6. [q EXCEPT !.seen = s] = [bonds |-> f.bonds, parents |-> less, seen |-> s, just |-> f.just]
    BY <2>4
  <2> QED
    BY <2>1, <2>5, <2>6 DEF History
<1> QED
  BY <1>4, <1>6, <1>7

\* What is admissible stays so, whatever deletable edges it loses.
LEMMA DeletionsAdmit ==
    ASSUME NEW f, Plain(f), Admissible(f), NEW E \in SUBSET Deletable(f)
    PROVE  Admissible(Without(f, E))
<1>1. PICK g : g = Without(f, E)
  OBVIOUS
<1>2. g.bonds = f.bonds /\ g.just = f.just
  BY <1>1, WithoutIs, HistoryParts
<1>3. Reachable(f) /\ Reachable(g)
  BY <1>1, DeletionsReach DEF Admissible
<1>4. CheckMinMessages(g)
  BY <1>2 DEF Admissible, CheckMinMessages, Bonded
<1>5. Minimum(g) = Minimum(f)
  <2>1. \A m : SelfMessages(g, m) = SelfMessages(f, m)
    BY <1>1, <1>3, ChainStays
  <2> QED
    BY <1>2, <2>1 DEF Minimum
<1>6. Covered(g)
  BY <1>2, <1>5 DEF Admissible, Covered, Bonded
<1> QED
  BY <1>1, <1>3, <1>4, <1>6 DEF Admissible

\* One deletion of the search.
Deletion(f, E, e, price) == [edge |-> e, to |-> Without(f, E \cup {e}), cost |-> <<price[e]>>]

\* The transitions from a history without E delete one more deletable edge.
LEMMA DeletionsAre ==
    ASSUME NEW f, Plain(f), Admissible(f), NEW E \in SUBSET Deletable(f), NEW price
    PROVE  Deletions(Without(f, E), price) = {Deletion(f, E, e, price) : e \in Deletable(f) \ E}
<1>1. PICK g : g = Without(f, E)
  OBVIOUS
<1>2. PICK P : P = Messages(f) \X Messages(f)
  OBVIOUS
<1>3. PICK D : D = {x \in P : x[2] \in g.parents[x[1]]}
  OBVIOUS
<1>4. Messages(g) = Messages(f) /\ g.parents = Left(f, E)
  BY <1>1, WithoutIs, HistoryParts, LeftParts
<1>5. ASSUME NEW e \in D PROVE /\ [edge |-> e, to |-> RemoveParent(g, e[1], e[2]), cost |-> <<price[e]>>] = Deletion(f, E, e, price)
                               /\ Deletion(f, E, e, price).to = Without(f, E \cup {e})
  <2>1. e[1] \in Messages(f)
    BY <1>2, <1>3
  <2>2. RemoveParent(g, e[1], e[2]) = Without(f, E \cup {e})
    BY <1>1, <2>1, RemoveIs
  <2> QED
    BY <2>2 DEF Deletion
<1>6. Deletions(g, price) = {t \in {Deletion(f, E, e, price) : e \in D} : Admissible(t.to)}
  <2>1. PICK T : T = {[edge |-> e, to |-> RemoveParent(g, e[1], e[2]), cost |-> <<price[e]>>] : e \in D}
    OBVIOUS
  <2>2. T = {Deletion(f, E, e, price) : e \in D}
    BY <1>5, <2>1
  <2>3. Deletions(g, price) = {t \in T : Admissible(t.to)}
    BY <1>2, <1>3, <1>4, <2>1 DEF Deletions
  <2> QED
    BY <2>2, <2>3
<1>7. Reachable(f)
  BY DEF Admissible
<1>8. ASSUME NEW e \in Deletable(f) \ E PROVE e \in D /\ Admissible(Deletion(f, E, e, price).to)
  <2>1. e \in P /\ e[2] \in f.parents[e[1]] /\ e[1] \in Messages(f) /\ e = <<e[1], e[2]>>
    BY <1>2 DEF Deletable
  <2>2. \A x \in E : x = <<x[1], x[2]>>
    BY DEF Deletable
  <2>3. e[2] \in g.parents[e[1]]
    BY <1>4, <2>1, <2>2, LeftParts
  <2>4. E \cup {e} \in SUBSET Deletable(f)
    OBVIOUS
  <2>5. e \in D
    BY <1>3, <2>1, <2>3
  <2>6. Admissible(Without(f, E \cup {e}))
    BY <2>4, DeletionsAdmit
  <2> QED
    BY <1>5, <2>5, <2>6
<1>9. ASSUME NEW e \in D, Admissible(Deletion(f, E, e, price).to) PROVE e \in Deletable(f) \ E
  <2>1. e \in P /\ e[2] \in g.parents[e[1]] /\ e[1] \in Messages(f) /\ e[2] \in Messages(f)
    BY <1>2, <1>3
  <2>2. e[2] \in f.parents[e[1]] /\ e \notin E
    BY <1>4, <2>1, LeftParts
  <2>3. e[2] # <<e[1][1], e[1][2] - 1>>
    <3>1. PICK h : h = Without(f, E \cup {e})
      OBVIOUS
    <3>2. PICK m \in Messages(f) : m = e[1]
      BY <2>1
    <3>3. Plain(h) /\ Reachable(h) /\ Messages(h) = Messages(f) /\ h.parents = Left(f, E \cup {e})
      BY <1>5, <1>9, <3>1, PlainStays, WithoutIs, HistoryParts, LeftParts DEF Admissible
    <3>4. e[2] \notin h.parents[m]
      <4>1. e \in E \cup {e}
        OBVIOUS
      <4> QED
        BY <3>2, <3>3, <4>1, LeftParts
    <3>5. SUFFICES ASSUME e[2] = <<m[1], m[2] - 1>> PROVE FALSE
      BY <3>2
    <3>6. m[2] # 0
      <4>1. e[2][2] \in Nat
        BY <2>1 DEF Plain
      <4>2. e[2][2] = m[2] - 1
        BY <3>5
      <4>3. m[2] \in Nat
        BY DEF Plain
      <4> QED
        BY <4>1, <4>2, <4>3
    <3>7. m \in Messages(h)
      BY <3>3
    <3>8. <<m[1], m[2] - 1>> \in OwnParents(h, m)
      BY <3>3, <3>6, <3>7, OwnLast
    <3> QED
      BY <3>4, <3>5, <3>8 DEF OwnParents
  <2> QED
    BY <1>2, <2>1, <2>2, <2>3 DEF Deletable
<1>10. {t \in {Deletion(f, E, e, price) : e \in D} : Admissible(t.to)} = {Deletion(f, E, e, price) : e \in Deletable(f) \ E}
  BY <1>8, <1>9
<1> QED
  BY <1>1, <1>6, <1>10

-----------------------------------------------------------------------------
(* The search for a counterexample: every set of deletions is reached.      *)

Cut(E) == Without(job.history, E)
Cuts == {Cut(E) : E \in SUBSET Deletable(job.history)}

\* The transition of the search for a deletion.
Cutting(t) == [to |-> t.to, key |-> t.to.parents, cost |-> t.cost, edge |-> t.edge]

HistoryGraph ==
    [states |-> Cuts, start |-> job.history, key |-> [g \in Cuts |-> g.parents],
     moves |-> [g \in Cuts |-> {Cutting(t) : t \in Deletions(g, job.price)}],
     goals |-> {g \in Cuts : IsCounterexample(g)}, dims |-> 1]

\* A history that the search begins with.
Begun == job \in Jobs /\ job.kind = "casper" /\ Baseline(job.history)

\* What the assumption on histories says of one that a search begins with.
LEMMA HistoryTyped ==
    ASSUME Begun
    PROVE  /\ Plain(job.history) /\ Admissible(job.history) /\ Reachable(job.history)
           /\ IsFiniteSet(Deletable(job.history))
           /\ \A e \in Deletable(job.history) : job.price[e] \in Nat
           /\ Cut({}) = job.history
<1>1. PICK f : f = job.history
  OBVIOUS
<1>2. Plain(f)
  BY <1>1, HistoryAssumption DEF Begun, Plain
<1>3. Admissible(f) /\ Reachable(f)
  BY <1>1 DEF Begun, Baseline, Admissible, Finalized
<1>4. PICK P : P = Messages(f) \X Messages(f)
  OBVIOUS
<1>5. Deletable(f) \subseteq P
  BY <1>4 DEF Deletable
<1>6. IsFiniteSet(P)
  BY <1>2, <1>4, FS_Product DEF Plain
<1>7. \A e \in P : job.price[e] \in Nat
  BY <1>1, <1>4, HistoryAssumption DEF Begun
<1>8. Cut({}) = f
  BY <1>1, <1>2, <1>3, WithoutNone DEF Cut
<1> QED
  BY <1>1, <1>2, <1>3, <1>5, <1>6, <1>7, <1>8, FS_Subset

\* The price of a set of deletions is the sum of their prices.
LEMMA PriceIs ==
    ASSUME Begun, NEW E \in SUBSET Deletable(job.history)
    PROVE  /\ Price(E) \in Nat /\ Price({}) = 0
           /\ \A e \in Deletable(job.history) \ E : Price(E \cup {e}) = Price(E) + job.price[e]
<1>1. PICK p : p = job.price
  OBVIOUS
<1>2. IsFiniteSet(E) /\ \A e \in Deletable(job.history) : p[e] \in Nat /\ p[e] \in Int
  BY <1>1, HistoryTyped, FS_Subset
<1>3. SumFunctionOnSet(p, E) \in Int /\ 1 * SumFunctionOnSet(p, E) + 0 * SumFunctionOnSet(p, E) >= 0
  BY <1>2, SumWeighted
<1>4. SumFunctionOnSet(p, {}) = 0
  BY SumEmpty
<1>5. ASSUME NEW e \in Deletable(job.history) \ E
      PROVE  SumFunctionOnSet(p, E \cup {e}) = SumFunctionOnSet(p, E) + p[e]
  BY <1>2, SumAdd
<1> QED
  BY <1>1, <1>3, <1>4, <1>5 DEF Price

\* The moves of the search, from a history that has lost E.
LEMMA CutMoves ==
    ASSUME Begun, NEW E \in SUBSET Deletable(job.history)
    PROVE  HistoryGraph.moves[Cut(E)] = {Cutting(Deletion(job.history, E, e, job.price)) : e \in Deletable(job.history) \ E}
<1>1. PICK f : f = job.history
  OBVIOUS
<1>2. PICK D : D = Deletable(f) \ E
  OBVIOUS
<1>3. Deletions(Cut(E), job.price) = {Deletion(f, E, e, job.price) : e \in D}
  BY <1>1, <1>2, HistoryTyped, DeletionsAre DEF Cut
<1>4. Cut(E) \in Cuts
  BY DEF Cuts
<1>5. HistoryGraph.moves[Cut(E)] = {Cutting(t) : t \in Deletions(Cut(E), job.price)}
  BY <1>4 DEF HistoryGraph
<1> QED
  BY <1>1, <1>2, <1>3, <1>5

\* Where a transition for a deletion leads, from a history without the edges E.
CutTo(t, F, e) == t.to = Cut(F) /\ t.key = Cut(F).parents /\ t.cost = <<job.price[e]>>

\* A deletion leads to the history without that edge too.
LEMMA CuttingTo ==
    ASSUME NEW E, NEW e
    PROVE  CutTo(Cutting(Deletion(job.history, E, e, job.price)), E \cup {e}, e)
<1>1. PICK f : f = job.history
  OBVIOUS
<1>2. PICK c : c = <<job.price[e]>>
  OBVIOUS
<1>3. PICK d : d = Deletion(f, E, e, job.price)
  OBVIOUS
<1>4. d.to = Without(f, E \cup {e}) /\ d.cost = c /\ d.edge = e
  BY <1>2, <1>3 DEF Deletion
<1>5. PICK F : F = E \cup {e}
  OBVIOUS
<1>6. PICK g : g = Cut(F)
  OBVIOUS
<1>7. d.to = g
  BY <1>1, <1>4, <1>5, <1>6 DEF Cut
<1>8. Cutting(d).to = g /\ Cutting(d).key = g.parents /\ Cutting(d).cost = c
  BY <1>4, <1>7 DEF Cutting
<1>9. CutTo(Cutting(d), F, e)
  BY <1>2, <1>6, <1>8 DEF CutTo
<1> QED
  BY <1>1, <1>3, <1>5, <1>9

\* The search for a counterexample searches a graph, and parents tell its states apart.
LEMMA HistoryIsGraph ==
    ASSUME Begun
    PROVE  Graph(HistoryGraph) /\ OneKey(HistoryGraph)
<1>1. PICK g : g = HistoryGraph
  OBVIOUS
<1>2. PICK f : f = job.history
  OBVIOUS
<1>3. /\ g.states = Cuts /\ g.start = f /\ g.dims = 1 /\ \A v \in Cuts : g.key[v] = v.parents
  BY <1>1, <1>2 DEF HistoryGraph
<1>4. Plain(f) /\ IsFiniteSet(Deletable(f)) /\ (\A e \in Deletable(f) : job.price[e] \in Nat) /\ f \in Cuts
  <2>1. Cut({}) \in Cuts
    BY DEF Cuts
  <2> QED
    BY <1>2, <2>1, HistoryTyped
<1>5. ASSUME NEW v \in Cuts
      PROVE  /\ IsFiniteSet(g.moves[v])
             /\ \A t \in g.moves[v] : t.to \in Cuts /\ t.key = g.key[t.to] /\ t.cost \in Costs(1)
  <2>1. PICK E \in SUBSET Deletable(f) : v = Cut(E)
    BY <1>2 DEF Cuts
  <2>2. PICK D : D = Deletable(f) \ E
    OBVIOUS
  <2>3. g.moves[v] = {Cutting(Deletion(f, E, e, job.price)) : e \in D}
    BY <1>1, <1>2, <2>1, <2>2, CutMoves
  <2>4. PICK by : by = [e \in D |-> Cutting(Deletion(f, E, e, job.price))]
    OBVIOUS
  <2>5. g.moves[v] = {by[e] : e \in D}
    BY <2>3, <2>4
  <2>6. IsFiniteSet(D)
    BY <1>4, <2>2, FS_Subset
  <2>7. ASSUME NEW t \in g.moves[v] PROVE t.to \in Cuts /\ t.key = g.key[t.to] /\ t.cost \in Costs(1)
    <3>1. PICK e \in D : t = Cutting(Deletion(f, E, e, job.price))
      BY <2>3
    <3>2. t.to = Cut(E \cup {e}) /\ t.key = Cut(E \cup {e}).parents /\ t.cost = <<job.price[e]>>
      <4>1. CutTo(t, E \cup {e}, e)
        BY <1>2, <3>1, CuttingTo
      <4> QED
        BY <4>1 DEF CutTo
    <3>3. Cut(E \cup {e}) \in Cuts
      BY <1>2, <2>2 DEF Cuts
    <3>4. <<job.price[e]>> \in [1 .. 1 -> Nat]
      BY <1>4, <2>2
    <3> QED
      BY <1>3, <3>2, <3>3, <3>4 DEF Costs
  <2> QED
    BY <2>5, <2>6, <2>7, ImageFinite
<1>6. Graph(g)
  BY <1>3, <1>4, <1>5 DEF Graph
<1>7. ASSUME NEW v \in Cuts, NEW w \in Cuts, v.parents = w.parents PROVE v = w
  <2>1. PICK E : v = Cut(E)
    BY DEF Cuts
  <2>2. PICK F : w = Cut(F)
    BY DEF Cuts
  <2>3. v = History(f, Left(f, E)) /\ w = History(f, Left(f, F))
    BY <1>2, <1>4, <2>1, <2>2, WithoutIs DEF Cut
  <2>4. Left(f, E) = Left(f, F)
    BY <1>7, <2>3, HistoryParts
  <2> QED
    BY <2>3, <2>4
<1>8. OneKey(g)
  BY <1>3, <1>7 DEF OneKey
<1> QED
  BY <1>1, <1>6, <1>8

\* Costs of one number are compared and added as numbers.
LEMMA Priced ==
    ASSUME NEW a \in Nat, NEW b \in Nat
    PROVE  /\ <<a>> \in Costs(1) /\ AddCosts(<<a>>, <<b>>) = <<a + b>> /\ Free(1) = <<0>>
           /\ Cheaper(<<a>>, <<b>>) <=> a < b
<1>1. <<a>> \in Costs(1)
  BY DEF Costs
<1>2. AddCosts(<<a>>, <<b>>) = <<a + b>>
  BY DEF AddCosts
<1>3. Free(1) = <<0>>
  BY DEF Free
<1>4. Cheaper(<<a>>, <<b>>) <=> a < b
  <2>1. PICK p : p = <<a>>
    OBVIOUS
  <2>2. PICK q : q = <<b>>
    OBVIOUS
  <2>3. p[1] = a /\ q[1] = b /\ DOMAIN p = 1 .. 1
    BY <2>1, <2>2
  <2>4. ASSUME Cheaper(p, q) PROVE a < b
    BY <2>3, <2>4 DEF Cheaper
  <2>5. ASSUME a < b PROVE Cheaper(p, q)
    <3>1. \A j \in 1 .. (1 - 1) : p[j] = q[j]
      OBVIOUS
    <3>2. 1 \in DOMAIN p /\ p[1] < q[1]
      BY <2>3, <2>5
    <3> QED
      BY <3>1, <3>2 DEF Cheaper
  <2> QED
    BY <2>1, <2>2, <2>4, <2>5
<1> QED
  BY <1>1, <1>2, <1>3, <1>4

\* A sound search covers every set of deletions at its price, by the order in which they are
\* made: a smallest set that it did not cover would lack one edge to one that it does.
LEMMA HistoryCovers ==
    ASSUME Begun, NEW s, Sound(s, HistoryGraph)
    PROVE  \A E \in SUBSET Deletable(job.history) : Covers(s, Cut(E), <<Price(E)>>)
<1>1. PICK g : g = HistoryGraph
  OBVIOUS
<1>2. Graph(g) /\ Sound(s, g) /\ g.start = Cut({}) /\ g.dims = 1 /\ g.states = Cuts
  BY <1>1, HistoryIsGraph, HistoryTyped DEF HistoryGraph
<1>3. PICK D : D = Deletable(job.history)
  OBVIOUS
<1> DEFINE Bad == {E \in SUBSET D : ~Covers(s, Cut(E), <<Price(E)>>)}
<1>4. SUFFICES ASSUME Bad # {} PROVE FALSE
  BY <1>3
<1>5. PICK E \in Bad : \A F \in Bad : ~(F \subseteq E /\ F # E)
  <2>1. IsFiniteSet(D) /\ Bad \in SUBSET (SUBSET D)
    BY <1>3, HistoryTyped
  <2> HIDE DEF Bad
  <2> QED
    BY <1>4, <2>1, SmallestSet
<1>6. E \in SUBSET D /\ ~Covers(s, Cut(E), <<Price(E)>>)
  BY <1>5
<1>7. E # {}
  <2>1. Covers(s, Cut({}), Free(1))
    BY <1>2, CoversStart
  <2>2. Price({}) = 0 /\ Free(1) = <<0>>
    BY PriceIs, Priced
  <2> QED
    BY <1>6, <2>1, <2>2
<1>8. PICK e \in E : TRUE
  BY <1>7
<1>9. PICK F \in SUBSET D : F = E \ {e} /\ E = F \cup {e} /\ e \in D \ F
  <2>1. E \ {e} \in SUBSET D /\ E = (E \ {e}) \cup {e} /\ e \in D \ (E \ {e})
    BY <1>6, <1>8
  <2> QED
    BY <2>1
<1>10. Covers(s, Cut(F), <<Price(F)>>)
  <2>1. F \subseteq E /\ F # E
    BY <1>8, <1>9
  <2>2. F \notin Bad
    BY <1>5, <2>1
  <2> QED
    BY <2>2
<1>11. PICK t : t = Cutting(Deletion(job.history, F, e, job.price))
  OBVIOUS
<1>12. t.to = Cut(E) /\ t.cost = <<job.price[e]>>
  <2>1. CutTo(t, E, e)
    BY <1>9, <1>11, CuttingTo
  <2> QED
    BY <2>1 DEF CutTo
<1>13. t \in g.moves[Cut(F)]
  <2>1. HistoryGraph.moves[Cut(F)] =
            {Cutting(Deletion(job.history, F, x, job.price)) : x \in Deletable(job.history) \ F}
    <3>1. F \in SUBSET Deletable(job.history)
      BY <1>3, <1>9
    <3> QED
      BY <3>1, CutMoves
  <2>2. e \in Deletable(job.history) \ F
    BY <1>3, <1>9
  <2> QED
    BY <1>1, <1>11, <2>1, <2>2
<1>14. Cut(F) \in g.states
  BY <1>2, <1>3 DEF Cuts
<1>15. Price(F) \in Nat /\ job.price[e] \in Nat /\ Price(E) = Price(F) + job.price[e]
  BY <1>3, <1>9, PriceIs, HistoryTyped
<1>16. PICK c : c = <<Price(F)>>
  OBVIOUS
<1>17. c \in Costs(g.dims) /\ AddCosts(c, t.cost) = <<Price(E)>>
  BY <1>2, <1>12, <1>15, <1>16, Priced
<1>18. Covers(s, t.to, AddCosts(c, t.cost))
  BY <1>2, <1>10, <1>13, <1>14, <1>16, <1>17, CoversStep
<1> QED
  BY <1>6, <1>12, <1>17, <1>18

\* A history that upstream could have built, covers everybody and is not finalized.
Counter(g) == IsCounterexample(g) /\ Reachable(g)

\* What is next in the queue costs no more than any set of deletions that makes a
\* counterexample.
LEMMA NoCheaperCut ==
    ASSUME Begun, NEW s, Sound(s, HistoryGraph), NEW E \in SUBSET Deletable(job.history), Counter(Cut(E))
    PROVE  s.frontier # {} /\ \A e \in NextInQueue(s) : ~Cheaper(<<Price(E)>>, e.cost)
<1>1. PICK g : g = HistoryGraph
  OBVIOUS
<1>2. Graph(g) /\ Sound(s, g) /\ g.dims = 1 /\ g.goals = {v \in Cuts : IsCounterexample(v)}
  BY <1>1, HistoryIsGraph DEF HistoryGraph
<1>3. Cut(E) \in g.goals
  BY <1>2 DEF Cuts, Counter
<1>4. <<Price(E)>> \in Costs(g.dims)
  BY <1>2, PriceIs, Priced
<1>5. Covers(s, Cut(E), <<Price(E)>>)
  BY HistoryCovers
<1> QED
  BY <1>2, <1>3, <1>4, <1>5, CoversGoal

-----------------------------------------------------------------------------
(* The turns of that search.                                                *)

\* An entry is what some deletions make of the history, at their price.
CutTrail(e) == \E E \in SUBSET Deletable(job.history) : e.state = Cut(E) /\ e.cost = <<Price(E)>>

\* What the search for a counterexample has found out.
CutFound(s) ==
    /\ s.status \in {"SEARCHING", "UNREACHABLE", "REACHABLE", "LIMIT_REACHED", "ERROR"}
    /\ s.status = "SEARCHING" => Sound(s, HistoryGraph) /\ \A e \in s.frontier : CutTrail(e)
    /\ s.status = "UNREACHABLE" => \A E \in SUBSET Deletable(job.history) : ~Counter(Cut(E))
    /\ s.status = "REACHABLE" =>
          /\ CutTrail(s.found) /\ IsCounterexample(s.found.state)
          /\ \A E \in SUBSET Deletable(job.history) : Counter(Cut(E)) => ~Cheaper(<<Price(E)>>, s.found.cost)

\* The search begins with nothing found out that is wrong.
LEMMA CutBegins ==
    ASSUME Begun
    PROVE  CutFound(StartSearch(job.history, job.history.parents, 1))
<1>1. PICK g : g = HistoryGraph
  OBVIOUS
<1>2. PICK f : f = job.history
  OBVIOUS
<1>3. f \in Cuts /\ f = Cut({})
  BY <1>2, HistoryTyped DEF Cuts
<1>4. Graph(g) /\ g.dims = 1 /\ g.start = f /\ g.key[f] = f.parents
  BY <1>1, <1>2, <1>3, HistoryIsGraph DEF HistoryGraph
<1>5. PICK s : s = StartSearch(g.start, g.key[g.start], g.dims)
  OBVIOUS
<1>6. PICK e : e = [state |-> g.start, key |-> g.key[g.start], cost |-> Free(g.dims), path |-> <<>>]
  OBVIOUS
<1>7. Sound(s, g) /\ s.status = "SEARCHING" /\ s.frontier = {e}
  BY <1>4, <1>5, <1>6, StartSound
<1>8. e.state = f /\ e.cost = Free(1)
  BY <1>4, <1>6
<1>9. CutTrail(e)
  <2>1. Price({}) = 0 /\ Free(1) = <<0>>
    BY PriceIs, Priced
  <2>2. e.state = Cut({}) /\ e.cost = <<Price({})>>
    BY <1>3, <1>8, <2>1
  <2> QED
    BY <2>2 DEF CutTrail
<1> QED
  BY <1>1, <1>2, <1>4, <1>5, <1>7, <1>9 DEF CutFound

\* A child of an entry has lost one edge more, at its price.
LEMMA CutTrailGrows ==
    ASSUME Begun, NEW e, CutTrail(e), NEW t \in HistoryGraph.moves[e.state]
    PROVE  CutTrail(Child(e, t))
<1>1. PICK E \in SUBSET Deletable(job.history) : e.state = Cut(E) /\ e.cost = <<Price(E)>>
  BY DEF CutTrail
<1>2. PICK x \in Deletable(job.history) \ E : t = Cutting(Deletion(job.history, E, x, job.price))
  BY <1>1, CutMoves
<1>3. t.to = Cut(E \cup {x}) /\ t.cost = <<job.price[x]>>
  <2>1. CutTo(t, E \cup {x}, x)
    BY <1>2, CuttingTo
  <2> QED
    BY <2>1 DEF CutTo
<1>4. Price(E) \in Nat /\ job.price[x] \in Nat /\ Price(E \cup {x}) = Price(E) + job.price[x]
  BY <1>2, PriceIs, HistoryTyped
<1>5. PICK a \in Nat : a = Price(E)
  BY <1>4
<1>6. PICK b \in Nat : b = job.price[x]
  BY <1>4
<1>7. AddCosts(<<a>>, <<b>>) = <<a + b>>
  BY Priced
<1>8. Child(e, t).state = t.to /\ Child(e, t).cost = AddCosts(e.cost, t.cost)
  BY DEF Child
<1>9. Child(e, t).state = Cut(E \cup {x}) /\ Child(e, t).cost = <<Price(E \cup {x})>>
  BY <1>1, <1>3, <1>4, <1>5, <1>6, <1>7, <1>8
<1>10. E \cup {x} \in SUBSET Deletable(job.history)
  BY <1>2
<1> QED
  BY <1>9, <1>10 DEF CutTrail

\* A turn keeps what the search has found out right.
LEMMA CutTurns ==
    ASSUME Begun, NEW s, CutFound(s), s.status = "SEARCHING", NEW e \in NextInQueue(s),
           NEW goal \in BOOLEAN, goal <=> IsCounterexample(e.state),
           NEW limit, NEW out, out = HistoryGraph.moves[e.state],
           NEW r, r = Visit(s, e, out, goal, FALSE, limit, FALSE)
    PROVE  CutFound(r)
<1>1. PICK g : g = HistoryGraph
  OBVIOUS
<1>2. Graph(g) /\ OneKey(g) /\ g.dims = 1 /\ g.states = Cuts /\ g.goals = {v \in Cuts : IsCounterexample(v)}
  BY <1>1, HistoryIsGraph DEF HistoryGraph
<1>3. Sound(s, g) /\ \A f \in s.frontier : CutTrail(f)
  BY <1>1 DEF CutFound
<1>4. e \in s.frontier /\ e.state \in Cuts
  BY <1>2, <1>3 DEF NextInQueue, Sound, Queued, Typed
<1>5. goal <=> e.state \in g.goals
  BY <1>2, <1>4
<1>6. Turn(s, r, e, g, FALSE, FALSE)
  BY <1>1, <1>2, <1>3, <1>5, Turned
<1>7. r.status \in {"SEARCHING", "UNREACHABLE", "REACHABLE", "LIMIT_REACHED", "ERROR"}
  BY <1>6 DEF Turn
<1>8. ASSUME r.status = "SEARCHING" PROVE Sound(r, g) /\ \A f \in r.frontier : CutTrail(f)
  <2>1. /\ Sound(r, g)
        /\ \A f \in r.frontier : f \in s.frontier \/ \E t \in g.moves[e.state] : f = Child(e, t)
    BY <1>6, <1>8 DEF Turn
  <2>2. ASSUME NEW f \in r.frontier, f \notin s.frontier PROVE CutTrail(f)
    <3>1. PICK t \in g.moves[e.state] : f = Child(e, t)
      BY <2>1, <2>2
    <3>2. CutTrail(Child(e, t))
      BY <1>1, <1>3, <1>4, CutTrailGrows
    <3> QED
      BY <3>1, <3>2
  <2> QED
    BY <1>3, <2>1, <2>2
<1>9. ASSUME r.status = "UNREACHABLE" PROVE \A E \in SUBSET Deletable(job.history) : ~Counter(Cut(E))
  <2>1. Sound(r, HistoryGraph) /\ r.frontier = {}
    BY <1>1, <1>6, <1>9 DEF Turn
  <2> QED
    BY <2>1, NoCheaperCut
<1>10. ASSUME r.status = "REACHABLE"
       PROVE  /\ CutTrail(r.found) /\ IsCounterexample(r.found.state)
              /\ \A E \in SUBSET Deletable(job.history) : Counter(Cut(E)) => ~Cheaper(<<Price(E)>>, r.found.cost)
  <2>1. r.found = e /\ goal
    BY <1>5, <1>6, <1>10 DEF Turn
  <2>2. \A E \in SUBSET Deletable(job.history) : Counter(Cut(E)) => ~Cheaper(<<Price(E)>>, e.cost)
    BY <1>1, <1>3, NoCheaperCut
  <2> QED
    BY <1>3, <1>4, <2>1, <2>2
<1> QED
  BY <1>1, <1>7, <1>8, <1>9, <1>10 DEF CutFound

-----------------------------------------------------------------------------
(* What an inquiry for a counterexample answers.                            *)

CutExact(a) ==
    LET f == job.history
        found == a.status = "COUNTEREXAMPLE_FOUND"
        lost == {e \in Deletable(f) : e[2] \notin a.end.parents[e[1]]}
        counter(g) == IsCounterexample(g) /\ Reachable(g)
    IN  /\ found => /\ a.end = Without(f, lost) /\ counter(a.end)
                    /\ a.cost = <<Price(lost)>>
        /\ found => \A s \in SUBSET Deletable(f) :
                        Price(s) < a.cost[1] => ~counter(Without(f, s))
        /\ a.status = "EXHAUSTED_NO_COUNTEREXAMPLE" =>
               \A s \in SUBSET Deletable(f) : ~counter(Without(f, s))

CutInv ==
    job.kind = "casper" =>
        /\ cheated = FALSE
        /\ pass \in {None, "abstract"}
        /\ pass # None => Baseline(job.history) /\ CutFound(search)
        /\ answer # None => pass = None \/ search.status # "SEARCHING"

CutKnown == job \in Jobs /\ CutInv /\ CounterexampleIsLeast

\* The edges that a history of the search has lost are those that were deleted.
LEMMA CutLost ==
    ASSUME Begun, NEW E \in SUBSET Deletable(job.history)
    PROVE  {e \in Deletable(job.history) : e[2] \notin Cut(E).parents[e[1]]} = E
<1>1. PICK f : f = job.history
  OBVIOUS
<1>2. PICK p : p = Cut(E).parents
  OBVIOUS
<1>3. p = Left(f, E) /\ Plain(f)
  BY <1>1, <1>2, HistoryTyped, WithoutIs, HistoryParts DEF Cut
<1>4. ASSUME NEW e \in Deletable(f) PROVE e[2] \in p[e[1]] <=> e \notin E
  <2>1. /\ e[1] \in Messages(f) /\ e[2] \in f.parents[e[1]] /\ e = <<e[1], e[2]>>
        /\ \A x \in E : x = <<x[1], x[2]>>
    BY <1>1 DEF Deletable
  <2>2. PICK m \in Messages(f) : m = e[1]
    BY <2>1
  <2>3. PICK q : q = e[2]
    OBVIOUS
  <2>4. e = <<m, q>> /\ q \in f.parents[m]
    BY <2>1, <2>2, <2>3
  <2>5. q \in p[m] <=> q \in f.parents[m] /\ <<m, q>> \notin E
    BY <1>3, <2>1, LeftParts
  <2> QED
    BY <2>2, <2>3, <2>4, <2>5
<1> QED
  BY <1>1, <1>2, <1>4

\* A counterexample of the search, with no cheaper one, is what the property asks for.
LEMMA CutAnswers ==
    ASSUME Begun, NEW E \in SUBSET Deletable(job.history), IsCounterexample(Cut(E)),
           \A F \in SUBSET Deletable(job.history) : Counter(Cut(F)) => ~Cheaper(<<Price(F)>>, <<Price(E)>>),
           NEW a, a.status = "COUNTEREXAMPLE_FOUND", a.end = Cut(E), a.cost = <<Price(E)>>
    PROVE  CutExact(a)
<1>1. PICK f : f = job.history
  OBVIOUS
<1>2. {e \in Deletable(f) : e[2] \notin a.end.parents[e[1]]} = E
  BY <1>1, CutLost
<1>3. a.end = Without(f, E)
  BY <1>1 DEF Cut
<1>4. IsCounterexample(a.end) /\ Reachable(a.end)
  BY <1>1, <1>3, HistoryTyped, DeletionsReach
<1>5. ASSUME NEW s \in SUBSET Deletable(f), Price(s) < a.cost[1]
      PROVE  ~(IsCounterexample(Without(f, s)) /\ Reachable(Without(f, s)))
  <2>1. PICK x \in Nat : x = Price(s)
    BY <1>1, PriceIs
  <2>2. PICK y \in Nat : y = Price(E)
    BY PriceIs
  <2>3. x < y
    BY <1>5, <2>1, <2>2
  <2>4. Cheaper(<<x>>, <<y>>)
    BY <2>3, Priced
  <2>5. ~Counter(Cut(s))
    BY <1>1, <2>1, <2>2, <2>4
  <2> QED
    BY <1>1, <2>5 DEF Counter, Cut
<1> QED
  BY <1>1, <1>2, <1>3, <1>4, <1>5 DEF CutExact

\* Nothing about the search changes while its job does not.
LEMMA CutFixed ==
    ASSUME job' = job
    PROVE  /\ Baseline(job.history)' <=> Baseline(job.history)
           /\ \A s : CutFound(s)' <=> CutFound(s)
           /\ \A a : CutExact(a)' <=> CutExact(a)
<1>1. Baseline(job.history)' <=> Baseline(job.history)
  OBVIOUS
<1>2. HistoryGraph' = HistoryGraph
  BY DEF HistoryGraph, Cuts, Cut
<1>3. \A E : Price(E)' = Price(E) /\ Cut(E)' = Cut(E)
  BY DEF Price, Cut
<1>4. \A e : CutTrail(e)' <=> CutTrail(e)
  BY <1>3 DEF CutTrail
<1>5. ASSUME NEW s PROVE CutFound(s)' <=> CutFound(s)
  <2>1. Sound(s, HistoryGraph)' <=> Sound(s, HistoryGraph)
    BY <1>2 DEF Sound, Typed, Queued, Waiting, SettledFirst, Started, Expanded
  <2> QED
    BY <1>3, <1>4, <2>1 DEF CutFound, Counter
<1>6. ASSUME NEW a PROVE CutExact(a)' <=> CutExact(a)
  BY <1>3 DEF CutExact
<1> QED
  BY <1>1, <1>5, <1>6

\* What the search for a counterexample says of its outcome.
LEMMA CutOutcome ==
    ASSUME job.kind = "casper", cheated = FALSE,
           NEW st \in {"UNREACHABLE", "REACHABLE", "LIMIT_REACHED", "ERROR"}
    PROVE  /\ Outcome(st) = "COUNTEREXAMPLE_FOUND" => st = "REACHABLE"
           /\ Outcome(st) = "EXHAUSTED_NO_COUNTEREXAMPLE" => st = "UNREACHABLE"
           /\ Outcome(st) # "BLOCKED"
<1>1. ~Repairing
  BY DEF Repairing
<1>2. CASE st = "ERROR"
  BY <1>2 DEF Outcome
<1>3. CASE st # "ERROR"
  <2>1. Outcome(st) = CASE st = "REACHABLE" -> "COUNTEREXAMPLE_FOUND" [] st = "UNREACHABLE" -> "EXHAUSTED_NO_COUNTEREXAMPLE" [] OTHER -> "LIMIT_REACHED"
    BY <1>1, <1>3 DEF Outcome
  <2> QED
    BY <1>3, <2>1
<1> QED
  BY <1>2, <1>3

\* The invariant of the search for a counterexample holds at first.
LEMMA CutInit == InquiryInit => CutKnown
BY NoneAssumption DEF InquiryInit, CutKnown, CutInv, CounterexampleIsLeast

\* Every action keeps it.
LEMMA CutNext == CutKnown /\ [InquiryNext]_inquiryVars => CutKnown'
<1> SUFFICES ASSUME CutKnown, [InquiryNext]_inquiryVars PROVE CutKnown'
  OBVIOUS
<1>1. job' = job /\ job \in Jobs
  BY DEF CutKnown, InquiryNext, inquiryVars, Open, Iterate, Refine, Close
<1>2. CASE job.kind # "casper"
  BY <1>1, <1>2 DEF CutKnown, CutInv, CounterexampleIsLeast
<1> SUFFICES ASSUME job.kind = "casper" PROVE CutKnown'
  BY <1>2
<1>3. /\ cheated = FALSE
      /\ pass \in {None, "abstract"}
      /\ pass # None => Baseline(job.history) /\ CutFound(search)
      /\ answer # None => pass = None \/ search.status # "SEARCHING"
      /\ answer # None => CutExact(answer)
  <2>1. answer # None => CutExact(answer)
    BY DEF CutKnown, CounterexampleIsLeast, CutExact
  <2> QED
    BY <2>1 DEF CutKnown, CutInv
<1>4. ASSUME /\ cheated' = FALSE
             /\ pass' \in {None, "abstract"}
             /\ pass' # None => Baseline(job.history) /\ CutFound(search')
             /\ answer' # None => pass' = None \/ search'.status # "SEARCHING"
             /\ answer' # None => CutExact(answer')
      PROVE  CutKnown'
  <2>1. CutInv'
    BY <1>1, <1>4, CutFixed DEF CutInv
  <2>2. answer' # None => CutExact(answer)'
    BY <1>1, <1>4, CutFixed
  <2>3. CounterexampleIsLeast'
    BY <2>2 DEF CounterexampleIsLeast, CutExact
  <2> QED
    BY <1>1, <2>1, <2>3 DEF CutKnown
<1>5. ~Repairing /\ ~Asking
  BY DEF Asking, Questions, Repairing
<1>6. CASE Open
  <2>1. CASE Refusal # None
    <3>1. Refusal = "ERROR"
      BY <1>5, <2>1 DEF Refusal
    <3>2. answer'.status = Refusal /\ pass' = None /\ search' = search /\ cheated' = cheated
      BY <1>6, <2>1 DEF Open
    <3>3. CutExact(answer')
      BY <3>1, <3>2 DEF CutExact
    <3> QED
      BY <1>3, <1>4, <3>2, <3>3
  <2>2. CASE Refusal = None
    <3>1. Baseline(job.history)
      BY <2>2, NoneAssumption DEF Refusal
    <3>2. /\ search' = StartSearch(job.history, job.history.parents, 1)
          /\ pass' = "abstract" /\ answer' = None /\ cheated' = cheated
      BY <1>5, <1>6, <2>2 DEF Open, Begin
    <3>3. CutFound(search')
      BY <1>1, <3>1, <3>2, CutBegins DEF Begun
    <3> QED
      BY <1>3, <1>4, <3>1, <3>2, <3>3
  <2> QED
    BY <2>1, <2>2
<1>7. CASE Iterate
  <2>1. /\ pass # None /\ search.status = "SEARCHING" /\ pass' = pass /\ answer' = answer
        /\ CutFound(search) /\ Baseline(job.history) /\ answer = None /\ cheated' = FALSE
    BY <1>3, <1>5, <1>7 DEF Iterate
  <2>2. PICK e \in NextInQueue(search) :
           search' = Visit(search, e, Moves(e), Goal(e), Asking /\ Malformed(Where(e)), Limit, Strict)
    BY <1>7 DEF Iterate
  <2>3. PICK s : s = search
    OBVIOUS
  <2>4. Begun
    BY <1>1, <2>1 DEF Begun
  <2>5. e.state \in Cuts
    <3>1. HistoryGraph.states = Cuts
      BY DEF HistoryGraph
    <3>2. Sound(s, HistoryGraph) /\ e \in s.frontier
      BY <2>1, <2>3 DEF CutFound, NextInQueue
    <3> QED
      BY <3>1, <3>2 DEF Sound, Queued, Typed
  <2>6. Moves(e) = HistoryGraph.moves[e.state]
    <3>1. Moves(e) = {Cutting(t) : t \in Deletions(e.state, job.price)}
      BY DEF Moves, Cutting
    <3> QED
      BY <2>5, <3>1 DEF HistoryGraph
  <2>7. PICK out : out = Moves(e)
    OBVIOUS
  <2>8. PICK goal \in BOOLEAN : goal = Goal(e)
    <3>1. Goal(e) = IsCounterexample(e.state)
      BY DEF Goal
    <3> QED
      BY <3>1 DEF IsCounterexample
  <2>9. (Asking /\ Malformed(Where(e))) = FALSE /\ Strict = FALSE
    BY <1>5 DEF Strict
  <2>10. PICK limit : limit = Limit
    OBVIOUS
  <2>11. PICK r : r = Visit(s, e, out, goal, FALSE, limit, FALSE)
    OBVIOUS
  <2>12. search' = r
    BY <2>2, <2>3, <2>7, <2>8, <2>9, <2>10, <2>11
  <2>13. goal <=> IsCounterexample(e.state)
    BY <2>8 DEF Goal
  <2>14. CutFound(s) /\ s.status = "SEARCHING" /\ e \in NextInQueue(s)
    BY <2>1, <2>3
  <2>15. CutFound(r)
    BY <2>4, <2>6, <2>7, <2>11, <2>13, <2>14, CutTurns
  <2> QED
    BY <1>3, <1>4, <2>1, <2>12, <2>15
<1>8. CASE Refine
  BY <1>5, <1>8 DEF Refine, Spurious
<1>9. CASE Close
  <2>1. /\ pass # None /\ answer = None /\ search.status # "SEARCHING"
        /\ pass' = pass /\ search' = search /\ cheated' = FALSE
    BY <1>3, <1>9 DEF Close
  <2>2. CutFound(search) /\ Begun
    BY <1>1, <1>3, <2>1 DEF Begun
  <2>3. PICK st : st = search.status
    OBVIOUS
  <2>4. st \in {"UNREACHABLE", "REACHABLE", "LIMIT_REACHED", "ERROR"}
    BY <2>1, <2>2, <2>3 DEF CutFound
  <2>5. PICK o : o = Outcome(st)
    OBVIOUS
  <2>6. /\ o = "COUNTEREXAMPLE_FOUND" => st = "REACHABLE"
        /\ o = "EXHAUSTED_NO_COUNTEREXAMPLE" => st = "UNREACHABLE"
        /\ o # "BLOCKED"
    BY <1>3, <2>4, <2>5, CutOutcome
  <2>7. PICK a : a = answer'
    OBVIOUS
  <2>8. a.status = o /\ (st = "REACHABLE" => a.cost = search.found.cost /\ a.end = search.found.state)
    BY <1>5, <1>9, <2>3, <2>5, <2>6, <2>7 DEF Close
  <2>9. CASE o = "COUNTEREXAMPLE_FOUND"
    <3>1. PICK f : f = search.found
      OBVIOUS
    <3>2. /\ CutTrail(f) /\ IsCounterexample(f.state)
          /\ \A E \in SUBSET Deletable(job.history) : Counter(Cut(E)) => ~Cheaper(<<Price(E)>>, f.cost)
      BY <2>2, <2>3, <2>6, <2>9, <3>1 DEF CutFound
    <3>3. PICK E \in SUBSET Deletable(job.history) : f.state = Cut(E) /\ f.cost = <<Price(E)>>
      BY <3>2 DEF CutTrail
    <3>4. a.status = "COUNTEREXAMPLE_FOUND" /\ a.end = Cut(E) /\ a.cost = <<Price(E)>>
      BY <2>6, <2>8, <2>9, <3>1, <3>3
    <3>5. IsCounterexample(Cut(E))
      BY <3>2, <3>3
    <3>6. \A F \in SUBSET Deletable(job.history) : Counter(Cut(F)) => ~Cheaper(<<Price(F)>>, <<Price(E)>>)
      BY <3>2, <3>3
    <3>7. CutExact(a)
      BY <2>2, <3>4, <3>5, <3>6, CutAnswers
    <3> QED
      BY <1>3, <1>4, <2>1, <2>7, <3>7
  <2>10. CASE o # "COUNTEREXAMPLE_FOUND"
    <3>1. o = "EXHAUSTED_NO_COUNTEREXAMPLE" => \A E \in SUBSET Deletable(job.history) : ~Counter(Cut(E))
      BY <2>2, <2>3, <2>6 DEF CutFound
    <3>2. CutExact(a)
      BY <2>8, <2>10, <3>1 DEF CutExact, Counter, Cut
    <3> QED
      BY <1>3, <1>4, <2>1, <2>7, <3>2
  <2> QED
    BY <2>9, <2>10
<1>10. CASE UNCHANGED inquiryVars
  BY <1>3, <1>4, <1>10 DEF inquiryVars
<1> QED
  BY <1>6, <1>7, <1>8, <1>9, <1>10 DEF InquiryNext

\* A counterexample is least, whatever the history and the prices: it is what its deletions make
\* of the history, upstream could have built it, and no cheaper set of deletions makes one, in
\* whatever order; an exhausted search means that none does
\* (searchReachableCasperCounterexample 144-266).
THEOREM CounterexampleKept == InquirySpec => []CounterexampleIsLeast
<1>1. CutKnown => CounterexampleIsLeast
  BY DEF CutKnown
<1> QED
  BY <1>1, CutInit, CutNext, PTL DEF InquirySpec
==============================================================================
