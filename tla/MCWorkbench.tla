----------------------------- MODULE MCWorkbench -----------------------------
(* The workbench, and beside it the exchange, whose demonstration it shows: *)
(* Bob and Alice trade in the two pools of seedWorld, with two transactions *)
(* of three legs in all.                                                    *)
EXTENDS WorkbenchReduction, TokenExchange

CONSTANTS bob, alice, t1, t2

VARIABLE subject     \* which of the two a behaviour is about

MCSeed ==
    LET none == [A |-> 0, B |-> 0] IN
       "ALICE-BOB" :> [rate |-> 500000, reserve |-> [A |-> 0, B |-> 500],
                       balances |-> (bob :> [A |-> 100, B |-> 0] @@ alice :> none),
                       links |-> {"toParis"}]
    @@ "BOB-GBP" :> [rate |-> 840000, reserve |-> [A |-> 0, B |-> 200],
                     balances |-> (bob :> none @@ alice :> none), links |-> {"toAlice"}]

\* A handshake of two channels, a continuation with a name of its own, two
\* receivers for one message, and a program that waits for itself.
MCPrograms ==
    LET x == Var("x") y == Var("y") z == Var("z")
        Ask == Par(<<Send(x, <<"go">>), For(y, <<"r">>, Nil)>>)
        Serve == For(x, <<"q">>, Send(y, <<"done">>))
    IN  {NewIn(<<"x", "y">>, Par(<<Ask, Serve>>)),
         NewIn(<<"x", "y">>, Par(<<Ask, Ask, Serve, Serve>>)),
         NewIn(<<"x">>, Par(<<Send(x, <<1>>),
                              For(x, <<"a">>, NewIn(<<"z">>, Par(<<Send(z, <<2>>), For(z, <<"b">>, Nil)>>)))>>)),
         NewIn(<<"x">>, Par(<<Send(x, <<1>>), For(x, <<"a">>, Nil), For(x, <<"b">>, Nil)>>)),
         NewIn(<<"x", "y">>, Par(<<Send(x, <<1>>), For(y, <<"a">>, Send(x, <<2>>)), For(z, <<"c">>, Nil)>>))}

\* The two transactions are alike.
MCSymmetry == Permutations({t1, t2})

MCInit == WorkbenchInit /\ ExchangeInit /\ subject \in {"workbench", "exchange"}

MCNext ==
    /\ UNCHANGED subject
    /\ \/ subject = "workbench" /\ WorkbenchNext /\ UNCHANGED exchangeVars
       \/ subject = "exchange" /\ ExchangeNext /\ UNCHANGED workbenchVars

MCSpec == MCInit /\ [][MCNext]_<<workbenchVars, exchangeVars, subject>>
=============================================================================
