------------------------------- MODULE MCRelay ------------------------------
(***************************************************************************)
(* Small relays: two requests on one payment or one transaction, two        *)
(* payments for one order, and requests that come one by one.               *)
(***************************************************************************)
EXTENDS PaymentRelay, TLC

T == INSTANCE TransactionRelay

\* Requests are interchangeable.
Requests == Permutations(Worker)

One == CHOOSE k \in Key : TRUE

AnyWeather == {"land", "fork", "drop", "finalize", "expire"}

\* Two requests at a time.
Two(kind, k, delegated, more, weather) ==
    [kind |-> kind, keys |-> {k}, connected |-> {}, delegated |-> delegated, ordered |-> {},
     alone |-> FALSE, route |-> {"submit", "read", "cancel"} \cup more, weather |-> weather]

OneByOne(kind, k, connected, more) ==
    [kind |-> kind, keys |-> {k}, connected |-> connected, delegated |-> {}, ordered |-> {},
     alone |-> TRUE, route |-> {"submit", "recover", "resubmit", "read", "cancel"} \cup more,
     weather |-> AnyWeather]

OneOrder ==
    [kind |-> "payment", keys |-> Key, connected |-> Key, delegated |-> Key, ordered |-> Key,
     alone |-> FALSE, route |-> {"submit"}, weather |-> {}]

Scenes == {Two("payment", One, {}, {}, {"land", "fork", "finalize"}),
           Two("payment", One, {One}, {"resubmit"}, {"land", "finalize"}),
           OneByOne("payment", One, {One}, {"proof"}), OneOrder,
           Two("transaction", One, {}, {}, {"land", "finalize"}),
           OneByOne("transaction", One, {}, {})}

RelayNext ==
    \/ scene.kind = "payment" /\ Next
    \/ scene.kind = "transaction" /\ T!Next /\ UNCHANGED order

RelaySpec == Init /\ [][RelayNext]_pvars
=============================================================================
