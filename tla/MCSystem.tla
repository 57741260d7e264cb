------------------------------ MODULE MCSystem ------------------------------
EXTENDS System, TLC

\* Two intents of one channel on one symbol: i1 LIMIT, i2 MARKET; two legs.
CONSTANTS i1, i2, c1, r1, w1, btc, e1, e2
MCSymbolOf == [i \in Intents |-> btc]
NoMarket == {}
MCMarket == Intents \cap {i2}
MCKindOf == [a \in Actions |-> CASE a = c1 -> "CLOSE" [] a = r1 -> "REDUCE"
                                 [] a = w1 -> "CANCEL_ENTRIES"]
MCActSymbol == [a \in Actions |-> btc]
\* Without MARKET plans no leg is special, and no intent either.
Interchangeable == Permutations({i1, i2}) \cup Permutations({e1, e2})
\* One action is still to be decided, the others were skipped before, so that a
\* run covers the three kinds one at a time.
OneLeft ==
    /\ Untraded
    /\ \E a \in Actions : act = [b \in Actions |-> IF b = a THEN "PENDING" ELSE "SKIPPED"]
OneActionSpec == OneLeft /\ [][Next]_vars /\ WF_vars(HolderStep)
\* The process crashes while an intent is executed; OneActionSpec crashes anywhere.
OpeningCrash == task = "open" /\ Crash
TwoOpensSpec ==
    Init /\ [][Handler \/ Approver \/ Environment \/ OpeningCrash \/ Restart]_vars
MCSourceOf == [a \in Actions |-> Intents]
=============================================================================
