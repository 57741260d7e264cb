------------------------------ MODULE Custody ------------------------------
(***************************************************************************)
(* What the trading core promises about the one net account it shares with *)
(* people and with itself: strategies take turns on a symbol.  A strategy  *)
(* enters only a symbol it owns and nobody else is exposed on, enters each *)
(* leg at most once, and gives its row up only when none of its entries    *)
(* rests, unless a person takes over.  No handler, lock, request, read or  *)
(* restart is mentioned here.                                              *)
(***************************************************************************)
CONSTANTS
    Strategies, Symbols, Legs,
    SymbolOf     \* [Strategies -> Symbols]
VARIABLES
    custody,     \* strategy -> "none", "owner", "person" or "closed"
    used,        \* lots that were ever submitted
    resting,     \* lots whose entry order is live
    holding      \* lots in the net position

cvars == <<custody, used, resting, holding>>

Lots == Strategies \X Legs
LotsOf(i) == {i} \X Legs
\* What other strategies have, or may get, on the symbol of i.
Rivals(i) == {x \in resting \cup holding :
                x[1] # i /\ SymbolOf[x[1]] = SymbolOf[i]}

Init ==
    /\ custody = [i \in Strategies |-> "none"]
    /\ used = {} /\ resting = {} /\ holding = {}

Own(i) ==
    /\ custody[i] = "none"
    /\ \A j \in Strategies : SymbolOf[j] = SymbolOf[i] => custody[j] # "owner"
    /\ custody' = [custody EXCEPT ![i] = "owner"]
    /\ UNCHANGED <<used, resting, holding>>
Enter(i, L) ==
    /\ custody[i] = "owner"
    /\ L # {} /\ L \cap used = {} /\ Rivals(i) = {}
    /\ used' = used \cup L
    /\ resting' = resting \cup L
    /\ UNCHANGED <<custody, holding>>
Fill(x) ==
    /\ x \in resting
    /\ resting' = resting \ {x}
    /\ holding' = holding \cup {x}
    /\ UNCHANGED <<custody, used>>
Lapse(x) ==
    /\ x \in resting
    /\ resting' = resting \ {x}
    /\ UNCHANGED <<custody, used, holding>>
\* An exit, a stop, a CLOSE or a REDUCE.
Leave(R) ==
    /\ R # {} /\ R \subseteq holding
    /\ holding' = holding \ R
    /\ UNCHANGED <<custody, used, resting>>
HandOver(i) ==
    /\ custody[i] = "owner"
    /\ custody' = [custody EXCEPT ![i] = "person"]
    /\ UNCHANGED <<used, resting, holding>>
Close(I) ==
    /\ I # {}
    /\ \A i \in I : custody[i] \in {"owner", "person"} /\ LotsOf(i) \cap resting = {}
    /\ custody' = [i \in Strategies |-> IF i \in I THEN "closed" ELSE custody[i]]
    /\ UNCHANGED <<used, resting, holding>>

Next ==
    \/ \E i \in Strategies : Own(i) \/ HandOver(i) \/ \E L \in SUBSET LotsOf(i) : Enter(i, L)
    \/ \E x \in Lots : Fill(x) \/ Lapse(x)
    \/ \E R \in SUBSET Lots : Leave(R)
    \/ \E I \in SUBSET Strategies : Close(I)

Spec == Init /\ [][Next]_cvars
=============================================================================
