-------------------------- MODULE ZoneLedgerProofs --------------------------
(***************************************************************************)
(* The judgement of stop coverage is sound for any number of zones, any    *)
(* quantities and any number of changes between the two requests of a      *)
(* reading and the ledger's transaction.                                   *)
(*                                                                         *)
(* No sum over zones is needed: the comparison of the position's size with *)
(* the ledger plays no part.  What decides is that each order is either    *)
(* in the reading, where its executions must equal the recorded ones, or   *)
(* had ended, so that it has no executions after the reading, or did not   *)
(* exist yet, which for a child means that its entry had not filled.       *)
(*                                                                         *)
(* The second half is about the query lanes that fill the ledger: a window *)
(* is reported as consumed only when everything in it is recorded.         *)
(***************************************************************************)
EXTENDS MCZones, FiniteSetTheorems, WellFoundedInduction, TLAPS

Statuses == {"none", "New", "Filled", "Cancelled"}
Triggers == {"planned", "moved"}
OrderRecords == [status : Statuses, qty : Nat, exec : Nat, trigger : Triggers]

\* An order executes no more than its quantity, and an entry's children exist
\* from its first fill on.
OrderInv ==
    /\ order \in [Ids -> OrderRecords]
    /\ \A i \in Ids : order[i].exec <= order[i].qty
    /\ \A i \in Ids : Live(i) => order[i].exec < order[i].qty
    /\ \A i \in Ids : order[i].status = "none" => order[i].exec = 0
    /\ \A z \in Zones : order[<<z, "E">>].status # "none"
    /\ \A z \in Zones, r \in Native :
          order[<<z, r>>].status = "none" /\ r \in Has[z] => order[<<z, "E">>].exec = 0
    /\ \A z \in Zones, r \in Native : r \notin Has[z] => order[<<z, r>>].status = "none"

\* What the ledger holds belongs to registered zones and to bound orders.
LedgerInv ==
    /\ DOMAIN frozen \subseteq Zones
    /\ DOMAIN binding \subseteq Ids
    /\ \A i \in DOMAIN binding : i[1] \in DOMAIN frozen /\ binding[i] \in Nat
    /\ recorded \in [Ids -> Nat]
    /\ \A i \in Ids : recorded[i] > 0 => i \in DOMAIN binding
    /\ ChildrenHaveParents

RecordedInv == \A i \in Ids : recorded[i] <= order[i].exec

\* An order that is not in the reading had ended or did not exist yet.
Unlisted(i) ==
    \/ Ended(i) /\ order[i].exec = account.exec[i]
    \/ /\ i[2] # "E" /\ account.exec[i] = 0
       /\ i[2] \in Native \cap Has[i[1]] => account.exec[<<i[1], "E">>] = 0
ReadingInv ==
    Whole =>
        /\ account.exec \in [Ids -> Nat]
        /\ DOMAIN account.open \subseteq Ids
        /\ \A i \in DOMAIN account.open :
              account.open[i] \in OrderRecords /\ account.open[i].exec = account.exec[i]
        /\ \A z \in Zones : account.held[z] = account.exec[<<z, "E">>]
              - (account.exec[<<z, "S">>] + account.exec[<<z, "T">>] + account.exec[<<z, "U">>])
        /\ \A i \in Ids \ DOMAIN account.open : Unlisted(i)

\* The inductive invariant.
ZoneInv == OrderInv /\ LedgerInv /\ RecordedInv /\ ReadingInv

\* What a change on the exchange may do to an order.
OnlyForward ==
    \A i \in Ids : /\ order'[i].exec >= order[i].exec
                   /\ Ended(i) => Ended(i)' /\ order'[i].exec = order[i].exec

LEMMA PairOfId ==
    /\ \A i \in Ids : i = <<i[1], i[2]>> /\ i[1] \in Zones /\ i[2] \in Roles
    /\ \A z \in Zones, r \in Roles : <<z, r>> \in Ids
  BY DEF Ids

\* An order after one more lot.
LEMMA OneLotMore ==
  ASSUME NEW i \in Ids, order[i] \in OrderRecords, Live(i), order[i].exec < order[i].qty
  PROVE  /\ FillLot(i) \in OrderRecords
         /\ FillLot(i).exec = order[i].exec + 1 /\ FillLot(i).qty = order[i].qty
         /\ FillLot(i).status = (IF order[i].exec + 1 = order[i].qty THEN "Filled" ELSE "New")
<1> DEFINE o == order[i]
           s == IF Rest(o) = 1 THEN "Filled" ELSE o.status
<1>1. o \in OrderRecords /\ o.qty \in Nat /\ o.exec \in Nat /\ o.status = "New"
  BY DEF OrderRecords, Live
<1>2. s \in Statuses /\ s = IF o.exec + 1 = o.qty THEN "Filled" ELSE "New"
  BY <1>1 DEF Rest, Statuses
<1>3. FillLot(i) = [o EXCEPT !.exec = o.exec + 1, !.status = s]
  BY DEF FillLot
<1>4. o.exec + 1 \in Nat
  BY <1>1
<1> HIDE DEF o, s
<1>5. FillLot(i) = [status |-> s, qty |-> o.qty, exec |-> o.exec + 1, trigger |-> o.trigger]
  BY <1>1, <1>3 DEF OrderRecords
<1>6. o.trigger \in Triggers
  BY <1>1 DEF OrderRecords
<1> QED
  BY <1>1, <1>2, <1>4, <1>5, <1>6 DEF OrderRecords, o

-----------------------------------------------------------------------------
(***************************************************************************)
(* The exchange.                                                           *)
(***************************************************************************)
LEMMA EntryFillMoves ==
  ASSUME OrderInv, NEW z \in Zones, EntryFills(z) PROVE OrderInv' /\ OnlyForward
<1> DEFINE e == <<z, "E">>
<1>1. e \in Ids /\ order[e] \in OrderRecords /\ Live(e) /\ order[e].exec < order[e].qty
  BY PairOfId DEF OrderInv, EntryFills, Roles
<1>2. \A i \in Ids : order[i] \in OrderRecords
  BY DEF OrderInv
<1>3. /\ order'[e] = FillLot(e)
      /\ order'[e] \in OrderRecords /\ order'[e].exec = order[e].exec + 1 /\ order'[e].qty = order[e].qty
      /\ order'[e].status = (IF order[e].exec + 1 = order[e].qty THEN "Filled" ELSE "New")
  <2>1. order'[e] = FillLot(e)
    BY <1>1 DEF EntryFills
  <2> QED
    BY <1>1, <2>1, OneLotMore
<1>4. \A i \in Ids \ {e} :
        /\ order'[i] \in OrderRecords /\ order'[i].exec = order[i].exec
        /\ \/ order'[i] = order[i] /\ ~(i[1] = z /\ i[2] \in Native \cap Has[z] /\ ~Ended(i))
           \/ /\ i[1] = z /\ i[2] \in Native \cap Has[z] /\ ~Ended(i)
              /\ order'[i].status = "New" /\ order'[i].qty = order[i].qty + 1
  <2> SUFFICES ASSUME NEW i \in Ids \ {e}
               PROVE  /\ order'[i] \in OrderRecords /\ order'[i].exec = order[i].exec
                      /\ \/ order'[i] = order[i] /\ ~(i[1] = z /\ i[2] \in Native \cap Has[z] /\ ~Ended(i))
                         \/ /\ i[1] = z /\ i[2] \in Native \cap Has[z] /\ ~Ended(i)
                            /\ order'[i].status = "New" /\ order'[i].qty = order[i].qty + 1
    OBVIOUS
  <2>1. order[i] \in OrderRecords
    BY <1>2
  <2>2. order'[i] = IF i[1] = z /\ i[2] \in Native \cap Has[z] /\ ~Ended(i)
                    THEN [order[i] EXCEPT !.status = "New", !.qty = @ + 1] ELSE order[i]
    BY DEF EntryFills
  <2>3. CASE i[1] = z /\ i[2] \in Native \cap Has[z] /\ ~Ended(i)
    <3>1. order'[i] = [order[i] EXCEPT !.status = "New", !.qty = @ + 1]
      BY <2>2, <2>3
    <3>2. order'[i] = [status |-> "New", qty |-> order[i].qty + 1, exec |-> order[i].exec,
                       trigger |-> order[i].trigger]
      BY <2>1, <3>1 DEF OrderRecords
    <3> QED
      BY <2>1, <2>3, <3>2 DEF OrderRecords, Statuses
  <2> QED
    BY <2>1, <2>2, <2>3
<1>5. DOMAIN order' = Ids /\ order' = [i \in Ids |-> order'[i]]
  BY DEF EntryFills
<1>6. order' \in [Ids -> OrderRecords]
  BY <1>3, <1>4, <1>5
<1>7. \A i \in Ids : order'[i].exec <= order'[i].qty /\ (order'[i].status = "New" => order'[i].exec < order'[i].qty)
  BY <1>1, <1>2, <1>3, <1>4 DEF OrderInv, OrderRecords, Live
<1>8. \A i \in Ids : order'[i].status = "none" => order'[i] = order[i] /\ i # e
  BY <1>1, <1>3, <1>4
<1>9. \A x \in Zones : order'[<<x, "E">>].status # "none"
  BY <1>8, PairOfId DEF OrderInv, Roles
<1>10. \A x \in Zones, r \in Native :
          order'[<<x, r>>].status = "none" /\ r \in Has[x] => order'[<<x, "E">>].exec = 0
  <2> SUFFICES ASSUME NEW x \in Zones, NEW r \in Native, order'[<<x, r>>].status = "none", r \in Has[x]
               PROVE  order'[<<x, "E">>].exec = 0
    OBVIOUS
  <2>1. <<x, r>> \in Ids \ {e} /\ <<x, "E">> \in Ids
    BY PairOfId DEF Native, Roles
  <2>2. order'[<<x, r>>] = order[<<x, r>>] /\ ~Ended(<<x, r>>) /\ order[<<x, "E">>].exec = 0
    BY <1>8, <2>1 DEF OrderInv, Ended
  <2>3. x # z
    BY <1>4, <2>1, <2>2
  <2> QED
    BY <1>4, <2>1, <2>2, <2>3
<1>11. \A x \in Zones, r \in Native : r \notin Has[x] => order'[<<x, r>>].status = "none"
  <2> SUFFICES ASSUME NEW x \in Zones, NEW r \in Native, r \notin Has[x]
               PROVE  order'[<<x, r>>].status = "none"
    OBVIOUS
  <2>1. <<x, r>> \in Ids \ {e}
    BY PairOfId DEF Native, Roles
  <2> QED
    BY <1>4, <2>1 DEF OrderInv
<1>12. OnlyForward
  BY <1>1, <1>2, <1>3, <1>4 DEF OnlyForward, Ended, Live, OrderRecords
<1> QED
  BY <1>6, <1>7, <1>8, <1>9, <1>10, <1>11, <1>12 DEF OrderInv, Live

\* The other changes touch one order: it executes a lot, or it ends, or it is
\* placed, or its trigger moves.
LEMMA OneOrderMoves ==
  ASSUME OrderInv, NEW i \in Ids, NEW o \in OrderRecords,
         order' = [order EXCEPT ![i] = o],
         ~Ended(i), o.exec >= order[i].exec, o.exec <= o.qty, o.status # "none",
         o.status = "New" => o.exec < o.qty,
         i[2] = "E" => o.exec = order[i].exec,
         i[2] \in Native => order[i].status # "none"
  PROVE  OrderInv' /\ OnlyForward
<1>1. order' \in [Ids -> OrderRecords] /\ order'[i] = o /\ \A j \in Ids \ {i} : order'[j] = order[j]
  BY DEF OrderInv
<1>2. \A j \in Ids : order'[j].exec <= order'[j].qty /\ (order'[j].status = "New" => order'[j].exec < order'[j].qty)
                     /\ (order'[j].status = "none" => order'[j].exec = 0)
  BY <1>1 DEF OrderInv, Live
<1>3. \A x \in Zones : /\ <<x, "E">> \in Ids
                       /\ order'[<<x, "E">>].status # "none"
                       /\ order'[<<x, "E">>].exec = order[<<x, "E">>].exec
  BY <1>1, PairOfId DEF OrderInv, Roles
<1>4. \A x \in Zones, r \in Native :
          /\ order'[<<x, r>>].status = "none" /\ r \in Has[x] => order'[<<x, "E">>].exec = 0
          /\ r \notin Has[x] => order'[<<x, r>>].status = "none"
  <2> SUFFICES ASSUME NEW x \in Zones, NEW r \in Native
               PROVE  /\ order'[<<x, r>>].status = "none" /\ r \in Has[x] => order'[<<x, "E">>].exec = 0
                      /\ r \notin Has[x] => order'[<<x, r>>].status = "none"
    OBVIOUS
  <2>1. <<x, r>> \in Ids
    BY PairOfId DEF Native, Roles
  <2>2. r \notin Has[x] => <<x, r>> # i
    BY DEF OrderInv
  <2> QED
    BY <1>1, <1>3, <2>1, <2>2 DEF OrderInv
<1>5. OnlyForward
  BY <1>1 DEF OnlyForward, Ended, OrderInv, OrderRecords
<1> QED
  BY <1>1, <1>2, <1>3, <1>4, <1>5 DEF OrderInv, Live

LEMMA ExchangeMoves ==
  ASSUME OrderInv, NEW z \in Zones, NEW r \in Native, NEW i \in Ids,
         \/ EntryFills(z) \/ EntryCancelled(z) \/ PlaceReduction(z) \/ MovedByHand(z)
         \/ PeerDeactivated(z, r) \/ Reduces(i)
  PROVE  OrderInv' /\ OnlyForward
<1> USE PairOfId
<1>0. \A j \in Ids : order[j] \in OrderRecords
  BY DEF OrderInv
<1>1. CASE EntryFills(z)
  BY <1>1, EntryFillMoves
<1>2. CASE EntryCancelled(z)
  <2> DEFINE e == <<z, "E">>  o == [order[e] EXCEPT !.status = "Cancelled"]
  <2>1. e \in Ids /\ e[2] = "E" /\ order[e] \in OrderRecords /\ order[e].exec <= order[e].qty
    BY <1>0 DEF Roles, OrderInv
  <2>2. o \in OrderRecords /\ o.exec = order[e].exec /\ o.qty = order[e].qty /\ o.status = "Cancelled"
    BY <2>1 DEF OrderRecords, Statuses
  <2>3. order' = [order EXCEPT ![e] = o] /\ ~Ended(e)
    BY <1>2 DEF EntryCancelled, Live, Ended
  <2>4. o.exec >= order[e].exec /\ o.exec <= o.qty /\ e[2] \notin Native
    BY <2>1, <2>2 DEF OrderRecords, Native
  <2> HIDE DEF e, o
  <2> QED
    BY <2>1, <2>2, <2>3, <2>4, OneOrderMoves
<1>3. CASE PlaceReduction(z)
  <2> DEFINE u == <<z, "U">>  o == [Absent EXCEPT !.status = "New", !.qty = 1]
  <2>1. u \in Ids /\ u[2] = "U" /\ order[u] \in OrderRecords /\ order[u].status = "none" /\ order[u].exec = 0
    BY <1>0, <1>3 DEF Roles, OrderInv, PlaceReduction
  <2>2. o \in OrderRecords /\ o.exec = 0 /\ o.qty = 1 /\ o.status = "New"
    BY DEF OrderRecords, Statuses, Triggers, Absent
  <2>3. order' = [order EXCEPT ![u] = o] /\ ~Ended(u)
    BY <1>3, <2>1 DEF PlaceReduction, Ended
  <2>4. o.exec >= order[u].exec /\ o.exec < o.qty /\ o.exec <= o.qty /\ u[2] \notin Native
    BY <2>1, <2>2 DEF Native
  <2> HIDE DEF u, o
  <2> QED
    BY <2>1, <2>2, <2>3, <2>4, OneOrderMoves
<1>4. CASE MovedByHand(z)
  <2>1. CASE order' = order
    BY <2>1, <1>0 DEF OrderInv, OnlyForward, Live, Ended, OrderRecords
  <2>2. CASE Live(<<z, "S">>) /\ order' = [order EXCEPT ![<<z, "S">>].trigger = "moved"]
    <3> DEFINE s == <<z, "S">>  o == [order[s] EXCEPT !.trigger = "moved"]
    <3>1. s \in Ids /\ s[2] = "S" /\ order[s] \in OrderRecords /\ order[s].status = "New"
          /\ order[s].exec < order[s].qty
      BY <1>0, <2>2 DEF Roles, OrderInv, Live
    <3>2. o \in OrderRecords /\ o.exec = order[s].exec /\ o.qty = order[s].qty /\ o.status = "New"
      BY <3>1 DEF OrderRecords, Triggers
    <3>3. order' = [order EXCEPT ![s] = o] /\ ~Ended(s)
      BY <2>2 DEF Live, Ended
    <3>4. o.exec >= order[s].exec /\ o.exec < o.qty /\ o.exec <= o.qty
      BY <3>1, <3>2 DEF OrderRecords
    <3> HIDE DEF s, o
    <3> QED
      BY <3>1, <3>2, <3>3, <3>4, OneOrderMoves
  <2> QED
    BY <1>4, <2>1, <2>2 DEF MovedByHand
<1>5. CASE PeerDeactivated(z, r)
  <2> DEFINE p == <<z, r>>  o == [order[p] EXCEPT !.status = "Cancelled"]
  <2>1. p \in Ids /\ p[2] = r /\ r # "E" /\ order[p] \in OrderRecords /\ order[p].exec <= order[p].qty
        /\ order[p].status = "New"
    BY <1>0, <1>5 DEF Roles, OrderInv, Native, PeerDeactivated, Live
  <2>2. o \in OrderRecords /\ o.exec = order[p].exec /\ o.qty = order[p].qty /\ o.status = "Cancelled"
    BY <2>1 DEF OrderRecords, Statuses
  <2>3. order' = [order EXCEPT ![p] = o] /\ ~Ended(p)
    BY <1>5, <2>1 DEF PeerDeactivated, Ended
  <2>4. o.exec >= order[p].exec /\ o.exec <= o.qty
    BY <2>1, <2>2 DEF OrderRecords
  <2> HIDE DEF p, o
  <2> QED
    BY <2>1, <2>2, <2>3, <2>4, OneOrderMoves
<1>6. CASE Reduces(i)
  <2>1. i[2] # "E" /\ order[i] \in OrderRecords /\ order[i].exec < order[i].qty /\ order[i].status = "New"
    BY <1>0, <1>6 DEF OrderInv, Reduces, Live
  <2>2. /\ FillLot(i) \in OrderRecords /\ FillLot(i).exec = order[i].exec + 1 /\ FillLot(i).qty = order[i].qty
        /\ FillLot(i).status = (IF order[i].exec + 1 = order[i].qty THEN "Filled" ELSE "New")
    BY <2>1, OneLotMore DEF Live
  <2>3. order' = [order EXCEPT ![i] = FillLot(i)] /\ ~Ended(i)
    BY <1>6, <2>1 DEF Reduces, Ended
  <2>4. FillLot(i).exec >= order[i].exec /\ FillLot(i).exec <= FillLot(i).qty /\ FillLot(i).status # "none"
        /\ (FillLot(i).status = "New" => FillLot(i).exec < FillLot(i).qty)
    BY <2>1, <2>2 DEF OrderRecords
  <2> QED
    BY <2>1, <2>2, <2>3, <2>4, OneOrderMoves
<1> QED
  BY <1>1, <1>2, <1>3, <1>4, <1>5, <1>6

\* The last reading stays what it says while orders move forward.
LEMMA ReadingStands ==
  ASSUME OrderInv, ReadingInv, OnlyForward, UNCHANGED account
  PROVE  ReadingInv'
<1> SUFFICES ASSUME Whole PROVE ReadingInv'
  BY DEF ReadingInv, Whole
<1>1. \A i \in Ids \ DOMAIN account.open : Unlisted(i)'
  BY DEF ReadingInv, Unlisted, OnlyForward, Ended
<1> QED
  BY <1>1 DEF ReadingInv, Whole

LEMMA ReadingIsTaken ==
  ASSUME OrderInv, ReadOrders PROVE ReadingInv'
<1> USE PairOfId
<1>1. /\ account'.open = [i \in {x \in Ids : Live(x)} |-> order[i]]
      /\ account'.exec = [i \in Ids |-> order[i].exec]
      /\ account'.held = [z \in Zones |-> Allocated(z)]
      /\ order' = order
  BY DEF ReadOrders, exchange
<1>2. \A i \in Ids : order[i] \in OrderRecords /\ order[i].exec \in Nat
  BY DEF OrderInv, OrderRecords
<1>3. account'.exec \in [Ids -> Nat] /\ \A i \in Ids : account'.exec[i] = order[i].exec
  BY <1>1, <1>2
<1>4. DOMAIN account'.open = {x \in Ids : Live(x)} /\ \A i \in DOMAIN account'.open : account'.open[i] = order[i]
  BY <1>1
<1>5. \A z \in Zones : account'.held[z] = account'.exec[<<z, "E">>]
              - (account'.exec[<<z, "S">>] + account'.exec[<<z, "T">>] + account'.exec[<<z, "U">>])
  BY <1>1, <1>3 DEF Allocated, Roles
<1>6. ASSUME NEW i \in Ids, ~Live(i) PROVE Unlisted(i)'
  <2>1. CASE Ended(i)
    BY <2>1, <1>1, <1>3 DEF Unlisted, Ended
  <2>2. CASE order[i].status = "none"
    <3>1. i[2] # "E" /\ account'.exec[i] = 0
      BY <2>2, <1>3 DEF OrderInv
    <3>2. i[2] \in Native \cap Has[i[1]] => account'.exec[<<i[1], "E">>] = 0
      BY <2>2, <1>3 DEF OrderInv, Roles
    <3> QED
      BY <3>1, <3>2 DEF Unlisted
  <2> QED
    BY <1>2, <1>6, <2>1, <2>2 DEF OrderRecords, Statuses, Ended, Live
<1> QED
  BY <1>2, <1>3, <1>4, <1>5, <1>6 DEF ReadingInv

-----------------------------------------------------------------------------
LEMMA ZoneInit == Init => ZoneInv
<1> SUFFICES ASSUME Init PROVE ZoneInv
  OBVIOUS
<1> USE PairOfId
<1>1. \A i \in Ids : /\ order[i] \in OrderRecords /\ order[i].exec = 0
                     /\ i[2] = "E" => order[i].status = "New" /\ order[i].qty > 0
                     /\ i[2] # "E" => order[i].status = "none" /\ order[i].qty = 0
  <2> SUFFICES ASSUME NEW i \in Ids
               PROVE  /\ order[i] \in OrderRecords /\ order[i].exec = 0
                      /\ i[2] = "E" => order[i].status = "New" /\ order[i].qty > 0
                      /\ i[2] # "E" => order[i].status = "none" /\ order[i].qty = 0
    OBVIOUS
  <2>1. order[i] = IF i[2] = "E" THEN [Absent EXCEPT !.status = "New", !.qty = Qty[i[1]]] ELSE Absent
    BY DEF Init
  <2>2. Qty[i[1]] \in Nat \ {0}
    BY ZoneConstants
  <2>3. Absent \in OrderRecords /\ Absent.exec = 0 /\ Absent.qty = 0 /\ Absent.status = "none"
    BY DEF OrderRecords, Statuses, Triggers, Absent
  <2>4. CASE i[2] = "E"
    <3>1. order[i] = [status |-> "New", qty |-> Qty[i[1]], exec |-> 0, trigger |-> "planned"]
      BY <2>1, <2>4 DEF Absent
    <3> QED
      BY <2>2, <2>4, <3>1 DEF OrderRecords, Statuses, Triggers
  <2> QED
    BY <2>1, <2>3, <2>4
<1>2. order \in [Ids -> OrderRecords]
  BY <1>1 DEF Init
<1>3. OrderInv
  <2>1. \A z \in Zones, r \in Roles : <<z, r>> \in Ids /\ <<z, r>>[2] = r
    OBVIOUS
  <2>2. \A z \in Zones : order[<<z, "E">>].exec = 0 /\ order[<<z, "E">>].status = "New"
    BY <1>1, <2>1 DEF Roles
  <2>3. \A z \in Zones, r \in Native : order[<<z, r>>].status = "none"
    BY <1>1, <2>1 DEF Roles, Native
  <2>4. \A i \in Ids : /\ order[i].exec <= order[i].qty
                       /\ order[i].status = "New" => order[i].exec < order[i].qty
    BY <1>1 DEF OrderRecords
  <2> QED
    BY <1>1, <1>2, <2>2, <2>3, <2>4 DEF OrderInv, Live
<1>4. DOMAIN frozen = {} /\ DOMAIN binding = {}
  <2>1. frozen = <<>> /\ binding = <<>>
    BY Zenon DEF Init
  <2>2. DOMAIN <<>> = {}
    OBVIOUS
  <2> QED
    BY <2>1, <2>2
<1>5. LedgerInv
  <2>1. recorded = [i \in Ids |-> 0]
    BY Zenon DEF Init
  <2> QED
    BY <1>4, <2>1 DEF LedgerInv, ChildrenHaveParents
<1>6. RecordedInv
  <2>1. recorded = [i \in Ids |-> 0]
    BY Zenon DEF Init
  <2> QED
    BY <1>1, <2>1 DEF RecordedInv
<1>7. ReadingInv
  BY DEF ReadingInv, Whole, Init
<1> QED
  BY <1>3, <1>5, <1>6, <1>7 DEF ZoneInv

LEMMA RegisterKeeps ==
  ASSUME LedgerInv, NEW z \in Zones, Register(z) PROVE LedgerInv'
<1>1. DOMAIN frozen' = DOMAIN frozen \cup {z}
  BY DEF Register, Frozen
<1> QED
  BY <1>1 DEF LedgerInv, Register, exchange, ChildrenHaveParents

LEMMA BindKeeps ==
  ASSUME OrderInv, LedgerInv, NEW i \in Ids, Bind(i) PROVE LedgerInv'
<1>1. DOMAIN binding' = DOMAIN binding \cup {i} /\ binding'[i] = order[i].qty
      /\ \A x \in DOMAIN binding : binding'[x] = binding[x]
  BY DEF Bind
<1>2. order[i].qty \in Nat /\ i[1] \in DOMAIN frozen
  BY DEF OrderInv, OrderRecords, Bind, HasZone
<1>3. i[2] \in Native => <<i[1], "E">> \in DOMAIN binding
  BY DEF Bind, HasParent
<1> QED
  BY <1>1, <1>2, <1>3 DEF LedgerInv, Bind, ChildrenHaveParents

LEMMA RecordKeeps ==
  ASSUME OrderInv, LedgerInv, RecordedInv, NEW i \in Ids, Record(i)
  PROVE  LedgerInv' /\ RecordedInv'
<1>1. recorded' = [recorded EXCEPT ![i] = @ + 1] /\ i \in DOMAIN binding /\ recorded[i] < order[i].exec
      /\ UNCHANGED <<frozen, binding, order>>
  BY DEF Record, exchange
<1>2. \A j \in Ids : recorded[j] \in Nat /\ order[j].exec \in Nat
  BY DEF LedgerInv, OrderInv, OrderRecords
<1> QED
  BY <1>1, <1>2 DEF LedgerInv, RecordedInv, ChildrenHaveParents

LEMMA ExchangeKeeps ==
  ASSUME ZoneInv, NEW z \in Zones, NEW r \in Native, NEW i \in Ids,
         \/ EntryFills(z) \/ EntryCancelled(z) \/ PlaceReduction(z) \/ MovedByHand(z)
         \/ PeerDeactivated(z, r) \/ Reduces(i)
  PROVE  ZoneInv'
<1>1. OrderInv' /\ OnlyForward
  BY ExchangeMoves DEF ZoneInv
<1>2. UNCHANGED <<ledger, account>>
  BY DEF EntryFills, EntryCancelled, PlaceReduction, MovedByHand, PeerDeactivated, Reduces
<1>3. ReadingInv'
  BY <1>1, <1>2, ReadingStands DEF ZoneInv
<1>4. \A j \in Ids : recorded[j] \in Nat /\ order[j].exec \in Nat /\ order'[j].exec \in Nat
  BY <1>1 DEF ZoneInv, LedgerInv, OrderInv, OrderRecords
<1> QED
  BY <1>1, <1>2, <1>3, <1>4 DEF ZoneInv, OnlyForward, ledger, LedgerInv, RecordedInv, ChildrenHaveParents

LEMMA ZoneNext == ZoneInv /\ [Next]_vars => ZoneInv'
<1> SUFFICES ASSUME ZoneInv, [Next]_vars PROVE ZoneInv'
  OBVIOUS
<1>0. ASSUME UNCHANGED <<order, account>> PROVE OrderInv' /\ ReadingInv'
  BY <1>0 DEF ZoneInv, OrderInv, ReadingInv, Live, Ended, Unlisted, Whole
<1>1. ASSUME UNCHANGED <<frozen, binding, recorded>> PROVE LedgerInv'
  BY <1>1 DEF ZoneInv, LedgerInv, ChildrenHaveParents
<1>2. ASSUME UNCHANGED <<recorded, order>> PROVE RecordedInv'
  BY <1>2 DEF ZoneInv, RecordedInv
<1>3. ASSUME NEW z \in Zones, Register(z) PROVE ZoneInv'
  BY <1>0, <1>2, <1>3, RegisterKeeps DEF ZoneInv, Register, exchange
<1>4. ASSUME NEW z \in Zones, PlanChanges(z) PROVE ZoneInv'
  BY <1>0, <1>1, <1>2, <1>4 DEF ZoneInv, PlanChanges, ledger, exchange
<1>5. ASSUME NEW i \in Ids, Bind(i) PROVE ZoneInv'
  BY <1>0, <1>2, <1>5, BindKeeps DEF ZoneInv, Bind, exchange
<1>6. ASSUME NEW i \in Ids, Record(i) PROVE ZoneInv'
  BY <1>0, <1>6, RecordKeeps DEF ZoneInv, Record, exchange
<1>7. ASSUME NEW z \in Zones, \/ EntryFills(z) \/ EntryCancelled(z) \/ PlaceReduction(z) \/ MovedByHand(z)
      PROVE  ZoneInv'
  <2>1. "S" \in Native /\ <<z, "S">> \in Ids
    BY PairOfId DEF Native, Roles
  <2> QED
    BY <1>7, <2>1, ExchangeKeeps
<1>8. ASSUME NEW z \in Zones, NEW r \in Native, PeerDeactivated(z, r) PROVE ZoneInv'
  <2>1. <<z, "S">> \in Ids
    BY PairOfId DEF Roles
  <2> QED
    BY <1>8, <2>1, ExchangeKeeps
<1>9. ASSUME NEW i \in Ids, Reduces(i) PROVE ZoneInv'
  <2>1. "S" \in Native /\ i[1] \in Zones
    BY PairOfId DEF Native
  <2> QED
    BY <1>9, <2>1, ExchangeKeeps
<1>10. ASSUME ReadPositions PROVE ZoneInv'
  <2>1. ~Whole' /\ UNCHANGED <<order, ledger>>
    BY <1>10 DEF ReadPositions, Whole, exchange
  <2>2. OrderInv'
    BY <2>1 DEF ZoneInv, OrderInv, Live
  <2> QED
    BY <1>1, <1>2, <2>1, <2>2 DEF ZoneInv, ReadingInv, ledger
<1>11. ASSUME ReadOrders PROVE ZoneInv'
  <2>1. UNCHANGED <<order, ledger>>
    BY <1>11 DEF ReadOrders, exchange
  <2>2. OrderInv'
    BY <2>1 DEF ZoneInv, OrderInv, Live
  <2>3. ReadingInv'
    BY <1>11, ReadingIsTaken DEF ZoneInv
  <2> QED
    BY <1>1, <1>2, <2>1, <2>2, <2>3 DEF ZoneInv, ledger
<1>12. ASSUME Forget PROVE ZoneInv'
  <2>1. ~Whole' /\ UNCHANGED <<order, ledger>>
    BY <1>12 DEF Forget, Whole
  <2>2. OrderInv'
    BY <2>1 DEF ZoneInv, OrderInv, Live
  <2> QED
    BY <1>1, <1>2, <2>1, <2>2 DEF ZoneInv, ReadingInv, ledger
<1>13. CASE UNCHANGED vars
  BY <1>0, <1>1, <1>2, <1>13 DEF ZoneInv, vars
<1> QED
  BY <1>3, <1>4, <1>5, <1>6, <1>7, <1>8, <1>9, <1>10, <1>11, <1>12, <1>13 DEF Next

-----------------------------------------------------------------------------
(***************************************************************************)
(* The judgement.                                                          *)
(***************************************************************************)
\* What the ledger counts for an order is what was executed at the reading.
LEMMA LotsAtReading ==
  ASSUME ZoneInv, Whole, Complete, StopsVerified, NEW z \in Zones, "E" \in Mine(z), z \in DOMAIN frozen
  PROVE  \A r \in Roles : Lots(z, r) = account.exec[<<z, r>>]
<1> USE PairOfId
<1>0. \A i \in Ids : recorded[i] \in Nat /\ order[i].exec \in Nat /\ account.exec[i] \in Nat
                     /\ recorded[i] <= order[i].exec /\ recorded[i] >= account.exec[i]
  BY DEF ZoneInv, OrderInv, OrderRecords, LedgerInv, RecordedInv, ReadingInv, Complete
<1>1. \A r \in Roles : Lots(z, r) = recorded[<<z, r>>]
  BY <1>0 DEF Lots, Mine, ZoneInv, LedgerInv
<1>2. \A i \in DOMAIN account.open : recorded[i] = account.exec[i]
  BY DEF StopsVerified, QuantityIssue, ZoneInv, ReadingInv
<1>3. \A i \in Ids \ DOMAIN account.open :
         \/ recorded[i] = account.exec[i]
         \/ /\ i[2] # "E" /\ account.exec[i] = 0
            /\ i[2] \in Native \cap Has[i[1]] => account.exec[<<i[1], "E">>] = 0
  <2> SUFFICES ASSUME NEW i \in Ids \ DOMAIN account.open
               PROVE  \/ recorded[i] = account.exec[i]
                      \/ /\ i[2] # "E" /\ account.exec[i] = 0
                         /\ i[2] \in Native \cap Has[i[1]] => account.exec[<<i[1], "E">>] = 0
    OBVIOUS
  <2>1. Unlisted(i)
    BY DEF ZoneInv, ReadingInv
  <2> QED
    BY <1>0, <2>1 DEF Unlisted
<1>4. recorded[<<z, "E">>] = account.exec[<<z, "E">>]
  BY <1>2, <1>3 DEF Roles
<1>5. ~Ambiguous(z) /\ ~(ParentRest(z) < 0)
  BY DEF StopsVerified, Parents, ParentIssue
<1>6. recorded[<<z, "U">>] = account.exec[<<z, "U">>]
  BY <1>0, <1>1, <1>5 DEF Ambiguous, Roles
<1>7. recorded[<<z, "S">>] + recorded[<<z, "T">>] <= recorded[<<z, "E">>]
  BY <1>0, <1>1, <1>5 DEF ParentRest, Entered, ClosedByPair, Roles
<1>8. ASSUME NEW r \in Native PROVE recorded[<<z, r>>] = account.exec[<<z, r>>]
  <2>1. <<z, r>> \in Ids /\ r \in Roles
    BY DEF Native, Roles
  <2>2. CASE recorded[<<z, r>>] # account.exec[<<z, r>>]
    <3>1. account.exec[<<z, r>>] = 0 /\ (r \in Has[z] => account.exec[<<z, "E">>] = 0)
      BY <1>2, <1>3, <2>1, <2>2
    <3>2. CASE r \notin Has[z]
      <4>1. order[<<z, r>>].exec = 0
        BY <2>1, <3>2 DEF ZoneInv, OrderInv
      <4> QED
        BY <1>0, <2>1, <2>2, <3>1, <4>1
    <3>3. CASE r \in Has[z]
      <4>1. recorded[<<z, "E">>] = 0
        BY <1>4, <3>1, <3>3
      <4>2. <<z, "S">> \in Ids /\ <<z, "T">> \in Ids
        BY DEF Roles
      <4>3. recorded[<<z, "S">>] = 0 /\ recorded[<<z, "T">>] = 0
        BY <1>0, <1>7, <4>1, <4>2
      <4> QED
        BY <2>2, <3>1, <4>3 DEF Native
    <3> QED
      BY <3>2, <3>3
  <2> QED
    BY <2>2
<1> QED
  BY <1>1, <1>4, <1>6, <1>8 DEF Roles, Native

LEMMA Judgement == ZoneInv => VerifiedMeansCovered
<1> SUFFICES ASSUME ZoneInv, Whole, Complete, StopsVerified, NEW z \in Zones
             PROVE  StopFor(z) = account.held[z]
  BY DEF VerifiedMeansCovered
<1> USE PairOfId
<1>0. \A r \in Roles : <<z, r>> \in Ids /\ account.exec[<<z, r>>] \in Nat /\ recorded[<<z, r>>] \in Nat
                       /\ recorded[<<z, r>>] >= account.exec[<<z, r>>]
  BY DEF ZoneInv, LedgerInv, ReadingInv, Complete
<1>1. account.held[z] = account.exec[<<z, "E">>]
              - (account.exec[<<z, "S">>] + account.exec[<<z, "T">>] + account.exec[<<z, "U">>])
  BY DEF ZoneInv, ReadingInv
<1>2. \A i \in DOMAIN account.open : i \in DOMAIN binding
  BY DEF StopsVerified, QuantityIssue
<1>3. CASE "E" \in Mine(z)
  <2>1. z \in DOMAIN frozen
    BY <1>3 DEF Mine, ZoneInv, LedgerInv
  <2>2. \A r \in Roles : Lots(z, r) = account.exec[<<z, r>>]
    BY <1>3, <2>1, LotsAtReading
  <2>3. ~Ambiguous(z) /\ ~Miscovered(z) /\ ~(Observed(z, "S") /\ ~StopValid(z))
    BY <1>3, <2>1 DEF StopsVerified, Parents, ParentIssue, ChildIssue
  <2>4. account.exec[<<z, "U">>] = 0
    BY <1>0, <2>2, <2>3 DEF Ambiguous, Roles
  <2>5. CoveredBy(z) = account.held[z]
    BY <1>0, <1>1, <2>2, <2>3, <2>4 DEF Miscovered, ParentRest, Entered, ClosedByPair, Roles
  <2>6. <<z, "S">> \in DOMAIN account.open <=> Observed(z, "S")
    BY <1>2 DEF Observed, Mine, Roles
  <2>7. StopFor(z) = CoveredBy(z)
    BY <2>3, <2>6 DEF StopFor, CoveredBy, StopValid
  <2> QED
    BY <2>5, <2>7
<1>4. CASE "E" \notin Mine(z)
  <2>1. \A r \in {"E", "S", "T"} : r \in Roles /\ <<z, r>> \notin DOMAIN binding
    BY <1>4 DEF Mine, Roles, Native, ZoneInv, LedgerInv, ChildrenHaveParents
  <2>2. \A r \in {"E", "S", "T"} : recorded[<<z, r>>] = 0
    BY <1>0, <2>1 DEF ZoneInv, LedgerInv
  <2>3. recorded[<<z, "U">>] = 0
    <3>1. CASE <<z, "U">> \notin DOMAIN binding
      BY <1>0, <3>1 DEF ZoneInv, LedgerInv, Roles
    <3>2. CASE <<z, "U">> \in DOMAIN binding
      <4>1. z \in DOMAIN frozen
        BY <3>2 DEF ZoneInv, LedgerInv
      <4>2. ~(Closed(z) > Entered(z))
        BY <4>1 DEF StopsVerified, QuantityIssue, ZoneIssue
      <4>3. Entered(z) = 0 /\ Lots(z, "S") = 0 /\ Lots(z, "T") = 0 /\ Lots(z, "U") = recorded[<<z, "U">>]
        BY <2>1, <3>2 DEF Entered, Lots, Mine, Roles
      <4> QED
        BY <1>0, <4>2, <4>3 DEF Closed, ClosedByPair, Roles
    <3> QED
      BY <3>1, <3>2
  <2>4. account.held[z] = 0
    <3>1. \A r \in Roles : account.exec[<<z, r>>] = 0
      BY <1>0, <2>2, <2>3 DEF Roles
    <3> QED
      BY <1>1, <3>1 DEF Roles
  <2>5. StopFor(z) = 0
    BY <1>2, <2>1 DEF StopFor
  <2> QED
    BY <2>4, <2>5
<1> QED
  BY <1>3, <1>4

\* LedgerIsSound: what _native_stop_snapshot calls verified is covered, and what
\* bind_zone_order and record_zone_execution wrote has a zone, a parent and an
\* execution behind it.
THEOREM SoundLedger == Spec => []LedgerIsSound
<1>1. ZoneInv => LedgerIsSound
  <2> SUFFICES ASSUME ZoneInv PROVE LedgerIsSound
    OBVIOUS
  <2>1. \A i \in Ids : recorded[i] \in 0..order[i].exec /\ order[i].exec <= order[i].qty
    BY DEF ZoneInv, OrderInv, OrderRecords, LedgerInv, RecordedInv
  <2>2. TypeOK
    BY <2>1 DEF TypeOK, ZoneInv, LedgerInv
  <2> QED
    BY <2>2, Judgement DEF LedgerIsSound, ZoneInv, LedgerInv
<1> QED
  BY <1>1, ZoneInit, ZoneNext, PTL DEF Spec

\* EvidenceIsKept: register_zone and bind_zone_order replace nothing.
THEOREM KeptEvidence == Spec => EvidenceIsKept
<1> DEFINE Kept == /\ \A z \in DOMAIN frozen : z \in DOMAIN frozen' /\ frozen'[z] = frozen[z]
                   /\ \A i \in DOMAIN binding : i \in DOMAIN binding' /\ binding'[i] = binding[i]
<1>1. [Next]_vars => [Kept]_vars
  <2> SUFFICES ASSUME Next PROVE Kept
    OBVIOUS
  <2>1. ASSUME NEW z \in Zones, Register(z) PROVE Kept
    BY <2>1 DEF Register, Frozen
  <2>2. ASSUME NEW i \in Ids, Bind(i) PROVE Kept
    BY <2>2 DEF Bind
  <2>3. ASSUME UNCHANGED <<frozen, binding>> PROVE Kept
    BY <2>3
  <2> HIDE DEF Kept
  <2> QED
    BY <2>1, <2>2, <2>3
    DEF Next, PlanChanges, EntryFills, EntryCancelled, PlaceReduction, MovedByHand, PeerDeactivated,
        Record, Reduces, ReadPositions, ReadOrders, Forget, ledger
<1> QED
  BY <1>1, PTL DEF Spec, EvidenceIsKept

-----------------------------------------------------------------------------
(***************************************************************************)
(* ZoneHistory.                                                            *)
(*                                                                         *)
(* A cursor that is saved stands for everything before it: CursorInv.      *)
(* Between reading a page and saving its cursor PageInv carries the same   *)
(* fact, and WorkInv says that the row is still the one the pass prepared, *)
(* so that a pass that is lost leaves the cursor it found.                 *)
(***************************************************************************)

\* Executions are in one order.
LEMMA OneOrder ==
  /\ DOMAIN Exec \in SUBSET Nat /\ IsFiniteSet(DOMAIN Exec) /\ None \notin DOMAIN Exec
  /\ \A a, b \in DOMAIN Exec : a = b \/ H!Earlier(a, b) \/ H!Earlier(b, a)
  /\ \A a \in DOMAIN Exec : ~H!Earlier(a, a)
  /\ \A a, b, e \in DOMAIN Exec : H!Earlier(a, b) /\ H!Earlier(b, e) => H!Earlier(a, e)
<1>1. Exec \in Seq(H!Range(Exec)) /\ None \notin DOMAIN Exec
      /\ \A e \in DOMAIN Exec : Exec[e].time \in Nat
  BY QueryConstants DEF H!HistoryConstants
<1>2. DOMAIN Exec = 1..Len(Exec) /\ Len(Exec) \in Nat
  BY <1>1
<1>3. IsFiniteSet(DOMAIN Exec)
  BY <1>2, FS_Interval
<1> DEFINE t == [e \in DOMAIN Exec |-> Exec[e].time]
<1>4. \A e \in DOMAIN Exec : e \in Nat /\ t[e] \in Nat
  BY <1>1, <1>2
<1>5. \A a, b \in DOMAIN Exec : H!Earlier(a, b) <=> t[a] < t[b] \/ (t[a] = t[b] /\ a < b)
  BY DEF H!Earlier
<1> HIDE DEF t
<1>6. \A a, b \in DOMAIN Exec : a = b \/ H!Earlier(a, b) \/ H!Earlier(b, a)
  BY <1>4, <1>5
<1>7. \A a \in DOMAIN Exec : ~H!Earlier(a, a)
  <2> TAKE a \in DOMAIN Exec
  <2>1. H!Earlier(a, a) <=> t[a] < t[a] \/ (t[a] = t[a] /\ a < a)
    BY <1>5
  <2> QED
    BY <1>4, <2>1
<1>8. \A a, b, e \in DOMAIN Exec : H!Earlier(a, b) /\ H!Earlier(b, e) => H!Earlier(a, e)
  <2> TAKE a, b, e \in DOMAIN Exec
  <2>1. /\ H!Earlier(a, b) <=> t[a] < t[b] \/ (t[a] = t[b] /\ a < b)
        /\ H!Earlier(b, e) <=> t[b] < t[e] \/ (t[b] = t[e] /\ b < e)
        /\ H!Earlier(a, e) <=> t[a] < t[e] \/ (t[a] = t[e] /\ a < e)
    BY <1>5
  <2>2. a \in Int /\ b \in Int /\ e \in Int /\ t[a] \in Int /\ t[b] \in Int /\ t[e] \in Int
    BY <1>4
  <2>3. \A x, y, z, p, q, u \in Int :
           (p < q \/ (p = q /\ x < y)) /\ (q < u \/ (q = u /\ y < z)) => (p < u \/ (p = u /\ x < z))
    OBVIOUS
  <2>4. PICK x \in Int, y \in Int, z \in Int, p \in Int, q \in Int, u \in Int :
           x = a /\ y = b /\ z = e /\ p = t[a] /\ q = t[b] /\ u = t[e]
    BY <2>2, Zenon
  <2>5. (p < q \/ (p = q /\ x < y)) /\ (q < u \/ (q = u /\ y < z)) => (p < u \/ (p = u /\ x < z))
    OBVIOUS
  <2> QED
    BY <2>1, <2>4, <2>5, Zenon
<1>9. DOMAIN Exec \in SUBSET Nat
  BY <1>4
<1> QED
  BY <1>1, <1>3, <1>6, <1>7, <1>8, <1>9

\* A set of naturals has a least member.
LEMMA LeastOf ==
  ASSUME NEW S \in SUBSET Nat, S # {}
  PROVE  \E x \in S : \A y \in S : x <= y
<1> DEFINE Less == {ss \in Nat \X Nat : ss[1] < ss[2]}
<1>1. IsWellFoundedOn(Less, Nat)
  BY NatLessThanWellFounded DEF OpToRel
<1>2. \A a, b \in Nat : a < b => <<a, b>> \in Less
  OBVIOUS
<1> HIDE DEF Less
<1>3. PICK x \in S : \A y \in S : ~(<<y, x>> \in Less)
  BY <1>1, WFMin
<1>4. ASSUME NEW y \in S, y < x PROVE FALSE
  <2>1. x \in Nat /\ y \in Nat
    OBVIOUS
  <2>2. <<y, x>> \in Less
    BY <1>2, <1>4, <2>1
  <2> QED
    BY <1>3, <2>2
<1>5. \A y \in S : x \in Int /\ y \in Int /\ ~(y < x)
  BY <1>4
<1> QED
  BY <1>5

\* The module's Cardinality is the library's.
LEMMA SameCardinality == \A S : H!Cardinality(S) = Cardinality(S)
  BY Zenon DEF H!Cardinality, Cardinality

\* How many rows of a listing come before one of them.
Ahead(S, e) == Cardinality({f \in S : H!Earlier(f, e)})

LEMMA AheadGrows ==
  ASSUME NEW S \in SUBSET DOMAIN Exec
  PROVE  /\ \A e \in S : Ahead(S, e) \in Nat
         /\ \A e, f \in S : H!Earlier(e, f) => Ahead(S, e) < Ahead(S, f)
<1>1. IsFiniteSet(S)
  BY OneOrder, FS_Subset
<1> DEFINE B(e) == {f \in S : H!Earlier(f, e)}
<1>2. \A e \in S : IsFiniteSet(B(e)) /\ Cardinality(B(e)) \in Nat
  BY <1>1, FS_Subset, FS_CardinalityType
<1>3. ASSUME NEW e \in S, NEW f \in S, H!Earlier(e, f) PROVE Cardinality(B(e)) < Cardinality(B(f))
  <2>1. B(e) \subseteq B(f) /\ e \in B(f) /\ e \notin B(e)
    BY <1>3, OneOrder
  <2> HIDE DEF B
  <2>2. Cardinality(B(e)) <= Cardinality(B(f)) /\ (Cardinality(B(e)) = Cardinality(B(f)) => B(e) = B(f))
    BY <1>2, <2>1, FS_Subset
  <2> QED
    BY <1>2, <2>1, <2>2
<1> QED
  BY <1>2, <1>3 DEF Ahead

\* What is not on the first page of a listing comes after its last row.
LEMMA Pages ==
  ASSUME NEW S \in SUBSET DOMAIN Exec, H!FirstPage(S) # S
  PROVE  LET last == H!LastOf(H!FirstPage(S))
         IN  last \in DOMAIN Exec /\ \A e \in S : e \in H!FirstPage(S) \/ H!Earlier(last, e)
<1> DEFINE rows == H!FirstPage(S)
<1>1. rows = {e \in S : Ahead(S, e) < PageSize} /\ PageSize \in Nat \ {0}
  <2>1. rows = {e \in S : Ahead(S, e) < PageSize}
    BY SameCardinality DEF H!FirstPage, Ahead
  <2>2. PageSize \in Nat \ {0}
    BY QueryConstants DEF H!HistoryConstants
  <2> QED
    BY <2>1, <2>2
<1>2. /\ \A e \in S : Ahead(S, e) \in Nat
      /\ \A e, f \in S : H!Earlier(e, f) => Ahead(S, e) < Ahead(S, f)
  BY AheadGrows
<1>3. /\ \A a, b \in DOMAIN Exec : a = b \/ H!Earlier(a, b) \/ H!Earlier(b, a)
      /\ \A a \in DOMAIN Exec : ~H!Earlier(a, a)
  BY OneOrder
<1> HIDE DEF rows
<1>4. rows # {}
  <2>1. S # {}
    BY <1>1 DEF rows
  <2>2. PICK e \in S : \A f \in S : Ahead(S, e) <= Ahead(S, f)
    <3> DEFINE A == {Ahead(S, e) : e \in S}
    <3>1. A \in SUBSET Nat /\ A # {}
      BY <1>2, <2>1
    <3>2. PICK x \in A : \A y \in A : x <= y
      BY <3>1, LeastOf
    <3> QED
      BY <3>2
  <2>3. {f \in S : H!Earlier(f, e)} = {}
    <3>1. ASSUME NEW f \in S, H!Earlier(f, e) PROVE FALSE
      BY <1>2, <2>2, <3>1
    <3> QED
      BY <3>1
  <2>4. Ahead(S, e) = 0
    BY <2>3, FS_EmptySet DEF Ahead
  <2> QED
    BY <1>1, <2>4
<1>5. PICK r \in rows : \A f \in rows : ~H!Earlier(r, f)
  <2> DEFINE A == {PageSize - Ahead(S, e) : e \in rows}
  <2>1. A \in SUBSET Nat /\ A # {}
    BY <1>1, <1>2, <1>4
  <2>2. PICK x \in A : \A y \in A : x <= y
    BY <2>1, LeastOf
  <2>3. PICK r \in rows : x = PageSize - Ahead(S, r)
    BY <2>2
  <2>4. \A f \in rows : Ahead(S, f) <= Ahead(S, r)
    <3> TAKE f \in rows
    <3>1. PageSize - Ahead(S, r) <= PageSize - Ahead(S, f)
      BY <2>2, <2>3
    <3>2. Ahead(S, r) \in Nat /\ Ahead(S, f) \in Nat
      BY <1>1, <1>2
    <3> QED
      BY <1>1, <3>1, <3>2
  <2>5. \A f \in rows : ~H!Earlier(r, f)
    <3> TAKE f \in rows
    <3>1. r \in S /\ f \in S /\ Ahead(S, r) \in Nat /\ Ahead(S, f) \in Nat
      BY <1>1, <1>2
    <3> QED
      BY <1>2, <2>4, <3>1
  <2> QED
    BY <2>5
<1> DEFINE last == H!LastOf(rows)
<1>6. last \in rows /\ \A f \in rows : ~H!Earlier(last, f)
  BY <1>5 DEF H!LastOf
<1> HIDE DEF last
<1>7. ASSUME NEW e \in S, e \notin rows PROVE H!Earlier(last, e)
  <2>1. last \in S /\ e \in DOMAIN Exec /\ last \in DOMAIN Exec /\ e # last
    BY <1>1, <1>6, <1>7
  <2>2. Ahead(S, last) < PageSize /\ ~(Ahead(S, e) < PageSize) /\ Ahead(S, e) \in Nat /\ Ahead(S, last) \in Nat
    BY <1>1, <1>2, <1>6, <1>7, <2>1
  <2>3. ~H!Earlier(e, last)
    BY <1>1, <1>2, <2>1, <2>2
  <2> QED
    BY <1>3, <2>1, <2>3
<1> QED
  BY <1>1, <1>6, <1>7 DEF rows, last

\* A row of zone_history_queries has its columns.
IsRow(r) == DOMAIN r = {"start", "end", "cursor", "seen", "attempt", "done"}

\* What is known of an execution that the reader of a window owes.
Listed(e, row, s) == e \in H!InWindow(row, s) /\ Exec[e].order \in bound

RowsInv ==
  /\ visible \subseteq DOMAIN Exec
  /\ DOMAIN query \subseteq H!Keys
  /\ \A key \in DOMAIN query : IsRow(query[key])

\* A pass works on the rows it prepared: nobody else changes them meanwhile.
WorkInv ==
  /\ \A q \in work : q.key \in DOMAIN query /\ q.place \in Nat /\ H!Owned(q)
  /\ \A q, p \in work : q.key = p.key => q = p

\* Behind a saved cursor everything is recorded.
CursorInv ==
  \A key \in DOMAIN query : query[key].cursor # None =>
    /\ key \in DOMAIN owed /\ query[key].cursor \in DOMAIN Exec
    /\ \A e \in owed[key] : /\ Listed(e, query[key], key[1])
                            /\ e \in executions \/ H!Earlier(query[key].cursor, e)

\* What the page that was read does not hold is recorded or comes after it.
PageInv ==
  page # None =>
    /\ work # {} /\ H!Q.key \in DOMAIN owed /\ (more # None => more \in DOMAIN Exec)
    /\ \A e \in owed[H!Q.key] :
         /\ Listed(e, H!Q.row, H!Q.key[1])
         /\ e \in executions \/ e \in page \/ (more # None /\ H!Earlier(more, e))

HistoryInv == RowsInv /\ WorkInv /\ CursorInv /\ PageInv

\* What a step reports as consumed is recorded.
Reported ==
  \A key \in DOMAIN query :
    query'[key].done # query[key].done => owed[key] \subseteq executions'

LEMMA HeadIsDue ==
  ASSUME WorkInv, work # {}
  PROVE  H!Q \in work
<1> DEFINE P == {q.place : q \in work}
<1>1. P \in SUBSET Nat /\ P # {}
  BY DEF WorkInv
<1>2. PICK x \in P : \A y \in P : x <= y
  BY <1>1, LeastOf
<1>3. PICK q \in work : q.place = x
  BY <1>2
<1>4. \A other \in work : q.place <= other.place
  BY <1>2, <1>3
<1> QED
  BY <1>4 DEF H!Q

LEMMA HistoryStarts ==
  ASSUME H!Init
  PROVE  HistoryInv
  BY DEF H!Init, HistoryInv, RowsInv, WorkInv, CursorInv, PageInv

\* A step that leaves the pass, its rows and what they owe alone.
LEMMA AroundIt ==
  ASSUME HistoryInv, UNCHANGED <<query, work, page, more, owed>>,
         visible \subseteq visible', visible' \subseteq DOMAIN Exec,
         bound \subseteq bound', executions \subseteq executions'
  PROVE  HistoryInv' /\ Reported
<1>1. H!Q' = H!Q
  BY DEF H!Q
<1>2. \A e, row, s : Listed(e, row, s) => Listed(e, row, s)'
  BY DEF Listed, H!InWindow
<1>3. RowsInv'
  BY DEF HistoryInv, RowsInv
<1>4. WorkInv'
  BY DEF HistoryInv, WorkInv, H!Owned
<1>6. CursorInv'
  BY <1>2 DEF HistoryInv, CursorInv
<1>7. PageInv'
  BY <1>1, <1>2 DEF HistoryInv, PageInv
<1>8. Reported
  BY DEF Reported
<1> QED
  BY <1>3, <1>4, <1>6, <1>7, <1>8 DEF HistoryInv

LEMMA KeysAreFinite == IsFiniteSet(H!Keys)
<1>1. DOMAIN Symbols = 1..Len(Symbols) /\ Len(Symbols) \in Nat
  BY QueryConstants DEF H!HistoryConstants
<1>2. IsFiniteSet(DOMAIN Symbols)
  BY <1>1, FS_Interval
<1>3. Symbols \in Surjection(DOMAIN Symbols, H!Range(Symbols))
  BY <1>1, QueryConstants DEF H!HistoryConstants, H!Range, Surjection
<1>4. IsFiniteSet(H!Range(Symbols))
  BY <1>2, <1>3, FS_Surjection
<1>5. IsFiniteSet(H!Lanes)
  <2>1. IsFiniteSet({} \cup {"recent"})
    BY FS_EmptySet, FS_AddElement
  <2>2. IsFiniteSet(({} \cup {"recent"}) \cup {"archive"})
    BY <2>1, FS_AddElement
  <2>3. H!Lanes = ({} \cup {"recent"}) \cup {"archive"}
    BY DEF H!Lanes
  <2> QED
    BY <2>2, <2>3
<1> QED
  BY <1>4, <1>5, FS_Product DEF H!Keys

LEMMA PrepareKeeps ==
  ASSUME HistoryInv, H!Prepare
  PROVE  HistoryInv' /\ Reported
<1> DEFINE rows == H!Floored
           due == H!Due(DOMAIN rows)
           keys == H!Taken(due)
<1>1. /\ work = {} /\ page = None /\ query' = H!Attempted(rows, keys)
      /\ work' = {[key |-> key, row |-> rows[key], at |-> now, place |-> H!Place(key, due)] : key \in keys}
      /\ UNCHANGED <<now, visible, bound, executions, page, more, owed>>
  <2>1. page = None
    BY DEF HistoryInv, PageInv, H!Prepare, H!Idle
  <2> QED
    BY <2>1 DEF H!Prepare, H!Idle
<1>2. DOMAIN rows \subseteq H!Keys /\ DOMAIN query \subseteq DOMAIN rows
  BY DEF HistoryInv, RowsInv, H!Floored
<1>3. ASSUME NEW key \in DOMAIN rows
      PROVE  /\ IsRow(rows[key])
             /\ key \in DOMAIN query => rows[key].done = query[key].done
             /\ rows[key].cursor # None => key \in DOMAIN query /\ rows[key] = query[key]
  <2> DEFINE w == H!NextWindow(key, 0, now, FALSE)
             moved == [query[key] EXCEPT !.start = w[1], !.end = w[2], !.cursor = None, !.seen = {}]
  <2>1. rows[key] = IF key \notin DOMAIN query THEN H!Row(w)
                    ELSE IF key[1] \in H!Known /\ H!Eligible(key) /\ query[key].start < H!QueryFloor(key[1], now)
                    THEN moved ELSE query[key]
    BY <1>3 DEF H!Floored
  <2>2. IsRow(H!Row(w)) /\ H!Row(w).cursor = None
    BY DEF H!Row, IsRow
  <2>3. key \in DOMAIN query => IsRow(query[key])
    BY DEF HistoryInv, RowsInv
  <2>4. key \in DOMAIN query => IsRow(moved) /\ moved.cursor = None /\ moved.done = query[key].done
    BY <2>3 DEF IsRow
  <2> HIDE DEF moved, w
  <2> QED
    BY <2>1, <2>2, <2>3, <2>4
<1> HIDE DEF rows
<1>4. /\ DOMAIN query' = DOMAIN rows
      /\ \A key \in DOMAIN rows :
           query'[key] = IF key \in keys THEN [rows[key] EXCEPT !.attempt = now] ELSE rows[key]
  BY <1>1 DEF H!Attempted
<1>5. \A key \in DOMAIN rows :
         /\ IsRow(query'[key]) /\ query'[key].start = rows[key].start /\ query'[key].end = rows[key].end
         /\ query'[key].cursor = rows[key].cursor /\ query'[key].done = rows[key].done
         /\ key \in keys => query'[key].attempt = now
  <2> TAKE key \in DOMAIN rows
  <2>1. IsRow(rows[key])
    BY <1>3
  <2>2. query'[key] = IF key \in keys THEN [rows[key] EXCEPT !.attempt = now] ELSE rows[key]
    BY <1>4
  <2> HIDE DEF keys
  <2> QED
    BY <2>1, <2>2 DEF IsRow
<1>6. keys \subseteq due /\ due \subseteq DOMAIN rows
  BY DEF H!Taken, H!Due
<1>7. \A key \in keys : H!Place(key, due) \in Nat
  <2>1. IsFiniteSet(due)
    BY <1>2, <1>6, KeysAreFinite, FS_Subset
  <2> HIDE DEF due
  <2>2. \A key : IsFiniteSet({x \in due : H!Before(x, key)})
    BY <2>1, FS_Subset
  <2> QED
    BY <2>2, FS_CardinalityType, SameCardinality DEF H!Place
<1> HIDE DEF keys, due
<1>8. RowsInv'
  BY <1>1, <1>2, <1>4, <1>5 DEF HistoryInv, RowsInv
<1>9. WorkInv'
  <2>1. ASSUME NEW q \in work'
        PROVE  /\ q.key \in keys /\ q.row = rows[q.key] /\ q.at = now /\ q.place = H!Place(q.key, due)
               /\ q = [key |-> q.key, row |-> rows[q.key], at |-> now, place |-> H!Place(q.key, due)]
    BY <1>1, <2>1
  <2>2. \A q \in work' : q.key \in DOMAIN query' /\ q.place \in Nat
    BY <1>4, <1>6, <1>7, <2>1
  <2>3. \A q \in work' : H!Owned(q)'
    BY <1>5, <1>6, <2>1 DEF H!Owned
  <2>4. \A q, p \in work' : q.key = p.key => q = p
    BY <2>1
  <2> QED
    BY <2>2, <2>3, <2>4 DEF WorkInv
<1>10. CursorInv'
  <2>1. ASSUME NEW key \in DOMAIN query', query'[key].cursor # None
        PROVE  /\ key \in DOMAIN owed /\ query'[key].cursor \in DOMAIN Exec
               /\ \A e \in owed[key] : /\ Listed(e, query'[key], key[1])
                                       /\ e \in executions \/ H!Earlier(query'[key].cursor, e)
    <3>1. key \in DOMAIN query /\ rows[key] = query[key] /\ query'[key].cursor = query[key].cursor
          /\ query'[key].start = query[key].start /\ query'[key].end = query[key].end
      BY <1>3, <1>4, <1>5, <2>1
    <3>2. \A e : Listed(e, query'[key], key[1]) <=> Listed(e, query[key], key[1])
      BY <3>1 DEF Listed, H!InWindow
    <3> QED
      BY <2>1, <3>1, <3>2 DEF HistoryInv, CursorInv
  <2>2. \A e, row, s : Listed(e, row, s)' <=> Listed(e, row, s)
    BY <1>1 DEF Listed, H!InWindow
  <2> QED
    BY <1>1, <2>1, <2>2 DEF CursorInv
<1>11. PageInv'
  BY <1>1 DEF PageInv
<1>12. Reported
  BY <1>2, <1>3, <1>5 DEF Reported
<1> QED
  BY <1>8, <1>9, <1>10, <1>11, <1>12 DEF HistoryInv

LEMMA ReadPageKeeps ==
  ASSUME HistoryInv, H!ReadPage
  PROVE  HistoryInv' /\ Reported
<1> DEFINE q == H!Q
           listed == H!InWindow(q.row, q.key[1])
           rest == IF q.row.cursor = None THEN listed ELSE {e \in listed : H!Earlier(q.row.cursor, e)}
           rows == H!FirstPage(rest)
           attributed(S) == {e \in S : Exec[e].order \in bound}
<1>1. /\ work # {}
      /\ page' = attributed(rows)
      /\ more' = IF rows = rest THEN None ELSE H!LastOf(rows)
      /\ owed' = IF q.row.cursor = None
                 THEN [key \in DOMAIN owed \cup {q.key} |->
                         IF key = q.key THEN attributed(listed) ELSE owed[key]]
                 ELSE owed
      /\ UNCHANGED <<now, visible, bound, executions, query, work>>
  BY DEF H!ReadPage, H!Idle
<1>2. q \in work /\ H!Q' = q /\ q' = q
  <2>1. q \in work
    BY <1>1, HeadIsDue DEF HistoryInv
  <2>2. H!Q' = q /\ q' = q
    BY <1>1 DEF H!Q
  <2> QED
    BY <2>1, <2>2
<1>3. /\ q.key \in DOMAIN query /\ query[q.key].cursor = q.row.cursor
      /\ query[q.key].start = q.row.start /\ query[q.key].end = q.row.end
  BY <1>2 DEF HistoryInv, WorkInv, H!Owned
<1>4. listed \subseteq DOMAIN Exec /\ rest \subseteq listed
  BY DEF HistoryInv, RowsInv, H!InWindow
<1> HIDE DEF q
<1>5. \A e : Listed(e, q.row, q.key[1]) <=> e \in attributed(listed)
  BY DEF Listed
<1>6. \A e : Listed(e, query[q.key], q.key[1]) <=> Listed(e, q.row, q.key[1])
  BY <1>3 DEF Listed, H!InWindow
<1>7. \A e, row, s : Listed(e, row, s)' <=> Listed(e, row, s)
  BY <1>1 DEF Listed, H!InWindow
<1> HIDE DEF listed
<1>8. /\ rows \subseteq rest
      /\ more' # None => more' \in DOMAIN Exec /\ \A e \in rest : e \in rows \/ H!Earlier(more', e)
      /\ more' = None => rows = rest
  <2>1. rows \subseteq rest
    BY DEF H!FirstPage
  <2>2. rest \in SUBSET DOMAIN Exec
    BY <1>4
  <2> HIDE DEF rest
  <2>3. CASE rows = rest
    BY <1>1, <2>3
  <2>4. CASE rows # rest
    <3>1. H!LastOf(rows) \in DOMAIN Exec /\ \A e \in rest : e \in rows \/ H!Earlier(H!LastOf(rows), e)
      BY <2>2, <2>4, Pages
    <3>2. None \notin DOMAIN Exec
      BY OneOrder
    <3> QED
      BY <1>1, <2>1, <2>4, <3>1, <3>2
  <2> QED
    BY <2>1, <2>3, <2>4
<1> HIDE DEF rows
<1>9. RowsInv'
  BY <1>1 DEF HistoryInv, RowsInv
<1>10. WorkInv'
  BY <1>1 DEF HistoryInv, WorkInv, H!Owned
<1>11. CursorInv'
  <2>1. ASSUME NEW key \in DOMAIN query, query[key].cursor # None
        PROVE  key \in DOMAIN owed' /\ owed'[key] = owed[key] /\ key \in DOMAIN owed
    <3>1. key \in DOMAIN owed
      BY <2>1 DEF HistoryInv, CursorInv
    <3>2. CASE q.row.cursor = None
      <4>1. key # q.key
        BY <1>3, <2>1, <3>2
      <4> HIDE DEF attributed
      <4> QED
        BY <1>1, <3>1, <3>2, <4>1
    <3>3. CASE q.row.cursor # None
      BY <1>1, <3>1, <3>3
    <3> QED
      BY <3>2, <3>3
  <2>2. ASSUME NEW key \in DOMAIN query', query'[key].cursor # None
        PROVE  /\ key \in DOMAIN owed' /\ query'[key].cursor \in DOMAIN Exec
               /\ \A e \in owed'[key] : /\ Listed(e, query[key], key[1])'
                                        /\ e \in executions' \/ H!Earlier(query'[key].cursor, e)
    <3>1. key \in DOMAIN query /\ query'[key] = query[key] /\ executions' = executions
          /\ query[key].cursor # None
      BY <1>1, <2>2
    <3>2. /\ query[key].cursor \in DOMAIN Exec
          /\ \A e \in owed[key] : /\ Listed(e, query[key], key[1])
                                  /\ e \in executions \/ H!Earlier(query[key].cursor, e)
      BY <3>1 DEF HistoryInv, CursorInv
    <3>3. \A e : Listed(e, query[key], key[1])' <=> Listed(e, query[key], key[1])
      BY <1>1 DEF Listed, H!InWindow
    <3> QED
      BY <2>1, <3>1, <3>2, <3>3
  <2> QED
    BY <2>2 DEF CursorInv
<1>12. PageInv'
  <2>1. q.key \in DOMAIN owed'
    <3>1. CASE q.row.cursor = None
      <4> HIDE DEF attributed
      <4> QED
        BY <1>1, <3>1
    <3>2. CASE q.row.cursor # None
      BY <1>1, <1>3, <3>2 DEF HistoryInv, CursorInv
    <3> QED
      BY <3>1, <3>2
  <2>2. ASSUME NEW e \in owed'[q.key]
        PROVE  Listed(e, q.row, q.key[1]) /\ (e \in executions \/ e \in rest)
    <3>1. CASE q.row.cursor = None
      <4>1. owed'[q.key] = attributed(listed)
        <5> HIDE DEF attributed
        <5> QED
          BY <1>1, <3>1
      <4> QED
        BY <1>5, <2>2, <3>1, <4>1
    <3>2. CASE q.row.cursor # None
      <4>1. owed' = owed
        BY <1>1, <3>2
      <4>2. Listed(e, query[q.key], q.key[1]) /\ (e \in executions \/ H!Earlier(q.row.cursor, e))
        BY <1>3, <2>2, <3>2, <4>1 DEF HistoryInv, CursorInv
      <4>3. Listed(e, q.row, q.key[1])
        BY <1>6, <4>2
      <4> QED
        BY <1>5, <3>2, <4>2, <4>3
    <3> QED
      BY <3>1, <3>2
  <2>3. ASSUME NEW e \in owed'[q.key]
        PROVE  /\ Listed(e, q.row, q.key[1])'
               /\ e \in executions' \/ e \in page' \/ (more' # None /\ H!Earlier(more', e))
    <3>1. Listed(e, q.row, q.key[1]) /\ (e \in executions \/ e \in rest)
      BY <2>2
    <3>2. Exec[e].order \in bound
      BY <3>1 DEF Listed
    <3>3. e \in rows => e \in page'
      BY <1>1, <3>2
    <3>4. Listed(e, q.row, q.key[1])'
      BY <1>1, <1>2, <3>1 DEF Listed, H!InWindow
    <3> HIDE DEF rest, attributed
    <3> QED
      BY <1>1, <1>8, <3>1, <3>3, <3>4
  <2>4. work' # {} /\ (more' # None => more' \in DOMAIN Exec)
    BY <1>1, <1>8
  <2> QED
    BY <1>2, <2>1, <2>3, <2>4 DEF PageInv, q
<1>13. Reported
  BY <1>1 DEF Reported
<1> QED
  BY <1>9, <1>10, <1>11, <1>12, <1>13 DEF HistoryInv

LEMMA RecordingKeeps ==
  ASSUME HistoryInv, H!Record
  PROVE  HistoryInv' /\ Reported
<1>1. PICK x \in page : executions' = executions \cup {x} /\ page' = page \ {x}
  BY DEF H!Record
<1>2. page # None /\ UNCHANGED <<visible, bound, query, work, more, owed>>
  BY DEF H!Record
<1>3. H!Q' = H!Q
  BY <1>2 DEF H!Q
<1>4. \A e, row, s : Listed(e, row, s)' <=> Listed(e, row, s)
  BY <1>2 DEF Listed, H!InWindow
<1>5. RowsInv' /\ WorkInv'
  BY <1>2 DEF HistoryInv, RowsInv, WorkInv, H!Owned
<1>6. CursorInv'
  BY <1>1, <1>2, <1>4 DEF HistoryInv, CursorInv
<1>7. PageInv'
  <2>1. /\ work # {} /\ H!Q.key \in DOMAIN owed /\ (more # None => more \in DOMAIN Exec)
        /\ \A e \in owed[H!Q.key] :
             /\ Listed(e, H!Q.row, H!Q.key[1])
             /\ e \in executions \/ e \in page \/ (more # None /\ H!Earlier(more, e))
    BY <1>2 DEF HistoryInv, PageInv
  <2>2. \A e \in owed[H!Q.key] :
           /\ Listed(e, H!Q.row, H!Q.key[1])'
           /\ e \in executions' \/ e \in page' \/ (more # None /\ H!Earlier(more, e))
    BY <1>1, <1>2, <1>3, <1>4, <2>1
  <2> QED
    BY <1>2, <1>3, <2>1, <2>2 DEF PageInv
<1>8. Reported
  BY <1>2 DEF Reported
<1> QED
  BY <1>5, <1>6, <1>7, <1>8 DEF HistoryInv

\* The end of a query: one row changes, and what is left of the pass does not.
LEMMA EndKeeps ==
  ASSUME HistoryInv, work # {}, H!Over, UNCHANGED <<visible, bound, executions, owed>>,
         NEW r, IsRow(r), query' = [query EXCEPT ![H!Q.key] = r],
         r.cursor # None =>
            /\ H!Q.key \in DOMAIN owed /\ r.cursor \in DOMAIN Exec
            /\ \A e \in owed[H!Q.key] : /\ Listed(e, r, H!Q.key[1])
                                        /\ e \in executions \/ H!Earlier(r.cursor, e),
         r.done # query[H!Q.key].done => owed[H!Q.key] \subseteq executions
  PROVE  HistoryInv' /\ Reported
<1> DEFINE q == H!Q
<1>1. q \in work /\ q.key \in DOMAIN query
  <2>1. q \in work
    BY HeadIsDue DEF HistoryInv
  <2> QED
    BY <2>1 DEF HistoryInv, WorkInv
<1>2. work' = work \ {q} /\ page' = None
  BY DEF H!Over
<1> HIDE DEF q
<1>3. /\ DOMAIN query' = DOMAIN query /\ query'[q.key] = r
      /\ \A key \in DOMAIN query : key # q.key => query'[key] = query[key]
  BY <1>1 DEF q
<1>4. RowsInv'
  BY <1>3 DEF HistoryInv, RowsInv
<1>5. WorkInv'
  <2>1. \A p \in work' : p \in work /\ p.key # q.key /\ p.key \in DOMAIN query
    BY <1>1, <1>2 DEF HistoryInv, WorkInv
  <2>2. \A p \in work' : H!Owned(p)'
    BY <1>3, <2>1 DEF HistoryInv, WorkInv, H!Owned
  <2> QED
    BY <1>3, <2>1, <2>2 DEF HistoryInv, WorkInv
<1>6. CursorInv'
  <2>1. \A e, row, s : Listed(e, row, s)' <=> Listed(e, row, s)
    BY DEF Listed, H!InWindow
  <2>2. ASSUME NEW key \in DOMAIN query', query'[key].cursor # None
        PROVE  /\ key \in DOMAIN owed /\ query'[key].cursor \in DOMAIN Exec
               /\ \A e \in owed[key] : /\ Listed(e, query'[key], key[1])
                                       /\ e \in executions \/ H!Earlier(query'[key].cursor, e)
    <3>1. CASE key = q.key
      BY <1>3, <2>2, <3>1 DEF q
    <3>2. CASE key # q.key
      BY <1>3, <2>2, <3>2 DEF HistoryInv, CursorInv
    <3> QED
      BY <3>1, <3>2
  <2> QED
    BY <2>1, <2>2 DEF CursorInv
<1>7. PageInv'
  BY <1>2 DEF PageInv
<1>8. Reported
  BY <1>3 DEF Reported, q
<1> QED
  BY <1>4, <1>5, <1>6, <1>7, <1>8 DEF HistoryInv

LEMMA FinishKeeps ==
  ASSUME HistoryInv, H!Finish
  PROVE  HistoryInv' /\ Reported
<1> DEFINE q == H!Q
<1>1. /\ work # {} /\ page = {} /\ page # None /\ H!Over
      /\ UNCHANGED <<visible, bound, executions, owed>>
      /\ query' = [query EXCEPT ![q.key] = IF more = None THEN H!Completed(q) ELSE H!Continued(q)]
  BY QueryConstants DEF H!Finish, H!Idle, H!HistoryConstants
<1>2. q \in work /\ q.key \in DOMAIN query /\ IsRow(query[q.key])
      /\ query[q.key].start = q.row.start /\ query[q.key].end = q.row.end
  <2>1. q \in work
    BY <1>1, HeadIsDue DEF HistoryInv
  <2> HIDE DEF q
  <2> QED
    BY <2>1 DEF HistoryInv, WorkInv, RowsInv, H!Owned
<1>3. /\ q.key \in DOMAIN owed /\ (more # None => more \in DOMAIN Exec)
      /\ \A e \in owed[q.key] : /\ Listed(e, q.row, q.key[1])
                                /\ e \in executions \/ (more # None /\ H!Earlier(more, e))
  BY <1>1 DEF HistoryInv, PageInv
<1>4. CASE more = None
  <2> DEFINE r == H!Completed(q)
  <2>1. IsRow(r) /\ r.cursor = None
    <3> HIDE DEF q
    <3> QED
      BY <1>2 DEF H!Completed, IsRow
  <2>2. query' = [query EXCEPT ![q.key] = r] /\ owed[q.key] \subseteq executions
    BY <1>1, <1>3, <1>4
  <2> HIDE DEF r
  <2> QED
    BY <1>1, <2>1, <2>2, EndKeeps
<1>5. CASE more # None
  <2> DEFINE r == H!Continued(q)
  <2>1. /\ IsRow(r) /\ r.cursor = more /\ r.done = query[q.key].done
        /\ r.start = q.row.start /\ r.end = q.row.end
    <3> HIDE DEF q
    <3> QED
      BY <1>2 DEF H!Continued, IsRow
  <2>2. query' = [query EXCEPT ![q.key] = r]
    BY <1>1, <1>5
  <2> HIDE DEF r
  <2>3. \A e : Listed(e, q.row, q.key[1]) => Listed(e, r, q.key[1])
    BY <2>1 DEF Listed, H!InWindow
  <2>4. r.cursor # None =>
            /\ q.key \in DOMAIN owed /\ r.cursor \in DOMAIN Exec
            /\ \A e \in owed[q.key] : /\ Listed(e, r, q.key[1])
                                      /\ e \in executions \/ H!Earlier(r.cursor, e)
    BY <1>3, <2>1, <2>3
  <2> QED
    BY <1>1, <2>1, <2>2, <2>4, EndKeeps
<1> QED
  BY <1>4, <1>5

\* A query that failed starts its window again.
LEMMA ErrorKeeps ==
  ASSUME HistoryInv, work # {}, H!FinishWithError
  PROVE  HistoryInv' /\ Reported
<1> DEFINE r == H!Restarted(H!Q)
<1>1. IsRow(query[H!Q.key])
  <2>1. H!Q \in work
    BY HeadIsDue DEF HistoryInv
  <2> QED
    BY <2>1 DEF HistoryInv, WorkInv, RowsInv
<1>2. IsRow(r) /\ r.cursor = None /\ r.done = query[H!Q.key].done
  BY <1>1 DEF H!Restarted, IsRow
<1>3. query' = [query EXCEPT ![H!Q.key] = r] /\ H!Over /\ UNCHANGED <<visible, bound, executions, owed>>
  BY DEF H!FinishWithError
<1> HIDE DEF r
<1> QED
  BY <1>2, <1>3, EndKeeps

\* The pass is gone; its rows keep the cursors they had.
LEMMA LossKeeps ==
  ASSUME HistoryInv, H!PassLost
  PROVE  HistoryInv' /\ Reported
<1>1. work' = {} /\ page' = None /\ UNCHANGED <<visible, bound, executions, query, owed>>
  BY DEF H!PassLost
<1>2. RowsInv' /\ WorkInv' /\ PageInv' /\ Reported
  BY <1>1 DEF HistoryInv, RowsInv, WorkInv, PageInv, Reported
<1>3. \A e, row, s : Listed(e, row, s)' <=> Listed(e, row, s)
  BY <1>1 DEF Listed, H!InWindow
<1>4. CursorInv'
  BY <1>1, <1>3 DEF HistoryInv, CursorInv
<1> QED
  BY <1>2, <1>4 DEF HistoryInv

LEMMA HistoryStep ==
  ASSUME HistoryInv, [H!Next]_(H!vars)
  PROVE  HistoryInv' /\ Reported
<1>1. visible \subseteq DOMAIN Exec
  BY DEF HistoryInv, RowsInv
<1>2. CASE H!Prepare \/ H!ReadPage \/ H!Record \/ H!Finish \/ H!PassLost
  BY <1>2, PrepareKeeps, ReadPageKeeps, RecordingKeeps, FinishKeeps, LossKeeps
<1>3. CASE H!TooManyPages \/ H!QueryFails
  <2>1. work # {} /\ H!FinishWithError
    BY <1>3 DEF H!TooManyPages, H!QueryFails, H!Idle
  <2> QED
    BY <2>1, ErrorKeeps
<1>4. CASE H!Tick
  BY <1>1, <1>4, AroundIt DEF H!Tick
<1>5. CASE H!Appear
  BY <1>1, <1>5, AroundIt DEF H!Appear
<1>6. CASE H!Bind
  BY <1>1, <1>6, AroundIt DEF H!Bind
<1>7. CASE UNCHANGED H!vars
  BY <1>1, <1>7, AroundIt DEF H!vars
<1> QED
  BY <1>2, <1>3, <1>4, <1>5, <1>6, <1>7 DEF H!Next

\* Whatever fails, stops or appears late between two pages, a window is reported
\* as consumed only when everything its reader owed is in the ledger
\* (finish_zone_history_query, _record_history_query).
THEOREM ConsumedWindows == H!Spec => ConsumedIsRecorded
<1>1. H!Init => HistoryInv
  BY HistoryStarts
<1>2. HistoryInv /\ [H!Next]_(H!vars) => HistoryInv'
  BY HistoryStep
<1>3. HistoryInv /\ [H!Next]_(H!vars) =>
        [\A key \in DOMAIN query :
           query'[key].done # query[key].done => owed[key] \subseteq executions']_(H!vars)
  BY HistoryStep DEF Reported
<1> QED
  BY <1>1, <1>2, <1>3, PTL DEF H!Spec, ConsumedIsRecorded, H!ConsumedIsRecorded
=============================================================================
