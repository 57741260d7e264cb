----------------------------- MODULE Supervisor -----------------------------
(***************************************************************************)
(* PositionSupervisor.reconcile_once for one strategy, at the level of who *)
(* owns which exposure: which entries it cancels, when it freezes them,    *)
(* when it calls the strategy CLOSED.  Installing stops and fixed exits is *)
(* one bracket (a durable snapshot before, the outcome after) whose effect *)
(* on the exchange is left out.                                            *)
(*                                                                         *)
(* The pass shares one account snapshot between symbols; since the         *)
(* exchange moves between any two steps here, an old snapshot is the same  *)
(* as a slow step.  The branch for several active strategies on a symbol   *)
(* has no action: OneActiveOwner (module System) shows it is not reached.  *)
(* Nor has the one for a CLOSING strategy with a position (ClosingIsFlat). *)
(***************************************************************************)
EXTENDS Account

Supervising(l) == task = "supervise" /\ pc = l

\* The row of strategy i as a save with these values leaves it.
Save(i, status, fz, rb, inst, trail, seen) ==
    /\ sstatus' = [sstatus EXCEPT ![i] = status]
    /\ frozen' = [frozen EXCEPT ![i] = fz]
    /\ rebalance' = [rebalance EXCEPT ![i] = rb]
    /\ installing' = [installing EXCEPT ![i] = inst]
    /\ trailing' = [trailing EXCEPT ![i] = trail]
    /\ lastSeen' = [lastSeen EXCEPT ![i] = seen]
    /\ UNCHANGED <<intent, act, exchange>>
SaveStatus(i, status) ==
    Save(i, status, frozen[i], rebalance[i], installing[i], trailing[i],
         lastSeen[i])
SaveSeen(i, status) ==
    Save(i, status, frozen[i], rebalance[i], installing[i], trailing[i],
         seenPos)

\* UNCERTAIN strategies are reported and left alone.
Reconcile(i) ==
    /\ sstatus[i] \in Managed
    /\ Acquire("supervise", i, "pos", "decide")
    /\ loaded' = Row(i)
    /\ UNCHANGED <<durable, exchange>>

Mine == {x \in seenOrd : x[1] = job}
Expiring == expired[job] /\ sstatus[job] # "CLOSING"

\* _reconcile runs on a snapshot: the first read of the pass, or the one a
\* filled fixed exit left behind.
Deciding == Supervising("decide")

(***************************************************************************)
(* No position in the snapshot.                                            *)
(***************************************************************************)
\* _handle_missing_position cancels what the snapshot lists of this strategy
\* and confirms; before the first sighting of a position it only waits.
MissingPosition ==
    IF lastSeen[job] # {} \/ sstatus[job] = "CLOSING"
      THEN CancelThen(Mine, "flat") /\ UNCHANGED <<durable, exchange>>
      ELSE Release /\ UNCHANGED <<durable, exchange>>
PositionMissing ==
    /\ Deciding /\ seenPos = {} /\ ~Expiring
    /\ MissingPosition
ExpireWithoutPosition ==
    /\ Deciding /\ seenPos = {} /\ Expiring
    /\ IF Mine # {} THEN CancelThen(Mine, "expiredFlat")
                    ELSE ReadThen("flat", 0)
    /\ UNCHANGED <<durable, exchange>>
\* After cancelling stale entries and reading again.
ExpiredClosable == seenPos = {} /\ Mine = {}
ExpiredToFlat ==
    /\ Supervising("expiredFlat") \/ Supervising("expiredLive")
    /\ ExpiredClosable
    /\ ReadThen("flat", 0)
    /\ UNCHANGED <<durable, exchange>>
ExpiredToFreeze ==
    /\ Supervising("expiredFlat") \/ Supervising("expiredLive")
    /\ seenPos # {} /\ ~frozen[job]
    /\ ReadThen("expiryFreeze", 0)
    /\ UNCHANGED <<durable, exchange>>
ExpiredFlatContinues ==
    /\ Supervising("expiredFlat")
    /\ ~ExpiredClosable /\ (seenPos = {} \/ frozen[job])
    /\ MissingPosition

\* Mutant: a flat position alone closes the strategy.
CloseWithoutPosition ==
    /\ Supervising("flat")
    /\ seenPos = {}
    /\ SaveStatus(job, "CLOSED")
    /\ Release
\* _close_if_flat: one more account read decides.
CloseIfFlat ==
    /\ Supervising("flat")
    /\ seenPos = {} /\ Mine = {}
    /\ SaveStatus(job, "CLOSED")
    /\ Release
NotFlat ==
    /\ Supervising("flat")
    /\ seenPos # {} \/ Mine # {}
    /\ Release
    /\ UNCHANGED <<durable, exchange>>

(***************************************************************************)
(* A live position in the snapshot.                                        *)
(***************************************************************************)
LivePosition == Deciding /\ seenPos # {} /\ sstatus[job] # "CLOSING"
HandedOff == Supervising("handoff") /\ seenPos # {}

\* Size or average entry changed although entries are frozen.
GrewAfterFreeze ==
    /\ ~installing[job] /\ frozen[job] /\ ~rebalance[job]
    /\ ~(seenPos \subseteq lastSeen[job])
\* MANUAL_OVERRIDE: growth after the freeze, or protection, exits or entries
\* someone changed on the exchange, which can be found in any live snapshot.
Override ==
    /\ LivePosition \/ HandedOff
    /\ SaveStatus(job, "MANUAL_OVERRIDE")
    /\ Release
\* Resume an interrupted installation on its saved snapshot.
ResumeInstall ==
    /\ LivePosition /\ installing[job]
    /\ Save(job, sstatus[job], frozen[job], rebalance[job], TRUE,
            trailing[job], lastSeen[job])
    /\ Goto("install")
\* Attached stops are handed over to the position stop; the pass goes on with
\* the snapshot taken after it, which growth is not checked against.
HandoffStops ==
    /\ LivePosition /\ ~installing[job] /\ ~GrewAfterFreeze
    /\ ReadThen("handoff", 0)
    /\ UNCHANGED <<durable, exchange>>
HandoffGone ==
    /\ Supervising("handoff") /\ seenPos = {}
    /\ Release
    /\ UNCHANGED <<durable, exchange>>
Undisturbed ==
    HandedOff \/ (LivePosition /\ ~installing[job] /\ ~GrewAfterFreeze)

\* Entry TTL with a live position.
ExpireStaleEntries ==
    /\ Undisturbed /\ Expiring
    /\ IF Mine # {} THEN CancelThen(Mine, "expiredLive")
                    ELSE Goto("expiredLive")
    /\ UNCHANGED <<durable, exchange>>
ExpiredLiveContinues ==
    /\ Supervising("expiredLive")
    /\ ~ExpiredClosable /\ (seenPos = {} \/ frozen[job])
    /\ IF seenPos = {} THEN Release ELSE Goto("live")
    /\ UNCHANGED <<durable, exchange>>
NotExpired ==
    /\ Undisturbed /\ ~Expiring
    /\ Goto("live")
    /\ UNCHANGED <<durable, exchange>>

(***************************************************************************)
(* Installing protection and exits: a durable snapshot, exchange work, the *)
(* final save.                                                             *)
(***************************************************************************)
BeginInstall(status, fz, trail) ==
    /\ Save(job, status, fz, FALSE, TRUE, trail, seenPos)
    /\ Goto("install")
Installed ==
    /\ Supervising("install")
    /\ Position(SymbolOf[job]) # {}
    /\ Save(job, IF trailing[job] THEN "PROFIT_PROTECTED" ELSE "OPEN_RISK",
            frozen[job], rebalance[job], FALSE, trailing[job], lastSeen[job])
    /\ Release
InstallRaises ==
    /\ Supervising("install")
    /\ Raise("other")
    /\ UNCHANGED <<durable, exchange>>
\* ExitReplacementPositionChanged: the override saves the row as it was read
\* at the start of the pass.
InstallPositionChanged ==
    /\ Supervising("install")
    /\ Position(SymbolOf[job]) # lastSeen[job]
    /\ Save(job, "MANUAL_OVERRIDE", loaded.frozen, loaded.rebalance,
            loaded.installing, loaded.trailing, loaded.lastSeen)
    /\ Release

(***************************************************************************)
(* Entries still building.                                                 *)
(***************************************************************************)
Building == Supervising("live") /\ ~frozen[job]

\* A fixed exit filled since the last save: cancel the entries, freeze, and
\* reconcile again on the new snapshot.
FixedExitFilled ==
    /\ Building
    /\ ~(lastSeen[job] \subseteq seenPos)
    /\ CancelEntriesThen("fixedExit")
    /\ UNCHANGED <<durable, exchange>>
AfterFixedExit ==
    /\ Supervising("fixedExit")
    /\ IF seenPos = {}
         THEN ReadThen("flat", 0) /\ UNCHANGED <<durable, exchange>>
         ELSE /\ Save(job, sstatus[job], TRUE, rebalance[job],
                      installing[job], trailing[job], seenPos)
              /\ Goto("decide")
\* Profit reached the trailing activation.
Freeze ==
    /\ Building
    /\ CancelEntriesThen("freeze")
    /\ UNCHANGED <<durable, exchange>>
\* Keep accumulating; the first sighting and growth reinstall the structure.
Accumulate ==
    /\ Building /\ ~rebalance[job]
    /\ IF lastSeen[job] = {} \/ ~(seenPos \subseteq lastSeen[job])
         THEN BeginInstall("OPEN_RISK", FALSE, FALSE)
         ELSE SaveSeen(job, "OPEN_RISK") /\ Release

\* Mutant: freeze without confirming that the entries are gone.
FreezeUnconfirmed(l, status) ==
    /\ Supervising(l)
    /\ IF seenPos = {}
         THEN ReadThen("flat", 0) /\ UNCHANGED <<durable, exchange>>
         ELSE \E trail \in BOOLEAN : BeginInstall(status, TRUE, trail)
\* _freeze_entries: two reads without a pending entry, then the snapshot.
FreezeStep(l, status) ==
    /\ Supervising(l)
    /\ IF Mine # {} THEN Raise("other") /\ UNCHANGED <<durable, exchange>>
       ELSE IF polls = 0 THEN ReadThen(l, 1) /\ UNCHANGED <<durable, exchange>>
       ELSE IF seenPos = {}
              THEN ReadThen("flat", 0) /\ UNCHANGED <<durable, exchange>>
       ELSE \E trail \in BOOLEAN : BeginInstall(status, TRUE, trail)
FreezeEntries == FreezeStep("freeze", "OPEN_RISK")
ExpiryFreezeEntries == FreezeStep("expiryFreeze", sstatus[job])

(***************************************************************************)
(* Entries frozen.                                                         *)
(***************************************************************************)
StartRebalance ==
    /\ Supervising("live") /\ frozen[job] /\ rebalance[job]
    /\ ReadThen("rebalance", 0)
    /\ UNCHANGED <<durable, exchange>>
\* _handle_rebalance goes to _close_if_flat without cancelling anything.
Rebalance ==
    /\ Supervising("rebalance")
    /\ IF seenPos = {}
         THEN ReadThen("flat", 0) /\ UNCHANGED <<durable, exchange>>
         ELSE \E trail \in BOOLEAN :
                BeginInstall(sstatus[job], TRUE, trailing[job] \/ trail)
ManageProfit ==
    /\ Supervising("live") /\ frozen[job] /\ ~rebalance[job]
    /\ SaveSeen(job, sstatus[job])
    /\ Release
ActivateTrailing ==
    /\ Supervising("live") /\ frozen[job] /\ ~rebalance[job] /\ ~trailing[job]
    /\ CancelEntriesThen("trail")
    /\ UNCHANGED <<durable, exchange>>
TrailingSet ==
    /\ Supervising("trail")
    /\ IF seenPos = {}
         THEN ReadThen("flat", 0) /\ UNCHANGED <<durable, exchange>>
         ELSE /\ Save(job, "PROFIT_PROTECTED", frozen[job], rebalance[job],
                      installing[job], TRUE, seenPos)
              /\ Release

\* An error ends the pass for this strategy; the next pass starts afresh.
PassFails ==
    /\ Supervising("raise")
    /\ Release
    /\ UNCHANGED <<durable, exchange>>

Supervise ==
    \/ \E i \in Intents : Reconcile(i)
    \/ PositionMissing \/ ExpireWithoutPosition
    \/ ExpiredToFlat \/ ExpiredToFreeze \/ ExpiredFlatContinues
    \/ CloseIfFlat \/ NotFlat
    \/ Override \/ ResumeInstall \/ HandoffStops \/ HandoffGone
    \/ ExpireStaleEntries \/ ExpiredLiveContinues
    \/ NotExpired \/ Installed \/ InstallRaises \/ InstallPositionChanged
    \/ FixedExitFilled \/ AfterFixedExit \/ Freeze \/ Accumulate
    \/ FreezeEntries \/ ExpiryFreezeEntries
    \/ StartRebalance \/ Rebalance \/ ManageProfit \/ ActivateTrailing
    \/ TrailingSet \/ PassFails
=============================================================================
