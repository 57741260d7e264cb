---------------------------- MODULE CustodyProofs ----------------------------
(***************************************************************************)
(* Type correctness of module System, and that a symbol has one owner: on  *)
(* the exchange (OneExposedOwner) and in the store (OneActiveOwner), for   *)
(* any number of intents, symbols and legs.  Then what becomes of entries, *)
(* that the core implements Custody, and which decisions stand.            *)
(*                                                                         *)
(* Neither of these two is inductive.  The first follows one open handler  *)
(* through its three torn account reads: the owner check shows that no     *)
(* other strategy of the symbol is active, the first list of orders that   *)
(* none of theirs rests (and only this handler could submit one while it   *)
(* has the lock), and the list of positions after it that none is held.    *)
(***************************************************************************)
EXTENDS System, TLAPS

(***************************************************************************)
(* Types.                                                                  *)
(***************************************************************************)

\* The lock decides what the job is and where a handler can be, so TypeOK is
\* inductive only together with LockOK.
Subroutines == {"pos", "ord", "entries", "cancelEntries", "cancel"}
LockOK ==
    /\ task = "none" <=> pc = "idle"
    /\ task \in {"open", "supervise"} => job \in Intents
    /\ task = "action" => job \in Actions
    /\ pc \in Subroutines => cont \notin Subroutines \cup {"idle", "raise"}
TypeInv == TypeOK /\ LockOK

\* The initial rows, orders and locals are well typed.
LEMMA InitType == Init => TypeInv
<1> SUFFICES ASSUME Init PROVE TypeInv
  OBVIOUS
<1> USE DEF Init, Untraded
<1>1. /\ intent \in [Intents -> IntentStatus]
      /\ act \in [Actions -> IntentStatus]
      /\ sstatus \in [Intents -> StrategyStatus]
      /\ order \in [Lots -> OrderStatus]
      /\ lastSeen \in [Intents -> SUBSET Lots]
  BY DEF IntentStatus, StrategyStatus, OrderStatus
<1>2. /\ frozen \in [Intents -> BOOLEAN]
      /\ rebalance \in [Intents -> BOOLEAN]
      /\ installing \in [Intents -> BOOLEAN]
      /\ trailing \in [Intents -> BOOLEAN]
      /\ expired \in [Intents -> BOOLEAN]
  OBVIOUS
<1>3. up \in BOOLEAN /\ primaryFilled \in BOOLEAN
  OBVIOUS
<1>4. loaded \in Rows
  BY DEF NoRow, Rows
<1>5. /\ held \in SUBSET Lots
      /\ crashes \in Nat
      /\ task \in Tasks
      /\ job \in Intents \cup Actions \cup {NoJob}
      /\ pc \in Labels /\ cont \in Labels
      /\ seenPos \in SUBSET Lots
      /\ seenOrd \in SUBSET Lots
      /\ sent \in SUBSET Lots
      /\ polls \in Nat
      /\ cause \in Causes
      /\ targets \in SUBSET Intents
  BY DEF Tasks, Labels, Causes
<1>6. LockOK
  BY DEF LockOK, Subroutines
<1> QED
  BY <1>1, <1>2, <1>3, <1>4, <1>5, <1>6 DEF TypeInv, TypeOK

\* Leaving a handler without another effect.
LEMMA ReleaseType ==
    ASSUME TypeInv, Release, UNCHANGED <<durable, exchange>> PROVE TypeInv'
  BY DEF TypeInv, TypeOK, LockOK, Subroutines, Labels, Tasks, Causes, Release,
         Reset, NoRow, Rows, durable, rows, exchange, process

\* A save of the supervised strategy, at the end of the pass or before more.
LEMMA SaveType ==
    ASSUME TypeInv, job \in Intents, task = "supervise", pc # "idle",
           NEW st \in StrategyStatus, NEW fz \in BOOLEAN, NEW rb \in BOOLEAN,
           NEW inst \in BOOLEAN, NEW tr \in BOOLEAN, NEW seen \in SUBSET Lots,
           Save(job, st, fz, rb, inst, tr, seen),
           Release \/ Goto("install") \/ Goto("decide")
    PROVE  TypeInv'
<1> USE DEF TypeInv, TypeOK, Save, exchange, process
<1>1. CASE Release
  BY <1>1 DEF LockOK, Subroutines, Labels, Tasks, Causes, Release, Reset,
     NoRow, Rows
<1>2. CASE Goto("install") \/ Goto("decide")
  BY <1>2 DEF LockOK, Subroutines, Labels, Goto, Holding
<1> QED
  BY <1>1, <1>2

\* Saving the installation snapshot.
LEMMA BeginInstallType ==
    ASSUME TypeInv, task = "supervise", pc # "idle", job \in Intents,
           NEW st \in StrategyStatus, NEW fz \in BOOLEAN, NEW tr \in BOOLEAN,
           BeginInstall(st, fz, tr)
    PROVE  TypeInv'
<1>1. seenPos \in SUBSET Lots
  BY DEF TypeInv, TypeOK
<1> QED
  BY <1>1, SaveType DEF BeginInstall

\* Freezing the entries, from either caller.
LEMMA FreezeStepType ==
    ASSUME TypeInv, NEW l \in {"freeze", "expiryFreeze"},
           NEW st \in {"OPEN_RISK", sstatus[job]}, FreezeStep(l, st)
    PROVE  TypeInv'
<1> USE DEF FreezeStep, Supervising
<1>1. job \in Intents /\ task = "supervise" /\ pc # "idle"
  BY DEF TypeInv, LockOK
<1>2. st \in StrategyStatus
  BY <1>1 DEF TypeInv, TypeOK, StrategyStatus, Active, Managed
<1>3. CASE Mine # {}
  BY <1>1, <1>3 DEF TypeInv, TypeOK, LockOK, Subroutines, Labels, Causes,
     Raise, Holding, durable, rows, exchange, process
<1>4. CASE Mine = {} /\ polls = 0
  BY <1>1, <1>4 DEF TypeInv, TypeOK, LockOK, Subroutines, Labels,
     ReadThen, Holding, durable, rows, exchange, process
<1>6. CASE Mine = {} /\ polls # 0 /\ seenPos = {}
  BY <1>1, <1>6 DEF TypeInv, TypeOK, LockOK, Subroutines, Labels,
     ReadThen, Holding, durable, rows, exchange, process
<1>5. CASE Mine = {} /\ polls # 0 /\ seenPos # {}
  <2>1. PICK trail \in BOOLEAN : BeginInstall(st, TRUE, trail)
    BY <1>5
  <2> QED
    BY <1>1, <1>2, <2>1, BeginInstallType
<1> QED
  BY <1>3, <1>4, <1>5, <1>6

\* The rows a withdrawal writes.
WithdrawnType ==
    /\ intent \in [Intents -> IntentStatus]
    /\ sstatus \in [Intents -> StrategyStatus]
    /\ frozen \in [Intents -> BOOLEAN]
    /\ rebalance \in [Intents -> BOOLEAN]
LEMMA WithdrawRowsType ==
    ASSUME TypeOK, NEW closing \in BOOLEAN, WithdrawRows(closing)
    PROVE  /\ WithdrawnType'
           /\ UNCHANGED <<installing, trailing, lastSeen, order, held, expired>>
<1> USE DEF TypeOK, WithdrawRows, exchange, WithdrawnType
<1>1. intent' \in [Intents -> IntentStatus]
  BY DEF IntentStatus
<1>2. sstatus' \in [Intents -> StrategyStatus]
  BY DEF StrategyStatus
<1>3. frozen' \in [Intents -> BOOLEAN]
  OBVIOUS
<1>4. rebalance' \in [Intents -> BOOLEAN]
  OBVIOUS
<1> QED
  BY <1>1, <1>2, <1>3, <1>4

\* Steps of account reads and cancellations preserve the types.
LEMMA ExchangeCallType == ASSUME TypeInv, ExchangeCall PROVE TypeInv'
<1> USE AccountAssumption DEF TypeInv, TypeOK, LockOK, Subroutines, Labels,
    Causes, Tasks, IntentStatus, StrategyStatus, Active, Managed, OrderStatus,
    Rows, NoRow, Holding, Goto, Raise, ReadThen, CancelThen,
    CancelEntriesThen, Acquire, Reset, Release, durable, exchange, process,
    rows, locals, Opening, Acting, Supervising, Lots
<1>1. CASE ReadPositions
  BY <1>1 DEF JobSymbol, Position, ReadPositions
<1>2. CASE ReadOrders
  BY <1>2 DEF Live, JobSymbol, LiveEntries, ReadOrders
<1>3. CASE ReadRaises
  BY <1>3 DEF ReadRaises
<1>4. CASE ListEntries
  BY <1>4 DEF Live, JobSymbol, LiveEntries, ListEntries
<1>5. ASSUME NEW x \in Lots, CancelOne(x) PROVE TypeInv'
  BY <1>5 DEF Live, CancelOne
<1>6. CASE CancelRaises
  BY <1>6 DEF CancelRaises
<1>7. CASE CancelledAll
  BY <1>7 DEF CancelledAll
<1>8. CASE EntriesGone
  BY <1>8 DEF EntriesGone
<1>9. CASE EntriesListAgain
  BY <1>9 DEF EntriesListAgain
<1>10. CASE EntriesStillActive
  BY <1>10 DEF EntriesStillActive
<1> HIDE DEF TypeInv, Causes, Lots
<1> QED
  BY <1>1, <1>2, <1>3, <1>4, <1>5, <1>6, <1>7, <1>8, <1>9, <1>10 DEF
      ExchangeCall

\* Steps of opening an intent preserve the types.
LEMMA OpenType == ASSUME TypeInv, Open PROVE TypeInv'
<1> USE AccountAssumption DEF TypeInv, TypeOK, LockOK, Subroutines, Labels,
    Causes, Tasks, IntentStatus, StrategyStatus, Active, Managed, OrderStatus,
    Rows, NoRow, Holding, Goto, Raise, ReadThen, CancelThen,
    CancelEntriesThen, Acquire, Reset, Release, durable, exchange, process,
    rows, locals, Opening, Acting, Supervising, Lots
<1>1. ASSUME NEW i \in Intents, ClaimIntent(i) PROVE TypeInv'
  BY <1>1 DEF ClaimIntent
<1>2. CASE CheckOwner
  BY <1>2 DEF SymbolOwned, CheckOwner
<1>3. CASE PreflightFlat
  BY <1>3 DEF FlatSnapshot, PreflightFlat
<1>4. CASE PreflightRefuses
  BY <1>4 DEF PreflightRefuses
<1>5. CASE CreateStrategy
  BY <1>5 DEF FlatSnapshot, CreateStrategy
<1>6. CASE Prepare
  BY <1>6 DEF Prepare
<1>7. CASE Revalidate
  BY <1>7 DEF FlatSnapshot, Revalidate
<1>8. CASE RevalidateRaises
  BY <1>8 DEF RevalidateRaises
<1>9. ASSUME NEW c \in Causes, PrepareRaises(c) PROVE TypeInv'
  BY <1>9 DEF PrepareRaises
<1>10. ASSUME NEW c \in Causes, RebaseRaises(c) PROVE TypeInv'
  BY <1>10 DEF RebaseRaises
<1>11. ASSUME NEW accepted \in BOOLEAN, NEW acked \in BOOLEAN,
    SubmitPrimary(accepted, acked) PROVE TypeInv'
  BY <1>11 DEF SubmitPrimary
<1>12. CASE PrimaryFills
  BY <1>12 DEF PrimaryFills
<1>13. CASE PrimaryUnconfirmed
  BY <1>13 DEF PrimaryUnconfirmed
<1>14. CASE Rebase
  BY <1>14 DEF Rebase
<1>15. ASSUME NEW accepted \in SUBSET Legs, NEW acked \in BOOLEAN,
    SubmitBatch(accepted, acked) PROVE TypeInv'
  BY <1>15 DEF BatchLegs, SubmitBatch
<1>16. ASSUME NEW reached \in SUBSET Lots, Rollback(reached) PROVE TypeInv'
  BY <1>16 DEF Live, Own, BatchLegs, Rollback
<1>17. CASE MarkExecuted
  BY <1>17 DEF MarkExecuted
<1>18. CASE MarkExecutedRaises
  BY <1>18 DEF MarkExecutedRaises
<1>19. CASE RecordEntryFailure
  BY <1>19 DEF FailureStatus, RecordEntryFailure
<1>20. CASE HandlerAborts
  BY <1>20 DEF HandlerAborts
<1> HIDE DEF TypeInv, Causes, Lots
<1> QED
  BY <1>1, <1>2, <1>3, <1>4, <1>5, <1>6, <1>7, <1>8, <1>9, <1>10, <1>11,
      <1>12, <1>13, <1>14, <1>15, <1>16, <1>17, <1>18, <1>19, <1>20 DEF Open

\* Steps of CLOSE and REDUCE preserve the types.
LEMMA ReduceType == ASSUME TypeInv, Reduce PROVE TypeInv'
<1> USE AccountAssumption DEF TypeInv, TypeOK, LockOK, Subroutines, Labels,
    Causes, Tasks, IntentStatus, StrategyStatus, Active, Managed, OrderStatus,
    Rows, NoRow, Holding, Goto, Raise, ReadThen, CancelThen,
    CancelEntriesThen, Acquire, Reset, Release, durable, exchange, process,
    rows, locals, Opening, Acting, Supervising, Lots
<1>1. ASSUME NEW a \in Actions, NEW tooOld \in BOOLEAN, ClaimAction(a, tooOld)
    PROVE TypeInv'
  BY <1>1 DEF ClaimAction
<1>2. CASE StaleFails
  BY <1>2 DEF StaleFails
<1>3. CASE ValidateExposure
  BY <1>3 DEF Position, ValidateExposure
<1>4. CASE ValidateRaises
  BY <1>4 DEF ValidateRaises
<1>5. CASE Reread
  BY <1>5 DEF Reread
<1>6. CASE RereadRaises
  BY <1>6 DEF RereadRaises
<1>7. ASSUME NEW R \in SUBSET Lots, SubmitReduction(R) PROVE TypeInv'
  BY <1>7 DEF Position, Reduction, SubmitReduction
<1>8. ASSUME NEW R \in SUBSET Lots, SubmitReductionUnknown(R) PROVE TypeInv'
  BY <1>8 DEF Position, Reduction, SubmitReductionUnknown
<1>9. CASE SubmitReductionRefused
  BY <1>9 DEF SubmitReductionRefused
<1>10. CASE Confirm
  BY <1>10 DEF Position, Confirm
<1>11. CASE ConfirmRaises
  BY <1>11 DEF ConfirmRaises
<1>12. CASE CompleteClose
  BY <1>12 DEF ClosingStrategies, CompleteClose
<1>13. CASE CompleteReduce
  BY <1>13 DEF CompleteReduce
<1>14. CASE CompleteRaises
  BY <1>14 DEF CompleteRaises
<1>15. CASE ActionFails
  BY <1>15 DEF Quarantined, ActionFails
<1> HIDE DEF TypeInv, Causes, Lots
<1> QED
  BY <1>1, <1>2, <1>3, <1>4, <1>5, <1>6, <1>7, <1>8, <1>9, <1>10, <1>11,
      <1>12, <1>13, <1>14, <1>15 DEF Reduce

\* Steps of CANCEL_ENTRIES preserve the types.
LEMMA CancelEntriesType == ASSUME TypeInv, CancelEntries PROVE TypeInv'
<1> USE AccountAssumption DEF TypeInv, TypeOK, LockOK, Subroutines, Labels,
    Causes, Tasks, IntentStatus, StrategyStatus, Active, Managed, OrderStatus,
    Rows, NoRow, Holding, Goto, Raise, ReadThen, CancelThen,
    CancelEntriesThen, Acquire, Reset, Release, durable, exchange, process,
    rows, locals, Opening, Acting, Supervising, Lots
<1>1. CASE ResolveTargets
  BY <1>1 DEF EntryCancellationTargets, ResolveTargets
<1>2. CASE NoTargets
  BY <1>2 DEF EntryCancellationTargets, NoTargets
<1>3. CASE Withdraw
  <2>1. WithdrawRows(FALSE) /\ TypeOK /\ (FALSE) \in BOOLEAN
    BY <1>3 DEF Withdraw
  <2>2. /\ WithdrawnType'
        /\ UNCHANGED <<installing, trailing, lastSeen, order, held, expired>>
    <3> HIDE DEF TypeOK
    <3> QED
      BY <2>1, WithdrawRowsType
  <2> QED
    BY <1>3, <2>2 DEF Withdraw, WithdrawnType
<1>4. CASE WithdrawRaises
  BY <1>4 DEF WithdrawRaises
<1>5. CASE WithdrawCancel
  BY <1>5 DEF OwnedByTargets, WithdrawCancel
<1>6. CASE WithdrawPolled
  BY <1>6 DEF OwnedByTargets, WithdrawPolled
<1>7. CASE WithdrawCompletes
  <2>1. WithdrawRows(seenPos = {}) /\ TypeOK /\ (seenPos = {}) \in BOOLEAN
    BY <1>7 DEF WithdrawCompletes
  <2>2. /\ WithdrawnType'
        /\ UNCHANGED <<installing, trailing, lastSeen, order, held, expired>>
    <3> HIDE DEF TypeOK
    <3> QED
      BY <2>1, WithdrawRowsType
  <2> QED
    BY <1>7, <2>2 DEF WithdrawCompletes, WithdrawnType
<1>8. CASE WithdrawFails
  <2>1. WithdrawRows(FALSE) /\ TypeOK /\ (FALSE) \in BOOLEAN
    BY <1>8 DEF WithdrawFails
  <2>2. /\ WithdrawnType'
        /\ UNCHANGED <<installing, trailing, lastSeen, order, held, expired>>
    <3> HIDE DEF TypeOK
    <3> QED
      BY <2>1, WithdrawRowsType
  <2> QED
    BY <1>8, <2>2 DEF WithdrawFails, WithdrawnType
<1> HIDE DEF TypeInv, Causes, Lots
<1> QED
  BY <1>1, <1>2, <1>3, <1>4, <1>5, <1>6, <1>7, <1>8 DEF CancelEntries

\* Steps of the supervision pass preserve the types.
LEMMA SuperviseType == ASSUME TypeInv, Supervise PROVE TypeInv'
<1> USE AccountAssumption DEF TypeInv, TypeOK, LockOK, Subroutines, Labels,
    Causes, Tasks, IntentStatus, StrategyStatus, Active, Managed, OrderStatus,
    Rows, NoRow, Holding, Goto, Raise, ReadThen, CancelThen,
    CancelEntriesThen, Acquire, Reset, Release, durable, exchange, process,
    rows, locals, Opening, Acting, Supervising, Lots
<1>1. ASSUME NEW i \in Intents, Reconcile(i) PROVE TypeInv'
  BY <1>1 DEF Row, Reconcile
<1>2. CASE PositionMissing
  <2>1. CASE lastSeen[job] # {} \/ sstatus[job] = "CLOSING"
    BY <1>2, <2>1 DEF PositionMissing, Deciding, MissingPosition, Mine
  <2>2. CASE ~(lastSeen[job] # {} \/ sstatus[job] = "CLOSING")
    <3> HIDE DEF Release, CancelThen, durable, exchange
    <3>1. Release /\ UNCHANGED <<durable, exchange>>
      BY <1>2, <2>2 DEF PositionMissing, MissingPosition
    <3> HIDE DEF TypeInv
    <3> QED
      BY <3>1, ReleaseType
  <2> HIDE DEF TypeInv
  <2> QED
    BY <2>1, <2>2
<1>3. CASE ExpireWithoutPosition
  BY <1>3 DEF Mine, Expiring, Deciding, ExpireWithoutPosition
<1>4. CASE ExpiredToFlat
  BY <1>4 DEF Mine, ExpiredClosable, ExpiredToFlat
<1>5. CASE ExpiredToFreeze
  BY <1>5 DEF ExpiredToFreeze
<1>6. CASE ExpiredFlatContinues
  <2>1. CASE lastSeen[job] # {} \/ sstatus[job] = "CLOSING"
    BY <1>6, <2>1 DEF ExpiredFlatContinues, MissingPosition, Mine
  <2>2. CASE ~(lastSeen[job] # {} \/ sstatus[job] = "CLOSING")
    <3> HIDE DEF Release, CancelThen, durable, exchange
    <3>1. Release /\ UNCHANGED <<durable, exchange>>
      BY <1>6, <2>2 DEF ExpiredFlatContinues, MissingPosition
    <3> HIDE DEF TypeInv
    <3> QED
      BY <3>1, ReleaseType
  <2> HIDE DEF TypeInv
  <2> QED
    BY <2>1, <2>2
<1>7. CASE CloseIfFlat
  BY <1>7 DEF Save, SaveStatus, Mine, CloseIfFlat
<1>8. CASE NotFlat
  BY <1>8 DEF Mine, NotFlat
<1>9. CASE Override
  BY <1>9 DEF Save, SaveStatus, Deciding, LivePosition, HandedOff, Override
<1>10. CASE ResumeInstall
  BY <1>10 DEF Save, Deciding, LivePosition, ResumeInstall
<1>11. CASE HandoffStops
  BY <1>11 DEF Deciding, LivePosition, GrewAfterFreeze, HandoffStops
<1>12. CASE HandoffGone
  BY <1>12 DEF HandoffGone
<1>13. CASE ExpireStaleEntries
  BY <1>13 DEF Mine, Expiring, Deciding, LivePosition, HandedOff,
      GrewAfterFreeze, Undisturbed, ExpireStaleEntries
<1>14. CASE ExpiredLiveContinues
  <2>1. CASE seenPos = {}
    <3> HIDE DEF TypeInv, Release, Goto, durable, exchange
    <3>1. Release /\ UNCHANGED <<durable, exchange>>
      BY <1>14, <2>1 DEF ExpiredLiveContinues
    <3> QED
      BY <3>1, ReleaseType
  <2>2. CASE seenPos # {}
    BY <1>14, <2>2 DEF ExpiredLiveContinues
  <2> HIDE DEF TypeInv
  <2> QED
    BY <2>1, <2>2
<1>15. CASE NotExpired
  BY <1>15 DEF Expiring, Deciding, LivePosition, HandedOff, GrewAfterFreeze,
      Undisturbed, NotExpired
<1>16. CASE Installed
  BY <1>16 DEF Position, Save, Installed
<1>17. CASE InstallRaises
  BY <1>17 DEF InstallRaises
<1>18. CASE InstallPositionChanged
  BY <1>18 DEF Position, Save, InstallPositionChanged
<1>19. CASE FixedExitFilled
  BY <1>19 DEF Building, FixedExitFilled
<1>20. CASE AfterFixedExit
  <2>1. CASE seenPos = {}
    BY <1>20, <2>1 DEF AfterFixedExit
  <2>2. CASE seenPos # {}
    <3>1. /\ job \in Intents /\ seenPos \in SUBSET Lots
          /\ task = "supervise" /\ pc # "idle"
      BY <1>20 DEF AfterFixedExit
    <3>2. Save(job, sstatus[job], TRUE, rebalance[job], installing[job],
               trailing[job], seenPos) /\ Goto("decide")
      <4> HIDE DEF ReadThen, Goto, durable, exchange
      <4> QED
        BY <1>20, <2>2 DEF AfterFixedExit
    <3> QED
      BY <3>1, <3>2 DEF Save
  <2> HIDE DEF TypeInv
  <2> QED
    BY <2>1, <2>2
<1>21. CASE Freeze
  BY <1>21 DEF Building, Freeze
<1>22. CASE Accumulate
  <2>1. /\ job \in Intents /\ seenPos \in SUBSET Lots
        /\ task = "supervise" /\ pc # "idle" /\ "OPEN_RISK" \in StrategyStatus
        /\ frozen[job] \in BOOLEAN /\ rebalance[job] \in BOOLEAN
        /\ installing[job] \in BOOLEAN /\ trailing[job] \in BOOLEAN
    BY <1>22 DEF Accumulate, Building
  <2> HIDE DEF TypeInv, Release, StrategyStatus, Supervising
  <2>2. CASE lastSeen[job] = {} \/ ~(seenPos \subseteq lastSeen[job])
    BY <1>22, <2>1, <2>2, BeginInstallType DEF Accumulate
  <2>3. CASE ~(lastSeen[job] = {} \/ ~(seenPos \subseteq lastSeen[job]))
    BY <1>22, <2>1, <2>3, SaveType DEF Accumulate, SaveSeen
  <2> QED
    BY <2>2, <2>3
<1>23. CASE FreezeEntries
  BY <1>23, FreezeStepType DEF FreezeEntries
<1>24. CASE ExpiryFreezeEntries
  BY <1>24, FreezeStepType DEF ExpiryFreezeEntries
<1>25. CASE StartRebalance
  BY <1>25 DEF StartRebalance
<1>26. CASE Rebalance
  <2>1. CASE seenPos = {}
    BY <1>26, <2>1 DEF Rebalance
  <2>2. ASSUME seenPos # {}, NEW trail \in BOOLEAN,
               BeginInstall(sstatus[job], TRUE, trailing[job] \/ trail)
        PROVE  TypeInv'
    <3>1. job \in Intents
      BY <1>26 DEF Rebalance
    <3>2. (trailing[job] \/ trail) \in BOOLEAN
      OBVIOUS
    <3> QED
      BY <1>26, <2>2, <3>1, <3>2, BeginInstallType DEF Rebalance
  <2> HIDE DEF TypeInv
  <2> QED
    BY <1>26, <2>1, <2>2 DEF Rebalance
<1>27. CASE ManageProfit
  BY <1>27 DEF Save, SaveSeen, ManageProfit
<1>28. CASE ActivateTrailing
  BY <1>28 DEF ActivateTrailing
<1>29. CASE TrailingSet
  <2>1. CASE seenPos = {}
    BY <1>29, <2>1 DEF TrailingSet
  <2>2. CASE seenPos # {}
    <3>1. /\ job \in Intents /\ seenPos \in SUBSET Lots
          /\ task = "supervise" /\ pc # "idle"
      BY <1>29 DEF TrailingSet
    <3>2. Save(job, "PROFIT_PROTECTED", frozen[job], rebalance[job],
               installing[job], TRUE, seenPos) /\ Release
      <4> HIDE DEF ReadThen, Release, durable, exchange
      <4> QED
        BY <1>29, <2>2 DEF TrailingSet
    <3> QED
      BY <3>1, <3>2 DEF Save
  <2> HIDE DEF TypeInv
  <2> QED
    BY <2>1, <2>2
<1>30. CASE PassFails
  BY <1>30 DEF PassFails
<1> HIDE DEF TypeInv, Causes, Lots
<1> QED
  BY <1>1, <1>2, <1>3, <1>4, <1>5, <1>6, <1>7, <1>8, <1>9, <1>10, <1>11,
      <1>12, <1>13, <1>14, <1>15, <1>16, <1>17, <1>18, <1>19, <1>20, <1>21,
      <1>22, <1>23, <1>24, <1>25, <1>26, <1>27, <1>28, <1>29, <1>30 DEF
      Supervise

\* Steps of the exchange and the clock preserve the types.
LEMMA EnvironmentType == ASSUME TypeInv, Environment PROVE TypeInv'
<1> USE AccountAssumption DEF TypeInv, TypeOK, LockOK, Subroutines, Labels,
    Causes, Tasks, IntentStatus, StrategyStatus, Active, Managed, OrderStatus,
    Rows, NoRow, Holding, Goto, Raise, ReadThen, CancelThen,
    CancelEntriesThen, Acquire, Reset, Release, durable, exchange, process,
    rows, locals, Opening, Acting, Supervising, Lots
<1>1. ASSUME NEW x \in Lots, FillEntry(x) PROVE TypeInv'
  BY <1>1 DEF Live, FillEntry
<1>2. ASSUME NEW x \in Lots, OrderEnds(x) PROVE TypeInv'
  BY <1>2 DEF Live, OrderEnds
<1>3. ASSUME NEW x \in Lots, ExitFills(x) PROVE TypeInv'
  BY <1>3 DEF ExitFills
<1>4. ASSUME NEW s \in Symbols, StopOut(s) PROVE TypeInv'
  BY <1>4 DEF Position, StopOut
<1>5. ASSUME NEW i \in Intents, TtlPasses(i) PROVE TypeInv'
  BY <1>5 DEF TtlPasses
<1> HIDE DEF TypeInv, Causes, Lots
<1> QED
  BY <1>1, <1>2, <1>3, <1>4, <1>5 DEF Environment

\* Steps of the approver preserve the types.
LEMMA ApproverType == ASSUME TypeInv, Approver PROVE TypeInv'
<1> USE AccountAssumption DEF TypeInv, TypeOK, LockOK, Subroutines, Labels,
    Causes, Tasks, IntentStatus, StrategyStatus, Active, Managed, OrderStatus,
    Rows, NoRow, Holding, Goto, Raise, ReadThen, CancelThen,
    CancelEntriesThen, Acquire, Reset, Release, durable, exchange, process,
    rows, locals, Opening, Acting, Supervising, Lots
<1>1. ASSUME NEW i \in Intents, SkipIntent(i) PROVE TypeInv'
  BY <1>1 DEF SkipIntent
<1>2. ASSUME NEW a \in Actions, SkipAction(a) PROVE TypeInv'
  BY <1>2 DEF SkipAction
<1> HIDE DEF TypeInv, Causes, Lots
<1> QED
  BY <1>1, <1>2 DEF Approver

\* The process dies or comes back.
LEMMA ProcessType == ASSUME TypeInv, Crash \/ Restart PROVE TypeInv'
<1>1. CASE Crash
  <2>1. up' \in BOOLEAN /\ primaryFilled' \in BOOLEAN
    BY <1>1 DEF Crash, Reset
  <2>2. loaded' \in Rows
    BY <1>1 DEF Crash, Reset, NoRow, Rows
  <2> QED
    BY <1>1, <2>1, <2>2 DEF Crash, Reset, TypeInv, TypeOK, LockOK,
       Subroutines, Labels, Causes, Tasks, durable, rows, exchange
<1>2. CASE Restart
  BY <1>2 DEF Restart, TypeInv, TypeOK, LockOK, Quarantined, IntentStatus,
     StrategyStatus, Active, rows, exchange, locals
<1> QED
  BY <1>1, <1>2

\* One step, or none, preserves the types.
LEMMA NextType == TypeInv /\ [Next]_vars => TypeInv'
<1> SUFFICES ASSUME TypeInv, [Next]_vars PROVE TypeInv'
  OBVIOUS
<1>1. CASE Next
  BY <1>1, ExchangeCallType, OpenType, ReduceType, CancelEntriesType,
     SuperviseType, EnvironmentType, ApproverType, ProcessType
     DEF Next, Handler
<1>2. CASE UNCHANGED vars
  BY <1>2 DEF vars, durable, rows, exchange, process, locals, TypeInv,
     TypeOK, LockOK
<1> QED
  BY <1>1, <1>2

\* TypeInv is an invariant.
LEMMA TypeInvariance == Spec => []TypeInv
  BY InitType, NextType, PTL DEF Spec

\* Type correctness: whichever handler runs and wherever the process dies, every
\* row, order and local stays in its domain and a claimed job is what its
\* handler takes it for.
THEOREM TypeCorrect == Spec => []TypeOK
<1>1. TypeInv => TypeOK
  BY DEF TypeInv
<1> QED
  BY <1>1, TypeInvariance, PTL

(***************************************************************************)
(* Owners.                                                                 *)
(***************************************************************************)

Reading(S) == pc \in S \/ (pc \in {"pos", "ord"} /\ cont \in S)
OpenLabels == {"owner", "open1", "open2", "prepare", "open3", "primary",
               "wait", "rebase", "batch", "rollback", "mark", "raise"}
Unplanned == {"owner", "open1", "open2"}
Planned == {"prepare", "open3", "primary", "wait", "rebase", "batch"}

\* The lots other strategies have on the symbol being opened.
Others == {x \in Lots : x[1] # job /\ SymbolOf[x[1]] = SymbolOf[job]}

\* An intent nobody claimed has neither strategy nor orders.
PendingIsFresh ==
    \A i \in Intents : intent[i] = "PENDING"
        => sstatus[i] = "none" /\ \A l \in Legs : order[<<i, l>>] = "none"
\* The claim and the strategy row of the intent being opened.
OpenClaim ==
    task = "open" =>
        /\ intent[job] = "EXECUTING"
        /\ Reading(OpenLabels)
        /\ Reading(Unplanned) => sstatus[job] = "none"
        /\ sstatus[job] \in {"none", "ENTERING"}
        /\ Reading({"open1", "open2"})
             => \A j \in Intents : SymbolOf[j] = SymbolOf[job]
                                     => sstatus[j] \notin Active
\* From the first clean list of orders on, no other entry rests.
OthersRestNothing ==
    task = "open" /\ (\/ pc = "open1" /\ seenOrd = {}
                      \/ Reading({"open2"} \cup Planned))
        => \A x \in Others : order[x] \notin Live
\* From the next clean list of positions on, nothing of theirs is exposed.
OthersExposeNothing ==
    task = "open" /\ (\/ pc = "ord" /\ cont = "open2" /\ seenPos = {}
                      \/ pc = "open2" /\ seenPos = {}
                      \/ Reading(Planned))
        => \A x \in Others : ~Exposed(x)
\* The supervisor works on a managed strategy.
SupervisedIsManaged == task = "supervise" => sstatus[job] \in Managed

\* Nobody holds the lock of a process that is down.
DownIsIdle == ~up => task = "none"

OwnershipInv ==
    /\ DownIsIdle
    /\ PendingIsFresh /\ OpenClaim /\ OthersRestNothing /\ OthersExposeNothing
    /\ SupervisedIsManaged /\ OneActiveOwner /\ OneExposedOwner

\* Nothing is claimed, resting or held at the start.
LEMMA InitOwner == Init => OwnershipInv
  BY AccountAssumption DEF Init, Untraded, OwnershipInv, DownIsIdle, PendingIsFresh,
     OpenClaim,
     OthersRestNothing, OthersExposeNothing, SupervisedIsManaged,
     OneActiveOwner, OneExposedOwner, Exposed, Active, Managed, Live, Lots

\* Steps of account reads and cancellations preserve ownership.
LEMMA ExchangeCallOwner ==
    ASSUME TypeInv, TypeInv', OwnershipInv, ExchangeCall PROVE OwnershipInv'
<1> USE AccountAssumption DEF TypeInv, TypeOK, LockOK, Subroutines,
    OwnershipInv, DownIsIdle, PendingIsFresh, OpenClaim, OthersRestNothing,
    OthersExposeNothing, SupervisedIsManaged, OneActiveOwner, OneExposedOwner,
    Reading, OpenLabels, Unplanned, Planned, Others, Exposed, Active, Managed,
    Live, Holding, Goto, Raise, ReadThen, CancelThen, CancelEntriesThen,
    Acquire, Reset, Release, durable, exchange, process, rows, locals,
    Opening, Acting, Supervising, Lots
<1>1. CASE ReadPositions
  BY <1>1 DEF JobSymbol, Position, ReadPositions
<1>2. CASE ReadOrders
  BY <1>2 DEF JobSymbol, LiveEntries, ReadOrders
<1>3. CASE ReadRaises
  BY <1>3 DEF ReadRaises
<1>4. CASE ListEntries
  BY <1>4 DEF JobSymbol, LiveEntries, ListEntries
<1>5. ASSUME NEW x \in Lots, CancelOne(x) PROVE OwnershipInv'
  BY <1>5 DEF CancelOne
<1>6. CASE CancelRaises
  BY <1>6 DEF CancelRaises
<1>7. CASE CancelledAll
  BY <1>7 DEF CancelledAll
<1>8. CASE EntriesGone
  BY <1>8 DEF EntriesGone
<1>9. CASE EntriesListAgain
  BY <1>9 DEF EntriesListAgain
<1>10. CASE EntriesStillActive
  BY <1>10 DEF EntriesStillActive
<1> HIDE DEF OwnershipInv, TypeInv, Causes, Lots
<1> QED
  BY <1>1, <1>2, <1>3, <1>4, <1>5, <1>6, <1>7, <1>8, <1>9, <1>10 DEF
      ExchangeCall

\* Steps of opening an intent preserve ownership.
LEMMA OpenOwner ==
    ASSUME TypeInv, TypeInv', OwnershipInv, Open PROVE OwnershipInv'
<1> USE AccountAssumption DEF TypeInv, TypeOK, LockOK, Subroutines,
    OwnershipInv, DownIsIdle, PendingIsFresh, OpenClaim, OthersRestNothing,
    OthersExposeNothing, SupervisedIsManaged, OneActiveOwner, OneExposedOwner,
    Reading, OpenLabels, Unplanned, Planned, Others, Exposed, Active, Managed,
    Live, Holding, Goto, Raise, ReadThen, CancelThen, CancelEntriesThen,
    Acquire, Reset, Release, durable, exchange, process, rows, locals,
    Opening, Acting, Supervising, Lots
<1>1. ASSUME NEW i \in Intents, ClaimIntent(i) PROVE OwnershipInv'
  BY <1>1 DEF ClaimIntent
<1>2. CASE CheckOwner
  BY <1>2 DEF SymbolOwned, CheckOwner
<1>3. CASE PreflightFlat
  BY <1>3 DEF FlatSnapshot, PreflightFlat
<1>4. CASE PreflightRefuses
  BY <1>4 DEF PreflightRefuses
<1>5. CASE CreateStrategy
  BY <1>5 DEF FlatSnapshot, CreateStrategy
<1>6. CASE Prepare
  BY <1>6 DEF Prepare
<1>7. CASE Revalidate
  BY <1>7 DEF FlatSnapshot, Revalidate
<1>8. CASE RevalidateRaises
  BY <1>8 DEF RevalidateRaises
<1>9. ASSUME NEW c \in Causes, PrepareRaises(c) PROVE OwnershipInv'
  BY <1>9 DEF PrepareRaises
<1>10. ASSUME NEW c \in Causes, RebaseRaises(c) PROVE OwnershipInv'
  BY <1>10 DEF RebaseRaises
<1>11. ASSUME NEW accepted \in BOOLEAN, NEW acked \in BOOLEAN,
    SubmitPrimary(accepted, acked) PROVE OwnershipInv'
  BY <1>11 DEF SubmitPrimary
<1>12. CASE PrimaryFills
  BY <1>12 DEF PrimaryFills
<1>13. CASE PrimaryUnconfirmed
  BY <1>13 DEF PrimaryUnconfirmed
<1>14. CASE Rebase
  BY <1>14 DEF Rebase
<1>15. ASSUME NEW accepted \in SUBSET Legs, NEW acked \in BOOLEAN,
    SubmitBatch(accepted, acked) PROVE OwnershipInv'
  BY <1>15 DEF BatchLegs, SubmitBatch
<1>16. ASSUME NEW reached \in SUBSET Lots, Rollback(reached) PROVE
    OwnershipInv'
  BY <1>16 DEF Own, BatchLegs, Rollback
<1>17. CASE MarkExecuted
  BY <1>17 DEF MarkExecuted
<1>18. CASE MarkExecutedRaises
  BY <1>18 DEF MarkExecutedRaises
<1>19. CASE RecordEntryFailure
  BY <1>19 DEF FailureStatus, RecordEntryFailure
<1>20. CASE HandlerAborts
  BY <1>20 DEF HandlerAborts
<1> HIDE DEF OwnershipInv, TypeInv, Causes, Lots
<1> QED
  BY <1>1, <1>2, <1>3, <1>4, <1>5, <1>6, <1>7, <1>8, <1>9, <1>10, <1>11,
      <1>12, <1>13, <1>14, <1>15, <1>16, <1>17, <1>18, <1>19, <1>20 DEF Open

\* Steps of CLOSE and REDUCE preserve ownership.
LEMMA ReduceOwner ==
    ASSUME TypeInv, TypeInv', OwnershipInv, Reduce PROVE OwnershipInv'
<1> USE AccountAssumption DEF TypeInv, TypeOK, LockOK, Subroutines,
    OwnershipInv, DownIsIdle, PendingIsFresh, OpenClaim, OthersRestNothing,
    OthersExposeNothing, SupervisedIsManaged, OneActiveOwner, OneExposedOwner,
    Reading, OpenLabels, Unplanned, Planned, Others, Exposed, Active, Managed,
    Live, Holding, Goto, Raise, ReadThen, CancelThen, CancelEntriesThen,
    Acquire, Reset, Release, durable, exchange, process, rows, locals,
    Opening, Acting, Supervising, Lots
<1>1. ASSUME NEW a \in Actions, NEW tooOld \in BOOLEAN, ClaimAction(a, tooOld)
    PROVE OwnershipInv'
  BY <1>1 DEF ClaimAction
<1>2. CASE StaleFails
  BY <1>2 DEF StaleFails
<1>3. CASE ValidateExposure
  BY <1>3 DEF Position, ValidateExposure
<1>4. CASE ValidateRaises
  BY <1>4 DEF ValidateRaises
<1>5. CASE Reread
  BY <1>5 DEF Reread
<1>6. CASE RereadRaises
  BY <1>6 DEF RereadRaises
<1>7. ASSUME NEW R \in SUBSET Lots, SubmitReduction(R) PROVE OwnershipInv'
  BY <1>7 DEF Position, Reduction, SubmitReduction
<1>8. ASSUME NEW R \in SUBSET Lots, SubmitReductionUnknown(R) PROVE
    OwnershipInv'
  BY <1>8 DEF Position, Reduction, SubmitReductionUnknown
<1>9. CASE SubmitReductionRefused
  BY <1>9 DEF SubmitReductionRefused
<1>10. CASE Confirm
  BY <1>10 DEF Position, Confirm
<1>11. CASE ConfirmRaises
  BY <1>11 DEF ConfirmRaises
<1>12. CASE CompleteClose
  BY <1>12 DEF ClosingStrategies, CompleteClose
<1>13. CASE CompleteReduce
  BY <1>13 DEF CompleteReduce
<1>14. CASE CompleteRaises
  BY <1>14 DEF CompleteRaises
<1>15. CASE ActionFails
  BY <1>15 DEF Quarantined, ActionFails
<1> HIDE DEF OwnershipInv, TypeInv, Causes, Lots
<1> QED
  BY <1>1, <1>2, <1>3, <1>4, <1>5, <1>6, <1>7, <1>8, <1>9, <1>10, <1>11,
      <1>12, <1>13, <1>14, <1>15 DEF Reduce

\* Steps of CANCEL_ENTRIES preserve ownership.
LEMMA CancelEntriesOwner ==
    ASSUME TypeInv, TypeInv', OwnershipInv, CancelEntries PROVE OwnershipInv'
<1> USE AccountAssumption DEF TypeInv, TypeOK, LockOK, Subroutines,
    OwnershipInv, DownIsIdle, PendingIsFresh, OpenClaim, OthersRestNothing,
    OthersExposeNothing, SupervisedIsManaged, OneActiveOwner, OneExposedOwner,
    Reading, OpenLabels, Unplanned, Planned, Others, Exposed, Active, Managed,
    Live, Holding, Goto, Raise, ReadThen, CancelThen, CancelEntriesThen,
    Acquire, Reset, Release, durable, exchange, process, rows, locals,
    Opening, Acting, Supervising, Lots
<1>1. CASE ResolveTargets
  BY <1>1 DEF EntryCancellationTargets, ResolveTargets
<1>2. CASE NoTargets
  BY <1>2 DEF EntryCancellationTargets, NoTargets
<1>3. CASE Withdraw
  BY <1>3 DEF WithdrawnIntents, WithdrawRows, Withdraw
<1>4. CASE WithdrawRaises
  BY <1>4 DEF WithdrawRaises
<1>5. CASE WithdrawCancel
  BY <1>5 DEF OwnedByTargets, WithdrawCancel
<1>6. CASE WithdrawPolled
  BY <1>6 DEF OwnedByTargets, WithdrawPolled
<1>7. CASE WithdrawCompletes
  BY <1>7 DEF WithdrawnIntents, WithdrawRows, OwnedByTargets,
      WithdrawCompletes
<1>8. CASE WithdrawFails
  BY <1>8 DEF WithdrawnIntents, WithdrawRows, WithdrawFails
<1> HIDE DEF OwnershipInv, TypeInv, Causes, Lots
<1> QED
  BY <1>1, <1>2, <1>3, <1>4, <1>5, <1>6, <1>7, <1>8 DEF CancelEntries

\* Steps of the supervision pass preserve ownership.
LEMMA SuperviseOwner ==
    ASSUME TypeInv, TypeInv', OwnershipInv, Supervise PROVE OwnershipInv'
<1> USE AccountAssumption DEF TypeInv, TypeOK, LockOK, Subroutines,
    OwnershipInv, DownIsIdle, PendingIsFresh, OpenClaim, OthersRestNothing,
    OthersExposeNothing, SupervisedIsManaged, OneActiveOwner, OneExposedOwner,
    Reading, OpenLabels, Unplanned, Planned, Others, Exposed, Active, Managed,
    Live, Holding, Goto, Raise, ReadThen, CancelThen, CancelEntriesThen,
    Acquire, Reset, Release, durable, exchange, process, rows, locals,
    Opening, Acting, Supervising, Lots
<1>1. ASSUME NEW i \in Intents, Reconcile(i) PROVE OwnershipInv'
  BY <1>1 DEF Row, Reconcile
<1>2. CASE PositionMissing
  BY <1>2 DEF Mine, Expiring, Deciding, MissingPosition, PositionMissing
<1>3. CASE ExpireWithoutPosition
  BY <1>3 DEF Mine, Expiring, Deciding, ExpireWithoutPosition
<1>4. CASE ExpiredToFlat
  BY <1>4 DEF Mine, ExpiredClosable, ExpiredToFlat
<1>5. CASE ExpiredToFreeze
  BY <1>5 DEF ExpiredToFreeze
<1>6. CASE ExpiredFlatContinues
  BY <1>6 DEF Mine, MissingPosition, ExpiredClosable, ExpiredFlatContinues
<1>7. CASE CloseIfFlat
  BY <1>7 DEF Save, SaveStatus, Mine, CloseIfFlat
<1>8. CASE NotFlat
  BY <1>8 DEF Mine, NotFlat
<1>9. CASE Override
  BY <1>9 DEF Save, SaveStatus, Deciding, LivePosition, HandedOff, Override
<1>10. CASE ResumeInstall
  BY <1>10 DEF Save, Deciding, LivePosition, ResumeInstall
<1>11. CASE HandoffStops
  BY <1>11 DEF Deciding, LivePosition, GrewAfterFreeze, HandoffStops
<1>12. CASE HandoffGone
  BY <1>12 DEF HandoffGone
<1>13. CASE ExpireStaleEntries
  BY <1>13 DEF Mine, Expiring, Deciding, LivePosition, HandedOff,
      GrewAfterFreeze, Undisturbed, ExpireStaleEntries
<1>14. CASE ExpiredLiveContinues
  BY <1>14 DEF Mine, ExpiredClosable, ExpiredLiveContinues
<1>15. CASE NotExpired
  BY <1>15 DEF Expiring, Deciding, LivePosition, HandedOff, GrewAfterFreeze,
      Undisturbed, NotExpired
<1>16. CASE Installed
  BY <1>16 DEF Position, Save, Installed
<1>17. CASE InstallRaises
  BY <1>17 DEF InstallRaises
<1>18. CASE InstallPositionChanged
  BY <1>18 DEF Position, Save, InstallPositionChanged
<1>19. CASE FixedExitFilled
  BY <1>19 DEF Building, FixedExitFilled
<1>20. CASE AfterFixedExit
  BY <1>20 DEF Save, AfterFixedExit
<1>21. CASE Freeze
  BY <1>21 DEF Building, Freeze
<1>22. CASE Accumulate
  <2>1. CASE lastSeen[job] = {} \/ ~(seenPos \subseteq lastSeen[job])
    <3> HIDE DEF OwnershipInv, TypeInv, Release
    <3>1. BeginInstall("OPEN_RISK", FALSE, FALSE) /\ Supervising("live")
      BY <1>22, <2>1 DEF Accumulate, Building
    <3> USE DEF OwnershipInv, TypeInv
    <3> QED
      BY <3>1 DEF BeginInstall, Save
  <2>2. CASE ~(lastSeen[job] = {} \/ ~(seenPos \subseteq lastSeen[job]))
    <3> HIDE DEF OwnershipInv, TypeInv, Release
    <3>1. SaveSeen(job, "OPEN_RISK") /\ Release /\ Supervising("live")
      BY <1>22, <2>2 DEF Accumulate, Building
    <3> USE DEF OwnershipInv, TypeInv, Release
    <3> QED
      BY <3>1 DEF SaveSeen, Save
  <2> HIDE DEF OwnershipInv
  <2> QED
    BY <2>1, <2>2
<1>23. CASE FreezeEntries
  <2>1. /\ sstatus' \in {sstatus, [sstatus EXCEPT ![job] = "OPEN_RISK"]}
        /\ UNCHANGED <<intent, order, held, up, task, job>>
        /\ task = "supervise"
    <3> HIDE DEF OwnershipInv, TypeInv
    <3> QED
      BY <1>23 DEF FreezeEntries, FreezeStep, BeginInstall, Save
  <2> QED
    BY <2>1
<1>24. CASE ExpiryFreezeEntries
  <2>1. /\ sstatus' \in {sstatus, [sstatus EXCEPT ![job] = sstatus[job]]}
        /\ UNCHANGED <<intent, order, held, up, task, job>>
        /\ task = "supervise"
    <3> HIDE DEF OwnershipInv, TypeInv
    <3> QED
      BY <1>24 DEF ExpiryFreezeEntries, FreezeStep, BeginInstall, Save
  <2> QED
    BY <2>1
<1>25. CASE StartRebalance
  BY <1>25 DEF StartRebalance
<1>26. CASE Rebalance
  BY <1>26 DEF Save, BeginInstall, Rebalance
<1>27. CASE ManageProfit
  BY <1>27 DEF Save, SaveSeen, ManageProfit
<1>28. CASE ActivateTrailing
  BY <1>28 DEF ActivateTrailing
<1>29. CASE TrailingSet
  BY <1>29 DEF Save, TrailingSet
<1>30. CASE PassFails
  BY <1>30 DEF PassFails
<1> HIDE DEF OwnershipInv, TypeInv, Causes, Lots
<1> QED
  BY <1>1, <1>2, <1>3, <1>4, <1>5, <1>6, <1>7, <1>8, <1>9, <1>10, <1>11,
      <1>12, <1>13, <1>14, <1>15, <1>16, <1>17, <1>18, <1>19, <1>20, <1>21,
      <1>22, <1>23, <1>24, <1>25, <1>26, <1>27, <1>28, <1>29, <1>30 DEF
      Supervise

\* Steps of the exchange and the clock preserve ownership.
LEMMA EnvironmentOwner ==
    ASSUME TypeInv, TypeInv', OwnershipInv, Environment PROVE OwnershipInv'
<1> USE AccountAssumption DEF TypeInv, TypeOK, LockOK, Subroutines,
    OwnershipInv, DownIsIdle, PendingIsFresh, OpenClaim, OthersRestNothing,
    OthersExposeNothing, SupervisedIsManaged, OneActiveOwner, OneExposedOwner,
    Reading, OpenLabels, Unplanned, Planned, Others, Exposed, Active, Managed,
    Live, Holding, Goto, Raise, ReadThen, CancelThen, CancelEntriesThen,
    Acquire, Reset, Release, durable, exchange, process, rows, locals,
    Opening, Acting, Supervising, Lots
<1>1. ASSUME NEW x \in Lots, FillEntry(x) PROVE OwnershipInv'
  BY <1>1 DEF FillEntry
<1>2. ASSUME NEW x \in Lots, OrderEnds(x) PROVE OwnershipInv'
  BY <1>2 DEF OrderEnds
<1>3. ASSUME NEW x \in Lots, ExitFills(x) PROVE OwnershipInv'
  BY <1>3 DEF ExitFills
<1>4. ASSUME NEW s \in Symbols, StopOut(s) PROVE OwnershipInv'
  BY <1>4 DEF Position, StopOut
<1>5. ASSUME NEW i \in Intents, TtlPasses(i) PROVE OwnershipInv'
  BY <1>5 DEF TtlPasses
<1> HIDE DEF OwnershipInv, TypeInv, Causes, Lots
<1> QED
  BY <1>1, <1>2, <1>3, <1>4, <1>5 DEF Environment

\* Steps of the approver preserve ownership.
LEMMA ApproverOwner ==
    ASSUME TypeInv, TypeInv', OwnershipInv, Approver PROVE OwnershipInv'
<1> USE AccountAssumption DEF TypeInv, TypeOK, LockOK, Subroutines,
    OwnershipInv, DownIsIdle, PendingIsFresh, OpenClaim, OthersRestNothing,
    OthersExposeNothing, SupervisedIsManaged, OneActiveOwner, OneExposedOwner,
    Reading, OpenLabels, Unplanned, Planned, Others, Exposed, Active, Managed,
    Live, Holding, Goto, Raise, ReadThen, CancelThen, CancelEntriesThen,
    Acquire, Reset, Release, durable, exchange, process, rows, locals,
    Opening, Acting, Supervising, Lots
<1>1. ASSUME NEW i \in Intents, SkipIntent(i) PROVE OwnershipInv'
  BY <1>1 DEF SkipIntent
<1>2. ASSUME NEW a \in Actions, SkipAction(a) PROVE OwnershipInv'
  BY <1>2 DEF SkipAction
<1> HIDE DEF OwnershipInv, TypeInv, Causes, Lots
<1> QED
  BY <1>1, <1>2 DEF Approver

\* The process dies or comes back: no handler runs, and the quarantine moves a
\* strategy only from one active status to another.
LEMMA ProcessOwner ==
    ASSUME TypeInv, TypeInv', OwnershipInv, Crash \/ Restart
    PROVE  OwnershipInv'
<1>1. CASE Crash
  BY <1>1 DEF Crash, Reset, OwnershipInv, DownIsIdle, PendingIsFresh,
     OpenClaim,
     OthersRestNothing, OthersExposeNothing, SupervisedIsManaged,
     OneActiveOwner, OneExposedOwner, Exposed, durable, rows, exchange
<1>2. CASE Restart
  <2> USE <1>2 DEF Restart, OwnershipInv, exchange, locals
  <2>0. \A i \in Intents : /\ sstatus'[i] \in Active => sstatus[i] \in Active
                           /\ sstatus[i] = "none" => sstatus'[i] = "none"
                           /\ intent'[i] = "PENDING" => intent[i] = "PENDING"
    BY DEF Quarantined, Active, Managed, TypeInv, TypeOK
  <2>1. PendingIsFresh'
    BY <2>0 DEF PendingIsFresh
  <2>2. OneActiveOwner'
    BY <2>0 DEF OneActiveOwner
  <2>3. OneExposedOwner'
    BY DEF OneExposedOwner, Exposed
  <2>4. task = "none"
    BY DEF DownIsIdle
  <2> QED
    BY <2>1, <2>2, <2>3, <2>4 DEF DownIsIdle, OpenClaim, OthersRestNothing,
       OthersExposeNothing, SupervisedIsManaged
<1> QED
  BY <1>1, <1>2

\* One step, or none, preserves ownership.
LEMMA NextOwner ==
    ASSUME TypeInv, TypeInv', OwnershipInv, [Next]_vars PROVE OwnershipInv'
<1>1. CASE Next
  BY <1>1, ExchangeCallOwner, OpenOwner, ReduceOwner, CancelEntriesOwner,
     SuperviseOwner, EnvironmentOwner, ApproverOwner, ProcessOwner
     DEF Next, Handler
<1>2. CASE UNCHANGED vars
  BY <1>2 DEF vars, durable, rows, exchange, process, locals, OwnershipInv,
     PendingIsFresh, OpenClaim, OthersRestNothing, OthersExposeNothing,
     SupervisedIsManaged, OneActiveOwner, OneExposedOwner, Exposed, Reading,
     Others, DownIsIdle
<1> QED
  BY <1>1, <1>2

\* OwnershipInv is an invariant.
LEMMA OwnershipInvariance == Spec => []OwnershipInv
<1>1. TypeInv /\ TypeInv' /\ OwnershipInv /\ [Next]_vars => OwnershipInv'
  BY NextOwner
<1> QED
  BY <1>1, InitOwner, TypeInvariance, PTL DEF Spec

\* The net position and the resting entries of a symbol never mix two
\* strategies, whatever fills, fails or crashes between an open handler's reads.
THEOREM ExposedOwner == Spec => []OneExposedOwner
<1>1. OwnershipInv => OneExposedOwner
  BY DEF OwnershipInv
<1> QED
  BY <1>1, OwnershipInvariance, PTL

\* A symbol has at most one active strategy row, so the supervisor's conflict
\* branch is never reached.
THEOREM ActiveOwner == Spec => []OneActiveOwner
<1>1. OwnershipInv => OneActiveOwner
  BY DEF OwnershipInv
<1> QED
  BY <1>1, OwnershipInvariance, PTL

-----------------------------------------------------------------------------
(***************************************************************************)
(* What happens to entry orders, for any number of intents, actions and    *)
(* legs: none is submitted twice, none rests for a strategy without a row  *)
(* or CLOSED, the coordinator closes only what is empty, and a CLOSE or    *)
(* REDUCE ends every entry of its symbol.                                  *)
(*                                                                         *)
(* The invariant follows what a handler may conclude from its last read:   *)
(* while it holds the lock and does not submit, live entries only become   *)
(* fewer, so a list of orders stays an upper bound on the live ones, and   *)
(* a list of positions taken after an empty list of orders misses no fill. *)
(***************************************************************************)

\* Where the account reads and cancellations of a coordinator handler return.
ReturnsTo ==
    /\ task = "open" /\ pc \in {"pos", "ord"}
         => cont \in {"open1", "open2", "open3"}
    /\ task = "action" =>
         /\ pc \in {"pos", "ord"}
              => cont \in {"reread", "withdrawCancel", "polled", "final"}
         /\ pc \in {"entries", "cancelEntries"} => cont = "reread"
         /\ pc = "cancel" => cont = "polled"
\* Nothing of the intent was submitted yet.
OwnFresh ==
    task = "open" /\ Reading(Unplanned \cup {"prepare", "open3", "primary"})
        => \A l \in Legs : order[<<job, l>>] = "none"
\* Of a staged plan only the primary was.
BatchFresh ==
    task = "open" /\ pc \in {"wait", "rebase", "batch"}
        => \A l \in BatchLegs : order[<<job, l>>] = "none"
Staged ==
    task = "open" => /\ pc \in {"primary", "wait", "rebase"}
                          => job \in MarketIntents
                     /\ pc = "rebase" => primaryFilled
                     /\ Reading(Planned) => sstatus[job] = "ENTERING"
\* A preflight error before the primary fill proves that nothing was submitted.
ProvenPreflight ==
    task = "open" /\ pc = "raise" /\ cause = "preflight" /\ ~primaryFilled
        => \A l \in Legs : order[<<job, l>>] = "none"
HeldIsFilled == \A x \in held : order[x] = "filled"

\* The last list of orders contains every entry of the symbol that is live.
ListIsCurrent ==
    task \in {"action", "supervise"}
    /\ pc \in {"flat", "polled", "final", "withdrawCancel", "cancelEntries"}
        => \A x \in Lots : order[x] \in Live /\ SymbolOf[x[1]] = JobSymbol
                             => x \in seenOrd
WithdrawLabels == {"targets", "withdraw", "withdrawCancel", "polled", "final"}
ActionJob ==
    /\ task # "action" => targets = {}
    /\ task = "action" =>
         /\ targets \subseteq SourceOf[job]
         /\ Reading(WithdrawLabels) \/ pc = "cancel"
              => KindOf[job] = "CANCEL_ENTRIES"
         /\ pc \in {"exposure", "entries", "cancelEntries"}
              => KindOf[job] # "CANCEL_ENTRIES"
\* Between the read that listed none of the targets' entries and the last one.
WithdrawnRestNothing ==
    task = "action" /\ Reading({"final"})
        => \A x \in Lots : x[1] \in targets => order[x] \notin Live
WithdrawnHoldNothing ==
    task = "action" /\ seenPos = {}
    /\ (pc = "final" \/ (pc = "ord" /\ cont = "final"))
        => \A x \in Lots : x[1] \in targets => x \notin held
\* A CLOSE or REDUCE past its cancellation.
ReducedSymbolRestsNothing ==
    task = "action"
    /\ (Reading({"reread"}) \/ pc \in {"reduce", "confirm", "complete"})
        => /\ KindOf[job] # "CANCEL_ENTRIES"
           /\ \A x \in Lots : SymbolOf[x[1]] = ActSymbol[job]
                                => order[x] \notin Live
\* A confirmed CLOSE: the position is gone and nothing can rebuild it.
ConfirmedIsFlat ==
    task = "action" /\ pc = "complete" /\ KindOf[job] = "CLOSE"
        => \A x \in Lots : SymbolOf[x[1]] = ActSymbol[job] => x \notin held
EntryInv ==
    /\ ReturnsTo /\ OwnFresh /\ BatchFresh /\ Staged /\ ProvenPreflight
    /\ HeldIsFilled /\ ListIsCurrent /\ ActionJob
    /\ WithdrawnRestNothing /\ WithdrawnHoldNothing
    /\ ReducedSymbolRestsNothing /\ ConfirmedIsFlat
    /\ ClosedHasNoRestingEntry /\ ClosingIsFlat

\* What a step does not do, as the action properties of module System say it.
SubmitsOnce ==
    \A x \in Lots : order[x] # "none" /\ order'[x] = "open" => order[x] = "open"
ClosesEmpty ==
    \A i \in Intents : task \in {"open", "action"} /\ Closes(i)
        => \A x \in Own(i) : ~Exposed(x)
CompletesWithoutEntries ==
    \A a \in Actions :
        KindOf[a] # "CANCEL_ENTRIES" /\ act[a] # "EXECUTED"
        /\ act'[a] = "EXECUTED" => LiveEntries(ActSymbol[a]) = {}
EntryStep == SubmitsOnce /\ ClosesEmpty /\ CompletesWithoutEntries
EntryGoal == EntryInv' /\ EntryStep

\* No entry exists and no handler runs at the start.
LEMMA InitEntry == Init => EntryInv
  BY AccountAssumption DEF Init, Untraded, EntryInv, ReturnsTo, OwnFresh, BatchFresh,
     Staged, ProvenPreflight, HeldIsFilled, ListIsCurrent, ActionJob,
     WithdrawnRestNothing, WithdrawnHoldNothing, ReducedSymbolRestsNothing,
     ConfirmedIsFlat, ClosedHasNoRestingEntry, ClosingIsFlat, Exposed, Live

\* Steps of account reads and cancellations preserve EntryInv and take entry-safe steps.
LEMMA ExchangeCallEntry ==
    ASSUME TypeInv, TypeInv', OwnershipInv, EntryInv, ExchangeCall PROVE EntryGoal
<1> USE AccountAssumption DEF TypeInv, TypeOK, LockOK, Subroutines,
    OwnershipInv, OpenClaim, SupervisedIsManaged, EntryInv, ReturnsTo,
    OwnFresh, BatchFresh, Staged, ProvenPreflight, HeldIsFilled,
    ListIsCurrent, ActionJob, WithdrawnRestNothing, WithdrawnHoldNothing,
    ReducedSymbolRestsNothing, ConfirmedIsFlat, ClosedHasNoRestingEntry,
    ClosingIsFlat, EntryGoal, EntryStep, SubmitsOnce, ClosesEmpty,
    CompletesWithoutEntries, Closes, Own, LiveEntries, Reading, OpenLabels,
    Unplanned, Planned, WithdrawLabels, JobSymbol, BatchLegs, Position,
    Exposed, Active, Managed, Live, Holding, Goto, Raise, ReadThen,
    CancelThen, CancelEntriesThen, Acquire, Reset, Release, durable, exchange,
    process, rows, locals, Opening, Acting, Supervising, Lots
<1>1. CASE ReadPositions
  BY <1>1 DEF ReadPositions
<1>2. CASE ReadOrders
  BY <1>2 DEF ReadOrders
<1>3. CASE ReadRaises
  BY <1>3 DEF ReadRaises
<1>4. CASE ListEntries
  BY <1>4 DEF ListEntries
<1>5. ASSUME NEW x \in Lots, CancelOne(x) PROVE EntryGoal
  BY <1>5 DEF CancelOne
<1>6. CASE CancelRaises
  BY <1>6 DEF CancelRaises
<1>7. CASE CancelledAll
  BY <1>7 DEF CancelledAll
<1>8. CASE EntriesGone
  BY <1>8 DEF EntriesGone
<1>9. CASE EntriesListAgain
  BY <1>9 DEF EntriesListAgain
<1>10. CASE EntriesStillActive
  BY <1>10 DEF EntriesStillActive
<1> HIDE DEF EntryGoal, EntryInv, OwnershipInv, TypeInv, Causes, Lots
<1> QED
  BY <1>1, <1>2, <1>3, <1>4, <1>5, <1>6, <1>7, <1>8, <1>9, <1>10 DEF
      ExchangeCall

\* Steps of opening an intent preserve EntryInv and take entry-safe steps.
LEMMA OpenEntry ==
    ASSUME TypeInv, TypeInv', OwnershipInv, EntryInv, Open PROVE EntryGoal
<1> USE AccountAssumption DEF TypeInv, TypeOK, LockOK, Subroutines,
    OwnershipInv, OpenClaim, SupervisedIsManaged, EntryInv, ReturnsTo,
    OwnFresh, BatchFresh, Staged, ProvenPreflight, HeldIsFilled,
    ListIsCurrent, ActionJob, WithdrawnRestNothing, WithdrawnHoldNothing,
    ReducedSymbolRestsNothing, ConfirmedIsFlat, ClosedHasNoRestingEntry,
    ClosingIsFlat, EntryGoal, EntryStep, SubmitsOnce, ClosesEmpty,
    CompletesWithoutEntries, Closes, Own, LiveEntries, Reading, OpenLabels,
    Unplanned, Planned, WithdrawLabels, JobSymbol, BatchLegs, Position,
    Exposed, Active, Managed, Live, Holding, Goto, Raise, ReadThen,
    CancelThen, CancelEntriesThen, Acquire, Reset, Release, durable, exchange,
    process, rows, locals, Opening, Acting, Supervising, Lots
<1>1. ASSUME NEW i \in Intents, ClaimIntent(i) PROVE EntryGoal
  BY <1>1 DEF ClaimIntent, PendingIsFresh
<1>2. CASE CheckOwner
  BY <1>2 DEF SymbolOwned, CheckOwner
<1>3. CASE PreflightFlat
  BY <1>3 DEF FlatSnapshot, PreflightFlat
<1>4. CASE PreflightRefuses
  BY <1>4 DEF PreflightRefuses
<1>5. CASE CreateStrategy
  BY <1>5 DEF FlatSnapshot, CreateStrategy
<1>6. CASE Prepare
  BY <1>6 DEF Prepare
<1>7. CASE Revalidate
  BY <1>7 DEF FlatSnapshot, Revalidate
<1>8. CASE RevalidateRaises
  BY <1>8 DEF RevalidateRaises
<1>9. ASSUME NEW c \in Causes, PrepareRaises(c) PROVE EntryGoal
  BY <1>9 DEF PrepareRaises
<1>10. ASSUME NEW c \in Causes, RebaseRaises(c) PROVE EntryGoal
  BY <1>10 DEF RebaseRaises
<1>11. ASSUME NEW accepted \in BOOLEAN, NEW acked \in BOOLEAN,
    SubmitPrimary(accepted, acked) PROVE EntryGoal
  BY <1>11 DEF SubmitPrimary
<1>12. CASE PrimaryFills
  BY <1>12 DEF PrimaryFills
<1>13. CASE PrimaryUnconfirmed
  BY <1>13 DEF PrimaryUnconfirmed
<1>14. CASE Rebase
  BY <1>14 DEF Rebase
<1>15. ASSUME NEW accepted \in SUBSET Legs, NEW acked \in BOOLEAN,
    SubmitBatch(accepted, acked) PROVE EntryGoal
  BY <1>15 DEF SubmitBatch
<1>16. ASSUME NEW reached \in SUBSET Lots, Rollback(reached) PROVE EntryGoal
  BY <1>16 DEF Rollback
<1>17. CASE MarkExecuted
  BY <1>17 DEF MarkExecuted
<1>18. CASE MarkExecutedRaises
  BY <1>18 DEF MarkExecutedRaises
<1>19. CASE RecordEntryFailure
  BY <1>19 DEF FailureStatus, RecordEntryFailure
<1>20. CASE HandlerAborts
  BY <1>20 DEF HandlerAborts
<1> HIDE DEF EntryGoal, EntryInv, OwnershipInv, TypeInv, Causes, Lots
<1> QED
  BY <1>1, <1>2, <1>3, <1>4, <1>5, <1>6, <1>7, <1>8, <1>9, <1>10, <1>11,
      <1>12, <1>13, <1>14, <1>15, <1>16, <1>17, <1>18, <1>19, <1>20 DEF Open

\* Steps of CLOSE and REDUCE preserve EntryInv and take entry-safe steps.
LEMMA ReduceEntry ==
    ASSUME TypeInv, TypeInv', OwnershipInv, EntryInv, Reduce PROVE EntryGoal
<1> USE AccountAssumption DEF TypeInv, TypeOK, LockOK, Subroutines,
    OwnershipInv, OpenClaim, SupervisedIsManaged, EntryInv, ReturnsTo,
    OwnFresh, BatchFresh, Staged, ProvenPreflight, HeldIsFilled,
    ListIsCurrent, ActionJob, WithdrawnRestNothing, WithdrawnHoldNothing,
    ReducedSymbolRestsNothing, ConfirmedIsFlat, ClosedHasNoRestingEntry,
    ClosingIsFlat, EntryGoal, EntryStep, SubmitsOnce, ClosesEmpty,
    CompletesWithoutEntries, Closes, Own, LiveEntries, Reading, OpenLabels,
    Unplanned, Planned, WithdrawLabels, JobSymbol, BatchLegs, Position,
    Exposed, Active, Managed, Live, Holding, Goto, Raise, ReadThen,
    CancelThen, CancelEntriesThen, Acquire, Reset, Release, durable, exchange,
    process, rows, locals, Opening, Acting, Supervising, Lots
<1>1. ASSUME NEW a \in Actions, NEW tooOld \in BOOLEAN, ClaimAction(a, tooOld)
    PROVE EntryGoal
  BY <1>1 DEF ClaimAction
<1>2. CASE StaleFails
  BY <1>2 DEF StaleFails
<1>3. CASE ValidateExposure
  BY <1>3 DEF ValidateExposure
<1>4. CASE ValidateRaises
  BY <1>4 DEF ValidateRaises
<1>5. CASE Reread
  BY <1>5 DEF Reread
<1>6. CASE RereadRaises
  BY <1>6 DEF RereadRaises
<1>7. ASSUME NEW R \in SUBSET Lots, SubmitReduction(R) PROVE EntryGoal
  BY <1>7 DEF Reduction, SubmitReduction
<1>8. ASSUME NEW R \in SUBSET Lots, SubmitReductionUnknown(R) PROVE EntryGoal
  BY <1>8 DEF Reduction, SubmitReductionUnknown
<1>9. CASE SubmitReductionRefused
  BY <1>9 DEF SubmitReductionRefused
<1>10. CASE Confirm
  BY <1>10 DEF Confirm
<1>11. CASE ConfirmRaises
  BY <1>11 DEF ConfirmRaises
<1>12. CASE CompleteClose
  BY <1>12 DEF ClosingStrategies, CompleteClose
<1>13. CASE CompleteReduce
  BY <1>13 DEF CompleteReduce
<1>14. CASE CompleteRaises
  BY <1>14 DEF CompleteRaises
<1>15. CASE ActionFails
  BY <1>15 DEF Quarantined, ActionFails
<1> HIDE DEF EntryGoal, EntryInv, OwnershipInv, TypeInv, Causes, Lots
<1> QED
  BY <1>1, <1>2, <1>3, <1>4, <1>5, <1>6, <1>7, <1>8, <1>9, <1>10, <1>11,
      <1>12, <1>13, <1>14, <1>15 DEF Reduce

\* Steps of CANCEL_ENTRIES preserve EntryInv and take entry-safe steps.
LEMMA CancelEntriesEntry ==
    ASSUME TypeInv, TypeInv', OwnershipInv, EntryInv, CancelEntries PROVE EntryGoal
<1> USE AccountAssumption DEF TypeInv, TypeOK, LockOK, Subroutines,
    OwnershipInv, OpenClaim, SupervisedIsManaged, EntryInv, ReturnsTo,
    OwnFresh, BatchFresh, Staged, ProvenPreflight, HeldIsFilled,
    ListIsCurrent, ActionJob, WithdrawnRestNothing, WithdrawnHoldNothing,
    ReducedSymbolRestsNothing, ConfirmedIsFlat, ClosedHasNoRestingEntry,
    ClosingIsFlat, EntryGoal, EntryStep, SubmitsOnce, ClosesEmpty,
    CompletesWithoutEntries, Closes, Own, LiveEntries, Reading, OpenLabels,
    Unplanned, Planned, WithdrawLabels, JobSymbol, BatchLegs, Position,
    Exposed, Active, Managed, Live, Holding, Goto, Raise, ReadThen,
    CancelThen, CancelEntriesThen, Acquire, Reset, Release, durable, exchange,
    process, rows, locals, Opening, Acting, Supervising, Lots
<1>1. CASE ResolveTargets
  BY <1>1 DEF EntryCancellationTargets, ResolveTargets
<1>2. CASE NoTargets
  BY <1>2 DEF EntryCancellationTargets, NoTargets
<1>3. CASE Withdraw
  BY <1>3 DEF WithdrawnIntents, WithdrawRows, Withdraw
<1>4. CASE WithdrawRaises
  BY <1>4 DEF WithdrawRaises
<1>5. CASE WithdrawCancel
  BY <1>5 DEF OwnedByTargets, WithdrawCancel
<1>6. CASE WithdrawPolled
  BY <1>6 DEF OwnedByTargets, WithdrawPolled
<1>7. CASE WithdrawCompletes
  BY <1>7 DEF WithdrawnIntents, WithdrawRows, OwnedByTargets,
      WithdrawCompletes
<1>8. CASE WithdrawFails
  BY <1>8 DEF WithdrawnIntents, WithdrawRows, WithdrawFails
<1> HIDE DEF EntryGoal, EntryInv, OwnershipInv, TypeInv, Causes, Lots
<1> QED
  BY <1>1, <1>2, <1>3, <1>4, <1>5, <1>6, <1>7, <1>8 DEF CancelEntries

\* Steps of the supervision pass preserve EntryInv and take entry-safe steps.
LEMMA SuperviseEntry ==
    ASSUME TypeInv, TypeInv', OwnershipInv, EntryInv, Supervise PROVE EntryGoal
<1> USE AccountAssumption DEF TypeInv, TypeOK, LockOK, Subroutines,
    OwnershipInv, OpenClaim, SupervisedIsManaged, EntryInv, ReturnsTo,
    OwnFresh, BatchFresh, Staged, ProvenPreflight, HeldIsFilled,
    ListIsCurrent, ActionJob, WithdrawnRestNothing, WithdrawnHoldNothing,
    ReducedSymbolRestsNothing, ConfirmedIsFlat, ClosedHasNoRestingEntry,
    ClosingIsFlat, EntryGoal, EntryStep, SubmitsOnce, ClosesEmpty,
    CompletesWithoutEntries, Closes, Own, LiveEntries, Reading, OpenLabels,
    Unplanned, Planned, WithdrawLabels, JobSymbol, BatchLegs, Position,
    Exposed, Active, Managed, Live, Holding, Goto, Raise, ReadThen,
    CancelThen, CancelEntriesThen, Acquire, Reset, Release, durable, exchange,
    process, rows, locals, Opening, Acting, Supervising, Lots
<1>1. ASSUME NEW i \in Intents, Reconcile(i) PROVE EntryGoal
  BY <1>1 DEF Row, Reconcile
<1>2. CASE PositionMissing
  BY <1>2 DEF Mine, Expiring, Deciding, MissingPosition, PositionMissing
<1>3. CASE ExpireWithoutPosition
  BY <1>3 DEF Mine, Expiring, Deciding, ExpireWithoutPosition
<1>4. CASE ExpiredToFlat
  BY <1>4 DEF Mine, ExpiredClosable, ExpiredToFlat
<1>5. CASE ExpiredToFreeze
  BY <1>5 DEF ExpiredToFreeze
<1>6. CASE ExpiredFlatContinues
  BY <1>6 DEF Mine, MissingPosition, ExpiredClosable, ExpiredFlatContinues
<1>7. CASE CloseIfFlat
  BY <1>7 DEF Save, SaveStatus, Mine, CloseIfFlat
<1>8. CASE NotFlat
  BY <1>8 DEF Mine, NotFlat
<1>9. CASE Override
  BY <1>9 DEF Save, SaveStatus, Deciding, LivePosition, HandedOff, Override
<1>10. CASE ResumeInstall
  BY <1>10 DEF Save, Deciding, LivePosition, ResumeInstall
<1>11. CASE HandoffStops
  BY <1>11 DEF Deciding, LivePosition, GrewAfterFreeze, HandoffStops
<1>12. CASE HandoffGone
  BY <1>12 DEF HandoffGone
<1>13. CASE ExpireStaleEntries
  BY <1>13 DEF Mine, Expiring, Deciding, LivePosition, HandedOff,
      GrewAfterFreeze, Undisturbed, ExpireStaleEntries
<1>14. CASE ExpiredLiveContinues
  BY <1>14 DEF Mine, ExpiredClosable, ExpiredLiveContinues
<1>15. CASE NotExpired
  BY <1>15 DEF Expiring, Deciding, LivePosition, HandedOff, GrewAfterFreeze,
      Undisturbed, NotExpired
<1>16. CASE Installed
  BY <1>16 DEF Save, Installed
<1>17. CASE InstallRaises
  BY <1>17 DEF InstallRaises
<1>18. CASE InstallPositionChanged
  BY <1>18 DEF Save, InstallPositionChanged
<1>19. CASE FixedExitFilled
  BY <1>19 DEF Building, FixedExitFilled
<1>20. CASE AfterFixedExit
  BY <1>20 DEF Save, AfterFixedExit
<1>21. CASE Freeze
  BY <1>21 DEF Building, Freeze
<1>22. CASE Accumulate
  BY <1>22 DEF Save, SaveSeen, BeginInstall, Building, Accumulate
<1>23. CASE FreezeEntries
  BY <1>23 DEF Save, Mine, BeginInstall, FreezeStep, FreezeEntries
<1>24. CASE ExpiryFreezeEntries
  BY <1>24 DEF Save, Mine, BeginInstall, FreezeStep, ExpiryFreezeEntries
<1>25. CASE StartRebalance
  BY <1>25 DEF StartRebalance
<1>26. CASE Rebalance
  BY <1>26 DEF Save, BeginInstall, Rebalance
<1>27. CASE ManageProfit
  BY <1>27 DEF Save, SaveSeen, ManageProfit
<1>28. CASE ActivateTrailing
  BY <1>28 DEF ActivateTrailing
<1>29. CASE TrailingSet
  BY <1>29 DEF Save, TrailingSet
<1>30. CASE PassFails
  BY <1>30 DEF PassFails
<1> HIDE DEF EntryGoal, EntryInv, OwnershipInv, TypeInv, Causes, Lots
<1> QED
  BY <1>1, <1>2, <1>3, <1>4, <1>5, <1>6, <1>7, <1>8, <1>9, <1>10, <1>11,
      <1>12, <1>13, <1>14, <1>15, <1>16, <1>17, <1>18, <1>19, <1>20, <1>21,
      <1>22, <1>23, <1>24, <1>25, <1>26, <1>27, <1>28, <1>29, <1>30 DEF
      Supervise

\* Steps of the exchange and the clock preserve EntryInv and take entry-safe steps.
LEMMA EnvironmentEntry ==
    ASSUME TypeInv, TypeInv', OwnershipInv, EntryInv, Environment PROVE EntryGoal
<1> USE AccountAssumption DEF TypeInv, TypeOK, LockOK, Subroutines,
    OwnershipInv, OpenClaim, SupervisedIsManaged, EntryInv, ReturnsTo,
    OwnFresh, BatchFresh, Staged, ProvenPreflight, HeldIsFilled,
    ListIsCurrent, ActionJob, WithdrawnRestNothing, WithdrawnHoldNothing,
    ReducedSymbolRestsNothing, ConfirmedIsFlat, ClosedHasNoRestingEntry,
    ClosingIsFlat, EntryGoal, EntryStep, SubmitsOnce, ClosesEmpty,
    CompletesWithoutEntries, Closes, Own, LiveEntries, Reading, OpenLabels,
    Unplanned, Planned, WithdrawLabels, JobSymbol, BatchLegs, Position,
    Exposed, Active, Managed, Live, Holding, Goto, Raise, ReadThen,
    CancelThen, CancelEntriesThen, Acquire, Reset, Release, durable, exchange,
    process, rows, locals, Opening, Acting, Supervising, Lots
<1>1. ASSUME NEW x \in Lots, FillEntry(x) PROVE EntryGoal
  BY <1>1 DEF FillEntry
<1>2. ASSUME NEW x \in Lots, OrderEnds(x) PROVE EntryGoal
  BY <1>2 DEF OrderEnds
<1>3. ASSUME NEW x \in Lots, ExitFills(x) PROVE EntryGoal
  BY <1>3 DEF ExitFills
<1>4. ASSUME NEW s \in Symbols, StopOut(s) PROVE EntryGoal
  BY <1>4 DEF StopOut
<1>5. ASSUME NEW i \in Intents, TtlPasses(i) PROVE EntryGoal
  BY <1>5 DEF TtlPasses
<1> HIDE DEF EntryGoal, EntryInv, OwnershipInv, TypeInv, Causes, Lots
<1> QED
  BY <1>1, <1>2, <1>3, <1>4, <1>5 DEF Environment

\* Steps of the approver preserve EntryInv and take entry-safe steps.
LEMMA ApproverEntry ==
    ASSUME TypeInv, TypeInv', OwnershipInv, EntryInv, Approver PROVE EntryGoal
<1> USE AccountAssumption DEF TypeInv, TypeOK, LockOK, Subroutines,
    OwnershipInv, OpenClaim, SupervisedIsManaged, EntryInv, ReturnsTo,
    OwnFresh, BatchFresh, Staged, ProvenPreflight, HeldIsFilled,
    ListIsCurrent, ActionJob, WithdrawnRestNothing, WithdrawnHoldNothing,
    ReducedSymbolRestsNothing, ConfirmedIsFlat, ClosedHasNoRestingEntry,
    ClosingIsFlat, EntryGoal, EntryStep, SubmitsOnce, ClosesEmpty,
    CompletesWithoutEntries, Closes, Own, LiveEntries, Reading, OpenLabels,
    Unplanned, Planned, WithdrawLabels, JobSymbol, BatchLegs, Position,
    Exposed, Active, Managed, Live, Holding, Goto, Raise, ReadThen,
    CancelThen, CancelEntriesThen, Acquire, Reset, Release, durable, exchange,
    process, rows, locals, Opening, Acting, Supervising, Lots
<1>1. ASSUME NEW i \in Intents, SkipIntent(i) PROVE EntryGoal
  BY <1>1 DEF SkipIntent
<1>2. ASSUME NEW a \in Actions, SkipAction(a) PROVE EntryGoal
  BY <1>2 DEF SkipAction
<1> HIDE DEF EntryGoal, EntryInv, OwnershipInv, TypeInv, Causes, Lots
<1> QED
  BY <1>1, <1>2 DEF Approver

\* The process dies or comes back: no order moves and nothing is closed.
LEMMA ProcessEntry ==
    ASSUME TypeInv, TypeInv', OwnershipInv, EntryInv, Crash \/ Restart
    PROVE  EntryGoal
<1> USE DEF EntryInv, ReturnsTo, OwnFresh, BatchFresh, Staged,
    ProvenPreflight, HeldIsFilled, ListIsCurrent, ActionJob,
    WithdrawnRestNothing, WithdrawnHoldNothing, ReducedSymbolRestsNothing,
    ConfirmedIsFlat, ClosedHasNoRestingEntry, ClosingIsFlat, Exposed,
    EntryGoal, EntryStep, SubmitsOnce, ClosesEmpty, CompletesWithoutEntries,
    Closes, exchange
<1>1. CASE Crash
  BY <1>1 DEF Crash, Reset, durable, rows, TypeInv, TypeOK
<1>2. CASE Restart
  <2>1. task = "none"
    BY <1>2 DEF Restart, OwnershipInv, DownIsIdle
  <2>2. \A i \in Intents : sstatus'[i] \in {"none", "CLOSED", "CLOSING"}
                             => sstatus[i] = sstatus'[i]
    BY <1>2 DEF Restart, Quarantined, TypeInv, TypeOK
  <2>3. \A a \in Actions : act'[a] = "EXECUTED" => act[a] = "EXECUTED"
    BY <1>2 DEF Restart, TypeInv, TypeOK
  <2> QED
    BY <1>2, <2>1, <2>2, <2>3 DEF Restart, locals, TypeInv, TypeOK, Lots
<1> QED
  BY <1>1, <1>2

\* One step, or none.
LEMMA NextEntry ==
    ASSUME TypeInv, TypeInv', OwnershipInv, EntryInv, [Next]_vars
    PROVE  EntryInv' /\ [EntryStep]_vars
<1>1. CASE Next
  <2>1. EntryGoal
    BY <1>1, ExchangeCallEntry, OpenEntry, ReduceEntry, CancelEntriesEntry,
       SuperviseEntry, EnvironmentEntry, ApproverEntry, ProcessEntry
       DEF Next, Handler
  <2> QED
    BY <2>1 DEF EntryGoal
<1>2. CASE UNCHANGED vars
  BY <1>2 DEF vars, durable, rows, exchange, process, locals, EntryInv,
     ReturnsTo, OwnFresh, BatchFresh, Staged, ProvenPreflight, HeldIsFilled,
     ListIsCurrent, ActionJob, WithdrawnRestNothing, WithdrawnHoldNothing,
     ReducedSymbolRestsNothing, ConfirmedIsFlat, ClosedHasNoRestingEntry,
     ClosingIsFlat, Exposed, Reading, BatchLegs, JobSymbol
<1> QED
  BY <1>1, <1>2

\* EntryInv is an invariant and every step is entry-safe.
LEMMA EntryInvariance == Spec => []EntryInv /\ [][EntryStep]_vars
<1>1. TypeInv /\ TypeInv' /\ OwnershipInv /\ EntryInv /\ [Next]_vars
        => EntryInv' /\ [EntryStep]_vars
  BY NextEntry
<1> QED
  BY <1>1, InitEntry, TypeInvariance, OwnershipInvariance, PTL DEF Spec

\* No entry rests for a strategy that is CLOSED or has no row: nothing can open
\* a position for it later, whatever failed or was cancelled on the way.
THEOREM ClosedRestsNothing == Spec => []ClosedHasNoRestingEntry
<1>1. EntryInv => ClosedHasNoRestingEntry
  BY DEF EntryInv
<1> QED
  BY <1>1, EntryInvariance, PTL

\* A CLOSING strategy has no position and no live entry, so _handle_closing
\* finds a live position only if one was opened outside the program.
THEOREM ClosingFlat == Spec => []ClosingIsFlat
<1>1. EntryInv => ClosingIsFlat
  BY DEF EntryInv
<1> QED
  BY <1>1, EntryInvariance, PTL

\* No entry leg is submitted twice, through approvals, crashes and recoveries.
THEOREM SubmittedOnce == Spec => NeverResubmitted
<1>1. [EntryStep]_vars => [SubmitsOnce]_vars
  BY DEF EntryStep
<1> QED
  BY <1>1, EntryInvariance, PTL DEF NeverResubmitted, SubmitsOnce

\* The coordinator closes a strategy only when nothing of it is exposed, fills
\* between its torn reads included.
THEOREM ClosedEmpty == Spec => CoordinatorClosesEmpty
<1>1. [EntryStep]_vars => [ClosesEmpty]_vars
  BY DEF EntryStep
<1> QED
  BY <1>1, EntryInvariance, PTL DEF CoordinatorClosesEmpty, ClosesEmpty

\* A CLOSE or REDUCE is recorded as executed only when no entry of its symbol is
\* live, however late the exchange confirms cancellations.
THEOREM LifecycleEndsEntries == Spec => LifecycleActionEndsEntries
<1>1. [EntryStep]_vars => [CompletesWithoutEntries]_vars
  BY DEF EntryStep
<1> QED
  BY <1>1, EntryInvariance, PTL
     DEF LifecycleActionEndsEntries, CompletesWithoutEntries

(***************************************************************************)
(* The trading core implements Custody.  Every step of the detailed        *)
(* specification is one of a few moves of the rows, the orders and the     *)
(* position (Move); reads, waits and control flow move nothing.  Under the *)
(* two invariants above each move is a step of the contract or leaves its  *)
(* state as it is.                                                         *)
(***************************************************************************)
\* Rows change, the account does not: strategies keep their custody or close.
RowStep ==
    /\ UNCHANGED <<order, held>>
    /\ \A i \in Intents :
          \/ CustodyOf(sstatus'[i]) = CustodyOf(sstatus[i])
          \/ sstatus[i] # "none" /\ sstatus'[i] = "CLOSED"
\* A row is created on a symbol without an active one.
Owns ==
    /\ UNCHANGED <<order, held>>
    /\ \E i \in Intents :
         /\ sstatus[i] = "none" /\ sstatus' = [sstatus EXCEPT ![i] = "ENTERING"]
         /\ \A j \in Intents : SymbolOf[j] = SymbolOf[i] => sstatus[j] \notin Active
Pauses ==
    /\ UNCHANGED <<order, held>>
    /\ \E i \in Intents :
         sstatus[i] \in Managed /\ sstatus' = [sstatus EXCEPT ![i] = "MANUAL_OVERRIDE"]
Submits ==
    /\ UNCHANGED <<sstatus, held>>
    /\ \E i \in Intents :
         /\ sstatus[i] \in Active
         /\ \A x \in Lots : \/ order'[x] = order[x]
                            \/ x[1] = i /\ order[x] = "none" /\ order'[x] = "open"
Cancels ==
    /\ UNCHANGED <<sstatus, held>>
    /\ \A x \in Lots : \/ order'[x] = order[x]
                       \/ order[x] \in Live /\ order'[x] \in Live
Fills ==
    /\ UNCHANGED sstatus
    /\ \E x \in Lots : /\ order[x] \in Live /\ order' = [order EXCEPT ![x] = "filled"]
                       /\ held' = held \cup {x}
Lapses ==
    /\ UNCHANGED <<sstatus, held>>
    /\ \E x \in Lots : order[x] \in Live /\ order' = [order EXCEPT ![x] = "cancelled"]
Leaves ==
    /\ UNCHANGED <<sstatus, order>>
    /\ held' \subseteq held
Move ==
    RowStep \/ Owns \/ Pauses \/ Submits \/ Cancels \/ Fills \/ Lapses \/ Leaves

\* Custody of every status.
LEMMA CustodyValues ==
    /\ CustodyOf("none") = "none" /\ CustodyOf("CLOSED") = "closed"
    /\ CustodyOf("MANUAL_OVERRIDE") = "person"
    /\ \A s \in Active : CustodyOf(s) = "owner"
    /\ \A s \in StrategyStatus : /\ CustodyOf(s) = "none" => s = "none"
                                 /\ CustodyOf(s) = "owner" => s \in Active
                                 /\ CustodyOf(s) = "closed" => s = "CLOSED"
                                 /\ CustodyOf(s) \in {"none", "owner", "person", "closed"}
  BY DEF CustodyOf, Active, Managed, StrategyStatus

\* A managed strategy that stays managed keeps its custody.
LEMMA ManagedStays ==
    ASSUME TypeInv, NEW i \in Intents, sstatus[i] \in Managed, NEW s \in Managed,
           sstatus' \in {sstatus, [sstatus EXCEPT ![i] = s]}, UNCHANGED <<order, held>>
    PROVE  RowStep
<1>1. CustodyOf(sstatus[i]) = "owner" /\ CustodyOf(s) = "owner"
  BY CustodyValues DEF Active
<1>2. \A j \in Intents : CustodyOf(sstatus'[j]) = CustodyOf(sstatus[j])
  BY <1>1 DEF TypeInv, TypeOK
<1> QED
  BY <1>2 DEF RowStep

\* Steps of account reads and cancellations are moves.
LEMMA ExchangeCallMoves ==
    ASSUME TypeInv, TypeInv', OwnershipInv, EntryInv, ExchangeCall PROVE Move
<1> USE AccountAssumption DEF TypeInv, TypeOK, LockOK, OwnershipInv, OpenClaim,
    SupervisedIsManaged, Move, RowStep, Owns, Pauses, Submits, Cancels, Fills,
    Lapses, Leaves, CustodyOf, Active, Managed, Live, durable, exchange, rows,
    locals, Opening, Acting, Supervising, Lots
<1>1. CASE ReadPositions
  BY <1>1 DEF JobSymbol, Position, ReadPositions
<1>2. CASE ReadOrders
  BY <1>2 DEF JobSymbol, LiveEntries, ReadOrders
<1>3. CASE ReadRaises
  BY <1>3 DEF ReadRaises
<1>4. CASE ListEntries
  BY <1>4 DEF JobSymbol, LiveEntries, ListEntries
<1>5. ASSUME NEW x \in Lots, CancelOne(x) PROVE Move
  BY <1>5 DEF CancelOne
<1>6. CASE CancelRaises
  BY <1>6 DEF CancelRaises
<1>7. CASE CancelledAll
  BY <1>7 DEF CancelledAll
<1>8. CASE EntriesGone
  BY <1>8 DEF EntriesGone
<1>9. CASE EntriesListAgain
  BY <1>9 DEF EntriesListAgain
<1>10. CASE EntriesStillActive
  BY <1>10 DEF EntriesStillActive
<1> HIDE DEF Move, OwnershipInv, EntryInv, TypeInv, Causes, Lots
<1> QED
  BY <1>1, <1>2, <1>3, <1>4, <1>5, <1>6, <1>7, <1>8, <1>9, <1>10 DEF
      ExchangeCall

\* Steps of opening an intent are moves.
LEMMA OpenMoves ==
    ASSUME TypeInv, TypeInv', OwnershipInv, EntryInv, Open PROVE Move
<1> USE AccountAssumption DEF TypeInv, TypeOK, LockOK, OwnershipInv, OpenClaim,
    SupervisedIsManaged, Move, RowStep, Owns, Pauses, Submits, Cancels, Fills,
    Lapses, Leaves, CustodyOf, Active, Managed, Live, durable, exchange, rows,
    locals, Opening, Acting, Supervising, Lots
<1>1. ASSUME NEW i \in Intents, ClaimIntent(i) PROVE Move
  BY <1>1 DEF ClaimIntent
<1>2. CASE CheckOwner
  BY <1>2 DEF SymbolOwned, CheckOwner
<1>3. CASE PreflightFlat
  BY <1>3 DEF FlatSnapshot, PreflightFlat
<1>4. CASE PreflightRefuses
  BY <1>4 DEF PreflightRefuses
<1>5. CASE CreateStrategy
  <2>1. /\ task = "open" /\ pc = "open2" /\ job \in Intents
        /\ UNCHANGED <<order, held>>
        /\ sstatus' = [sstatus EXCEPT ![job] = IF @ = "none" THEN "ENTERING" ELSE @]
    BY <1>5 DEF CreateStrategy
  <2>2. sstatus[job] = "none"
        /\ \A j \in Intents : SymbolOf[j] = SymbolOf[job] => sstatus[j] \notin Active
    BY <2>1 DEF Reading, Unplanned
  <2>3. Owns
    BY <2>1, <2>2
  <2> QED
    BY <2>3 DEF Move
<1>6. CASE Prepare
  BY <1>6 DEF Prepare
<1>7. CASE Revalidate
  BY <1>7 DEF FlatSnapshot, Revalidate
<1>8. CASE RevalidateRaises
  BY <1>8 DEF RevalidateRaises
<1>9. ASSUME NEW c \in Causes, PrepareRaises(c) PROVE Move
  BY <1>9 DEF PrepareRaises
<1>10. ASSUME NEW c \in Causes, RebaseRaises(c) PROVE Move
  BY <1>10 DEF RebaseRaises
<1>11. ASSUME NEW accepted \in BOOLEAN, NEW acked \in BOOLEAN,
    SubmitPrimary(accepted, acked) PROVE Move
  <2>1. task = "open" /\ pc = "primary" /\ job \in Intents
    BY <1>11 DEF SubmitPrimary
  <2>2. sstatus[job] = "ENTERING" /\ order[<<job, Primary>>] = "none"
    BY <2>1 DEF EntryInv, Staged, OwnFresh, Reading, Planned
  <2>3. /\ UNCHANGED <<sstatus, held>>
        /\ order' \in {order, [order EXCEPT ![<<job, Primary>>] = "open"]}
    BY <1>11 DEF SubmitPrimary
  <2>4. Submits
    <3>1. ASSUME NEW x \in Lots
          PROVE  \/ order'[x] = order[x]
                 \/ x[1] = job /\ order[x] = "none" /\ order'[x] = "open"
      <4>1. CASE x = <<job, Primary>>
        BY <2>1, <2>2, <2>3, <4>1
      <4>2. CASE x # <<job, Primary>>
        BY <2>3, <4>2
      <4> QED
        BY <4>1, <4>2
    <3> QED
      BY <3>1, <2>1, <2>2, <2>3
  <2> QED
    BY <2>4 DEF Move
<1>12. CASE PrimaryFills
  BY <1>12 DEF PrimaryFills
<1>13. CASE PrimaryUnconfirmed
  BY <1>13 DEF PrimaryUnconfirmed
<1>14. CASE Rebase
  BY <1>14 DEF Rebase
<1>15. ASSUME NEW accepted \in SUBSET Legs, NEW acked \in BOOLEAN,
    SubmitBatch(accepted, acked) PROVE Move
  <2>1. task = "open" /\ pc = "batch" /\ job \in Intents
    BY <1>15 DEF SubmitBatch
  <2>2. sstatus[job] = "ENTERING"
        /\ \A l \in BatchLegs : order[<<job, l>>] = "none"
    BY <2>1 DEF EntryInv, Staged, BatchFresh, Reading, Planned
  <2>3. /\ UNCHANGED <<sstatus, held>> /\ accepted \subseteq BatchLegs
        /\ order' = [x \in Lots |-> IF x[1] = job /\ x[2] \in accepted
                                      THEN "open" ELSE order[x]]
    BY <1>15 DEF SubmitBatch
  <2>4. \A x \in Lots : x = <<x[1], x[2]>>
    OBVIOUS
  <2>5. Submits
    <3>1. ASSUME NEW x \in Lots
          PROVE  \/ order'[x] = order[x]
                 \/ x[1] = job /\ order[x] = "none" /\ order'[x] = "open"
      <4>1. CASE x[1] = job /\ x[2] \in accepted
        BY <2>2, <2>3, <2>4, <4>1
      <4>2. CASE ~(x[1] = job /\ x[2] \in accepted)
        BY <2>3, <4>2
      <4> QED
        BY <4>1, <4>2
    <3> QED
      BY <3>1, <2>1, <2>2, <2>3
  <2> QED
    BY <2>5 DEF Move
<1>16. ASSUME NEW reached \in SUBSET Lots, Rollback(reached) PROVE
    Move
  BY <1>16 DEF Own, BatchLegs, Rollback
<1>17. CASE MarkExecuted
  BY <1>17 DEF MarkExecuted
<1>18. CASE MarkExecutedRaises
  BY <1>18 DEF MarkExecutedRaises
<1>19. CASE RecordEntryFailure
  BY <1>19 DEF FailureStatus, RecordEntryFailure
<1>20. CASE HandlerAborts
  BY <1>20 DEF HandlerAborts
<1> HIDE DEF Move, OwnershipInv, EntryInv, TypeInv, Causes, Lots
<1> QED
  BY <1>1, <1>2, <1>3, <1>4, <1>5, <1>6, <1>7, <1>8, <1>9, <1>10, <1>11,
      <1>12, <1>13, <1>14, <1>15, <1>16, <1>17, <1>18, <1>19, <1>20 DEF Open

\* Steps of CLOSE and REDUCE are moves.
LEMMA ReduceMoves ==
    ASSUME TypeInv, TypeInv', OwnershipInv, EntryInv, Reduce PROVE Move
<1> USE AccountAssumption DEF TypeInv, TypeOK, LockOK, OwnershipInv, OpenClaim,
    SupervisedIsManaged, Move, RowStep, Owns, Pauses, Submits, Cancels, Fills,
    Lapses, Leaves, CustodyOf, Active, Managed, Live, durable, exchange, rows,
    locals, Opening, Acting, Supervising, Lots
<1>1. ASSUME NEW a \in Actions, NEW tooOld \in BOOLEAN, ClaimAction(a, tooOld)
    PROVE Move
  BY <1>1 DEF ClaimAction
<1>2. CASE StaleFails
  BY <1>2 DEF StaleFails
<1>3. CASE ValidateExposure
  BY <1>3 DEF Position, ValidateExposure
<1>4. CASE ValidateRaises
  BY <1>4 DEF ValidateRaises
<1>5. CASE Reread
  BY <1>5 DEF Reread
<1>6. CASE RereadRaises
  BY <1>6 DEF RereadRaises
<1>7. ASSUME NEW R \in SUBSET Lots, SubmitReduction(R) PROVE Move
  BY <1>7 DEF Position, Reduction, SubmitReduction
<1>8. ASSUME NEW R \in SUBSET Lots, SubmitReductionUnknown(R) PROVE
    Move
  BY <1>8 DEF Position, Reduction, SubmitReductionUnknown
<1>9. CASE SubmitReductionRefused
  BY <1>9 DEF SubmitReductionRefused
<1>10. CASE Confirm
  BY <1>10 DEF Position, Confirm
<1>11. CASE ConfirmRaises
  BY <1>11 DEF ConfirmRaises
<1>12. CASE CompleteClose
  BY <1>12 DEF ClosingStrategies, CompleteClose
<1>13. CASE CompleteReduce
  BY <1>13 DEF CompleteReduce
<1>14. CASE CompleteRaises
  BY <1>14 DEF CompleteRaises
<1>15. CASE ActionFails
  BY <1>15 DEF Quarantined, ActionFails
<1> HIDE DEF Move, OwnershipInv, EntryInv, TypeInv, Causes, Lots
<1> QED
  BY <1>1, <1>2, <1>3, <1>4, <1>5, <1>6, <1>7, <1>8, <1>9, <1>10, <1>11,
      <1>12, <1>13, <1>14, <1>15 DEF Reduce

\* Steps of CANCEL_ENTRIES are moves.
LEMMA CancelEntriesMoves ==
    ASSUME TypeInv, TypeInv', OwnershipInv, EntryInv, CancelEntries PROVE Move
<1> USE AccountAssumption DEF TypeInv, TypeOK, LockOK, OwnershipInv, OpenClaim,
    SupervisedIsManaged, Move, RowStep, Owns, Pauses, Submits, Cancels, Fills,
    Lapses, Leaves, CustodyOf, Active, Managed, Live, durable, exchange, rows,
    locals, Opening, Acting, Supervising, Lots
<1>1. CASE ResolveTargets
  BY <1>1 DEF EntryCancellationTargets, ResolveTargets
<1>2. CASE NoTargets
  BY <1>2 DEF EntryCancellationTargets, NoTargets
<1>3. CASE Withdraw
  BY <1>3 DEF WithdrawnIntents, WithdrawRows, Withdraw
<1>4. CASE WithdrawRaises
  BY <1>4 DEF WithdrawRaises
<1>5. CASE WithdrawCancel
  BY <1>5 DEF OwnedByTargets, WithdrawCancel
<1>6. CASE WithdrawPolled
  BY <1>6 DEF OwnedByTargets, WithdrawPolled
<1>7. CASE WithdrawCompletes
  BY <1>7 DEF WithdrawnIntents, WithdrawRows, OwnedByTargets,
      WithdrawCompletes
<1>8. CASE WithdrawFails
  BY <1>8 DEF WithdrawnIntents, WithdrawRows, WithdrawFails
<1> HIDE DEF Move, OwnershipInv, EntryInv, TypeInv, Causes, Lots
<1> QED
  BY <1>1, <1>2, <1>3, <1>4, <1>5, <1>6, <1>7, <1>8 DEF CancelEntries

\* Steps of the supervision pass are moves.
LEMMA SuperviseMoves ==
    ASSUME TypeInv, TypeInv', OwnershipInv, EntryInv, Supervise PROVE Move
<1> USE AccountAssumption DEF TypeInv, TypeOK, LockOK, OwnershipInv, OpenClaim,
    SupervisedIsManaged, Move, RowStep, Owns, Pauses, Submits, Cancels, Fills,
    Lapses, Leaves, CustodyOf, Active, Managed, Live, durable, exchange, rows,
    locals, Opening, Acting, Supervising, Lots
<1>1. ASSUME NEW i \in Intents, Reconcile(i) PROVE Move
  BY <1>1 DEF Row, Reconcile
<1>2. CASE PositionMissing
  BY <1>2 DEF Mine, Expiring, Deciding, MissingPosition, PositionMissing
<1>3. CASE ExpireWithoutPosition
  BY <1>3 DEF Mine, Expiring, Deciding, ExpireWithoutPosition
<1>4. CASE ExpiredToFlat
  BY <1>4 DEF Mine, ExpiredClosable, ExpiredToFlat
<1>5. CASE ExpiredToFreeze
  BY <1>5 DEF ExpiredToFreeze
<1>6. CASE ExpiredFlatContinues
  BY <1>6 DEF Mine, MissingPosition, ExpiredClosable, ExpiredFlatContinues
<1>7. CASE CloseIfFlat
  BY <1>7 DEF Save, SaveStatus, Mine, CloseIfFlat
<1>8. CASE NotFlat
  BY <1>8 DEF Mine, NotFlat
<1>9. CASE Override
  BY <1>9 DEF Save, SaveStatus, Deciding, LivePosition, HandedOff, Override
<1>10. CASE ResumeInstall
  BY <1>10 DEF Save, Deciding, LivePosition, ResumeInstall
<1>11. CASE HandoffStops
  BY <1>11 DEF Deciding, LivePosition, GrewAfterFreeze, HandoffStops
<1>12. CASE HandoffGone
  BY <1>12 DEF HandoffGone
<1>13. CASE ExpireStaleEntries
  BY <1>13 DEF Mine, Expiring, Deciding, LivePosition, HandedOff,
      GrewAfterFreeze, Undisturbed, ExpireStaleEntries
<1>14. CASE ExpiredLiveContinues
  BY <1>14 DEF Mine, ExpiredClosable, ExpiredLiveContinues
<1>15. CASE NotExpired
  BY <1>15 DEF Expiring, Deciding, LivePosition, HandedOff, GrewAfterFreeze,
      Undisturbed, NotExpired
<1>16. CASE Installed
  BY <1>16 DEF Position, Save, Installed
<1>17. CASE InstallRaises
  BY <1>17 DEF InstallRaises
<1>18. CASE InstallPositionChanged
  BY <1>18 DEF Position, Save, InstallPositionChanged
<1>19. CASE FixedExitFilled
  BY <1>19 DEF Building, FixedExitFilled
<1>20. CASE AfterFixedExit
  BY <1>20 DEF Save, AfterFixedExit
<1>21. CASE Freeze
  BY <1>21 DEF Building, Freeze
<1>22. CASE Accumulate
  <2>1. CASE lastSeen[job] = {} \/ ~(seenPos \subseteq lastSeen[job])
    <3> HIDE DEF OwnershipInv, TypeInv, Release
    <3>1. BeginInstall("OPEN_RISK", FALSE, FALSE) /\ Supervising("live")
      BY <1>22, <2>1 DEF Accumulate, Building
    <3> USE DEF OwnershipInv, TypeInv
    <3> QED
      BY <3>1 DEF BeginInstall, Save
  <2>2. CASE ~(lastSeen[job] = {} \/ ~(seenPos \subseteq lastSeen[job]))
    <3> HIDE DEF OwnershipInv, TypeInv, Release
    <3>1. SaveSeen(job, "OPEN_RISK") /\ Release /\ Supervising("live")
      BY <1>22, <2>2 DEF Accumulate, Building
    <3> USE DEF OwnershipInv, TypeInv, Release
    <3> QED
      BY <3>1 DEF SaveSeen, Save
  <2> HIDE DEF OwnershipInv
  <2> QED
    BY <2>1, <2>2
<1>23. CASE FreezeEntries
  <2>1. /\ sstatus' \in {sstatus, [sstatus EXCEPT ![job] = "OPEN_RISK"]}
        /\ UNCHANGED <<order, held>>
    <3> HIDE DEF OwnershipInv, TypeInv, Move
    <3> QED
      BY <1>23 DEF FreezeEntries, FreezeStep, BeginInstall, Save
  <2>2. task = "supervise" /\ job \in Intents /\ sstatus[job] \in Managed
    <3> HIDE DEF Move
    <3> QED
      BY <1>23 DEF FreezeEntries, FreezeStep
  <2>3. RowStep
    <3> HIDE DEF TypeInv, OwnershipInv, RowStep
    <3> QED
      BY <2>1, <2>2, ManagedStays
  <2> QED
    BY <2>3 DEF Move
<1>24. CASE ExpiryFreezeEntries
  <2>1. /\ sstatus' \in {sstatus, [sstatus EXCEPT ![job] = sstatus[job]]}
        /\ UNCHANGED <<order, held>>
    <3> HIDE DEF OwnershipInv, TypeInv, Move
    <3> QED
      BY <1>24 DEF ExpiryFreezeEntries, FreezeStep, BeginInstall, Save
  <2>2. task = "supervise" /\ job \in Intents /\ sstatus[job] \in Managed
    <3> HIDE DEF Move
    <3> QED
      BY <1>24 DEF ExpiryFreezeEntries, FreezeStep
  <2>3. RowStep
    <3> HIDE DEF TypeInv, OwnershipInv, RowStep
    <3> QED
      BY <2>1, <2>2, ManagedStays
  <2> QED
    BY <2>3 DEF Move
<1>25. CASE StartRebalance
  BY <1>25 DEF StartRebalance
<1>26. CASE Rebalance
  BY <1>26 DEF Save, BeginInstall, Rebalance
<1>27. CASE ManageProfit
  BY <1>27 DEF Save, SaveSeen, ManageProfit
<1>28. CASE ActivateTrailing
  BY <1>28 DEF ActivateTrailing
<1>29. CASE TrailingSet
  <2>1. /\ sstatus' \in {sstatus, [sstatus EXCEPT ![job] = "PROFIT_PROTECTED"]}
        /\ UNCHANGED <<order, held>>
    <3> HIDE DEF OwnershipInv, TypeInv, Move
    <3> QED
      BY <1>29 DEF TrailingSet, Save
  <2>2. task = "supervise" /\ job \in Intents /\ sstatus[job] \in Managed
    <3> HIDE DEF Move
    <3> QED
      BY <1>29 DEF TrailingSet
  <2>3. RowStep
    <3> HIDE DEF TypeInv, OwnershipInv, RowStep
    <3> QED
      BY <2>1, <2>2, ManagedStays
  <2> QED
    BY <2>3 DEF Move
<1>30. CASE PassFails
  BY <1>30 DEF PassFails
<1> HIDE DEF Move, OwnershipInv, EntryInv, TypeInv, Causes, Lots
<1> QED
  BY <1>1, <1>2, <1>3, <1>4, <1>5, <1>6, <1>7, <1>8, <1>9, <1>10, <1>11,
      <1>12, <1>13, <1>14, <1>15, <1>16, <1>17, <1>18, <1>19, <1>20, <1>21,
      <1>22, <1>23, <1>24, <1>25, <1>26, <1>27, <1>28, <1>29, <1>30 DEF
      Supervise

\* Steps of the exchange and the clock are moves.
LEMMA EnvironmentMoves ==
    ASSUME TypeInv, TypeInv', OwnershipInv, EntryInv, Environment PROVE Move
<1> USE AccountAssumption DEF TypeInv, TypeOK, LockOK, OwnershipInv, OpenClaim,
    SupervisedIsManaged, Move, RowStep, Owns, Pauses, Submits, Cancels, Fills,
    Lapses, Leaves, CustodyOf, Active, Managed, Live, durable, exchange, rows,
    locals, Opening, Acting, Supervising, Lots
<1>1. ASSUME NEW x \in Lots, FillEntry(x) PROVE Move
  BY <1>1 DEF FillEntry
<1>2. ASSUME NEW x \in Lots, OrderEnds(x) PROVE Move
  BY <1>2 DEF OrderEnds
<1>3. ASSUME NEW x \in Lots, ExitFills(x) PROVE Move
  BY <1>3 DEF ExitFills
<1>4. ASSUME NEW s \in Symbols, StopOut(s) PROVE Move
  BY <1>4 DEF Position, StopOut
<1>5. ASSUME NEW i \in Intents, TtlPasses(i) PROVE Move
  BY <1>5 DEF TtlPasses
<1> HIDE DEF Move, OwnershipInv, EntryInv, TypeInv, Causes, Lots
<1> QED
  BY <1>1, <1>2, <1>3, <1>4, <1>5 DEF Environment

\* Steps of the approver are moves.
LEMMA ApproverMoves ==
    ASSUME TypeInv, TypeInv', OwnershipInv, EntryInv, Approver PROVE Move
<1> USE AccountAssumption DEF TypeInv, TypeOK, LockOK, OwnershipInv, OpenClaim,
    SupervisedIsManaged, Move, RowStep, Owns, Pauses, Submits, Cancels, Fills,
    Lapses, Leaves, CustodyOf, Active, Managed, Live, durable, exchange, rows,
    locals, Opening, Acting, Supervising, Lots
<1>1. ASSUME NEW i \in Intents, SkipIntent(i) PROVE Move
  BY <1>1 DEF SkipIntent
<1>2. ASSUME NEW a \in Actions, SkipAction(a) PROVE Move
  BY <1>2 DEF SkipAction
<1> HIDE DEF Move, OwnershipInv, EntryInv, TypeInv, Causes, Lots
<1> QED
  BY <1>1, <1>2 DEF Approver

\* The process dies or comes back.
LEMMA ProcessMoves ==
    ASSUME TypeInv, TypeInv', Crash \/ Restart PROVE Move
<1>1. CASE Crash
  BY <1>1 DEF Crash, durable, exchange, Move, RowStep
<1>2. CASE Restart
  BY <1>2 DEF Restart, Quarantined, exchange, Move, RowStep, CustodyOf, Active,
     Managed, TypeInv, TypeOK
<1> QED
  BY <1>1, <1>2

\* Every step is a move.
LEMMA NextMoves ==
    ASSUME TypeInv, TypeInv', OwnershipInv, EntryInv, Next PROVE Move
  BY ExchangeCallMoves, OpenMoves, ReduceMoves, CancelEntriesMoves,
     SuperviseMoves, EnvironmentMoves, ApproverMoves, ProcessMoves
     DEF Next, Handler

\* A move is a step of the contract, or the contract sees nothing.
LEMMA MoveImplements ==
    ASSUME TypeInv, TypeInv', OwnershipInv', EntryInv', Move
    PROVE  [Contract!Next]_(Contract!cvars)
<1> USE CustodyValues DEF Contract!cvars, Contract!Next
<1>0. /\ sstatus \in [Intents -> StrategyStatus] /\ sstatus' \in [Intents -> StrategyStatus]
      /\ order \in [Lots -> OrderStatus] /\ order' \in [Lots -> OrderStatus]
      /\ held \subseteq Lots /\ held' \subseteq Lots
  BY DEF TypeInv, TypeOK
<1>1. CASE RowStep
  <2> DEFINE I == {i \in Intents : CustodyOf(sstatus'[i]) # CustodyOf(sstatus[i])}
  <2>1. CASE I = {}
    BY <1>0, <1>1, <2>1 DEF RowStep
  <2>2. CASE I # {}
    <3>1. \A i \in I : /\ CustodyOf(sstatus[i]) \in {"owner", "person"}
                       /\ Contract!LotsOf(i) \cap {x \in Lots : order[x] \in Live} = {}
      <4> SUFFICES ASSUME NEW i \in I
                   PROVE /\ CustodyOf(sstatus[i]) \in {"owner", "person"}
                         /\ Contract!LotsOf(i) \cap {x \in Lots : order[x] \in Live} = {}
        OBVIOUS
      <4>1. sstatus[i] # "none" /\ sstatus'[i] = "CLOSED" /\ sstatus[i] # "CLOSED"
        BY <1>1 DEF RowStep
      <4>2. CustodyOf(sstatus[i]) \in {"owner", "person"}
        BY <4>1, <1>0
      <4>3. \A x \in Lots : x[1] = i => order[x] \notin Live
        BY <4>1, <1>1 DEF RowStep, EntryInv, ClosedHasNoRestingEntry
      <4>4. \A x \in Contract!LotsOf(i) : x[1] = i
        BY DEF Contract!LotsOf
      <4> QED
        BY <4>2, <4>3, <4>4
    <3>2. [i \in Intents |-> CustodyOf(sstatus'[i])]
            = [i \in Intents |-> IF i \in I THEN "closed" ELSE CustodyOf(sstatus[i])]
      BY <1>1 DEF RowStep
    <3>3. Contract!Close(I)
      BY <1>0, <1>1, <2>2, <3>1, <3>2 DEF Contract!Close, RowStep
    <3> QED
      BY <3>3
  <2> QED
    BY <2>1, <2>2
<1>2. CASE Owns
  <2>1. PICK i \in Intents :
          /\ sstatus[i] = "none" /\ sstatus' = [sstatus EXCEPT ![i] = "ENTERING"]
          /\ \A j \in Intents : SymbolOf[j] = SymbolOf[i] => sstatus[j] \notin Active
    BY <1>2 DEF Owns
  <2>2. "ENTERING" \in Active
    BY DEF Active, Managed
  <2>3. Contract!Own(i)
    BY <1>0, <1>2, <2>1, <2>2 DEF Contract!Own, Owns
  <2> QED
    BY <2>3
<1>3. CASE Pauses
  <2>1. PICK i \in Intents :
          sstatus[i] \in Managed /\ sstatus' = [sstatus EXCEPT ![i] = "MANUAL_OVERRIDE"]
    BY <1>3 DEF Pauses
  <2>2. Contract!HandOver(i)
    BY <1>0, <1>3, <2>1 DEF Contract!HandOver, Pauses, Active
  <2> QED
    BY <2>2
<1>4. CASE Submits
  <2>1. PICK i \in Intents :
          /\ sstatus[i] \in Active
          /\ \A x \in Lots : \/ order'[x] = order[x]
                             \/ x[1] = i /\ order[x] = "none" /\ order'[x] = "open"
    BY <1>4 DEF Submits
  <2> DEFINE L == {x \in Lots : order'[x] # order[x]}
  <2>2. L \subseteq Contract!LotsOf(i)
    BY <2>1 DEF Contract!LotsOf, Lots
  <2>3. CASE L = {}
    <3>1. order' = order
      BY <1>0, <2>3
    <3> QED
      BY <1>4, <3>1 DEF Submits
  <2>4. CASE L # {}
    <3>1. L \cap {x \in Lots : order[x] # "none"} = {}
      BY <2>1
    <3>2. {x \in Lots : order'[x] # "none"} = {x \in Lots : order[x] # "none"} \cup L
      BY <2>1
    <3>3. {x \in Lots : order'[x] \in Live} = {x \in Lots : order[x] \in Live} \cup L
      BY <2>1 DEF Live
    <3>4. Contract!Rivals(i) = {}
      <4> SUFFICES ASSUME NEW y \in {x \in Lots : order[x] \in Live} \cup held,
                          y[1] # i, SymbolOf[y[1]] = SymbolOf[i]
                   PROVE FALSE
        BY DEF Contract!Rivals
      <4>1. PICK x \in L : TRUE
        BY <2>4
      <4>2. x \in Lots /\ x[1] = i /\ order'[x] \in Live
        BY <2>1, <4>1 DEF Live
      <4>3. y \in Lots /\ (order'[y] \in Live \/ y \in held')
        BY <1>0, <1>4, <2>1 DEF Submits
      <4> QED
        BY <4>2, <4>3 DEF OwnershipInv, OneExposedOwner, Exposed
    <3>5. CustodyOf(sstatus[i]) = "owner"
      BY <2>1
    <3>6. PICK M \in SUBSET Contract!LotsOf(i) : M = L
      BY <2>2
    <3>7. Contract!Enter(i, M)
      BY <1>4, <2>4, <3>1, <3>2, <3>3, <3>4, <3>5, <3>6 DEF Contract!Enter, Submits
    <3> QED
      BY <3>7
  <2> QED
    BY <2>3, <2>4
<1>5. CASE Cancels
  <2>1. /\ {x \in Lots : order'[x] # "none"} = {x \in Lots : order[x] # "none"}
        /\ {x \in Lots : order'[x] \in Live} = {x \in Lots : order[x] \in Live}
    BY <1>5 DEF Cancels, Live
  <2> QED
    BY <1>5, <2>1 DEF Cancels
<1>6. CASE Fills
  <2>1. PICK x \in Lots : /\ order[x] \in Live /\ order' = [order EXCEPT ![x] = "filled"]
                          /\ held' = held \cup {x}
    BY <1>6 DEF Fills
  <2>2. /\ {y \in Lots : order'[y] # "none"} = {y \in Lots : order[y] # "none"}
        /\ {y \in Lots : order'[y] \in Live} = {y \in Lots : order[y] \in Live} \ {x}
    BY <1>0, <2>1 DEF Live
  <2>3. Contract!Fill(x)
    BY <1>6, <2>1, <2>2 DEF Contract!Fill, Fills
  <2> QED
    BY <2>3 DEF Contract!Lots, Lots
<1>7. CASE Lapses
  <2>1. PICK x \in Lots : order[x] \in Live /\ order' = [order EXCEPT ![x] = "cancelled"]
    BY <1>7 DEF Lapses
  <2>2. /\ {y \in Lots : order'[y] # "none"} = {y \in Lots : order[y] # "none"}
        /\ {y \in Lots : order'[y] \in Live} = {y \in Lots : order[y] \in Live} \ {x}
    BY <1>0, <2>1 DEF Live
  <2>3. Contract!Lapse(x)
    BY <1>7, <2>1, <2>2 DEF Contract!Lapse, Lapses
  <2> QED
    BY <2>3 DEF Contract!Lots, Lots
<1>8. CASE Leaves
  <2>1. CASE held' = held
    BY <1>8, <2>1 DEF Leaves
  <2>2. CASE held' # held
    <3> DEFINE R == held \ held'
    <3>1. R # {} /\ R \subseteq held /\ held' = held \ R
      BY <1>8, <2>2 DEF Leaves
    <3>2. Contract!Leave(R)
      BY <1>8, <3>1 DEF Contract!Leave, Leaves
    <3>3. R \in SUBSET Contract!Lots
      BY <1>0 DEF Contract!Lots, Lots
    <3> QED
      BY <3>2, <3>3
  <2> QED
    BY <2>1, <2>2
<1> QED
  BY <1>1, <1>2, <1>3, <1>4, <1>5, <1>6, <1>7, <1>8 DEF Move

\* Nothing is owned, submitted or held at the start.
LEMMA InitImplements == Init => Contract!Init
  BY CustodyValues DEF Init, Untraded, Contract!Init, Live

\* The coordinator, the supervisor, the approver, the exchange and a process that
\* dies and comes back, together, implement Custody: on every symbol strategies
\* take turns.
THEOREM ImplementsCustody == Spec => KeepsCustody
<1>1. TypeInv /\ TypeInv' /\ OwnershipInv /\ OwnershipInv' /\ EntryInv /\ EntryInv'
        /\ [Next]_vars => [Contract!Next]_(Contract!cvars)
  <2> SUFFICES ASSUME TypeInv, TypeInv', OwnershipInv, OwnershipInv', EntryInv,
                      EntryInv', [Next]_vars
               PROVE  [Contract!Next]_(Contract!cvars)
    OBVIOUS
  <2>1. CASE Next
    BY <2>1, NextMoves, MoveImplements
  <2>2. CASE UNCHANGED vars
    BY <2>2 DEF vars, durable, exchange, Contract!cvars
  <2> QED
    BY <2>1, <2>2
<1> QED
  BY <1>1, InitImplements, TypeInvariance, OwnershipInvariance, EntryInvariance, PTL
     DEF Spec, KeepsCustody, Contract!Spec

-----------------------------------------------------------------------------
(***************************************************************************)
(* What is durable stays decided, for any number of intents and actions:   *)
(* a decided row never moves, a quarantined strategy never returns to      *)
(* supervision, an ambiguous CLOSE or REDUCE quarantines its symbol, a     *)
(* trailing position never goes back to fixed risk, and a strategy that is *)
(* frozen has no entry left on the exchange.                               *)
(***************************************************************************)

\* The handler of an action holds its claim.
ActionClaim == task = "action" => act[job] = "EXECUTING"
\* Trailing needs frozen entries, and profit protection needs trailing.  A row
\* in MANUAL_OVERRIDE may hold an older snapshot; nobody resumes it.
TrailingRows ==
    \A i \in Intents :
        /\ sstatus[i] \in Managed /\ trailing[i] => frozen[i]
        /\ sstatus[i] = "PROFIT_PROTECTED" => trailing[i]
        /\ sstatus[i] = "none" => ~trailing[i]
\* A pass on its way to freeze has seen entries building, one on its way to
\* trail has seen them frozen.
Towards(S) ==
    task = "supervise" /\ (pc \in S \/ (pc \in Subroutines /\ cont \in S))
FreezesUnfrozen ==
    /\ Towards({"freeze", "expiryFreeze"}) => ~frozen[job]
    /\ Towards({"trail"}) => frozen[job]
DecisionInv == ActionClaim /\ TrailingRows /\ FreezesUnfrozen

\* What a step does not do, as the action properties of module System say it.
KeepsDecisions ==
    /\ \A i \in Intents : intent[i] \in Decided => intent'[i] = intent[i]
    /\ \A a \in Actions : act[a] \in Decided => act'[a] = act[a]
KeepsQuarantine ==
    \A i \in Intents :
        sstatus[i] \in {"UNCERTAIN", "MANUAL_OVERRIDE"}
        /\ sstatus'[i] # sstatus[i]
          => /\ sstatus'[i] = "CLOSED"
             /\ task = "action" /\ KindOf[job] = "CANCEL_ENTRIES"
             /\ \A x \in Own(i) : order[x] \notin Live
QuarantinesAmbiguity ==
    \A a \in Actions :
        KindOf[a] # "CANCEL_ENTRIES" /\ act[a] # "UNCERTAIN"
        /\ act'[a] = "UNCERTAIN"
          => \A i \in Intents : SymbolOf[i] = ActSymbol[a]
                => sstatus'[i] \notin Managed
KeepsTrailing ==
    \A i \in Intents :
        sstatus[i] = "PROFIT_PROTECTED" => sstatus'[i] # "OPEN_RISK"
DecisionStep ==
    KeepsDecisions /\ KeepsQuarantine /\ QuarantinesAmbiguity /\ KeepsTrailing
DecisionGoal == DecisionInv' /\ DecisionStep

\* No row is trailing and no handler runs at the start.
LEMMA InitDecision == Init => DecisionInv
  BY DEF Init, Untraded, DecisionInv, ActionClaim, TrailingRows, FreezesUnfrozen,
     Towards, Managed

\* Steps of account reads and cancellations preserve DecisionInv and keep what was decided.
LEMMA ExchangeCallDecision ==
    ASSUME TypeInv, TypeInv', OwnershipInv, EntryInv, DecisionInv, ExchangeCall
    PROVE  DecisionGoal
<1> USE AccountAssumption DEF TypeInv, TypeOK, LockOK, Subroutines,
    OwnershipInv, OpenClaim, SupervisedIsManaged, EntryInv, ReturnsTo,
    ActionJob, WithdrawnRestNothing, DecisionInv, ActionClaim, TrailingRows,
    FreezesUnfrozen, Towards, DecisionGoal, DecisionStep, KeepsDecisions,
    KeepsQuarantine, QuarantinesAmbiguity, KeepsTrailing, Decided,
    IntentStatus, Own, Reading, OpenLabels, Unplanned, WithdrawLabels, Active,
    Managed, Live, Holding, Goto, Raise, ReadThen, CancelThen,
    CancelEntriesThen, Acquire, Reset, Release, durable, exchange, process,
    rows, locals, Opening, Acting, Supervising, Lots
<1>1. CASE ReadPositions
  BY <1>1 DEF JobSymbol, Position, ReadPositions
<1>2. CASE ReadOrders
  BY <1>2 DEF JobSymbol, LiveEntries, ReadOrders
<1>3. CASE ReadRaises
  BY <1>3 DEF ReadRaises
<1>4. CASE ListEntries
  BY <1>4 DEF JobSymbol, LiveEntries, ListEntries
<1>5. ASSUME NEW x \in Lots, CancelOne(x) PROVE DecisionGoal
  BY <1>5 DEF CancelOne
<1>6. CASE CancelRaises
  BY <1>6 DEF CancelRaises
<1>7. CASE CancelledAll
  BY <1>7 DEF CancelledAll
<1>8. CASE EntriesGone
  BY <1>8 DEF EntriesGone
<1>9. CASE EntriesListAgain
  BY <1>9 DEF EntriesListAgain
<1>10. CASE EntriesStillActive
  BY <1>10 DEF EntriesStillActive
<1> HIDE DEF DecisionGoal, DecisionInv, EntryInv, OwnershipInv, TypeInv,
    Causes, Lots
<1> QED
  BY <1>1, <1>2, <1>3, <1>4, <1>5, <1>6, <1>7, <1>8, <1>9, <1>10 DEF
      ExchangeCall

\* Steps of opening an intent preserve DecisionInv and keep what was decided.
LEMMA OpenDecision ==
    ASSUME TypeInv, TypeInv', OwnershipInv, EntryInv, DecisionInv, Open
    PROVE  DecisionGoal
<1> USE AccountAssumption DEF TypeInv, TypeOK, LockOK, Subroutines,
    OwnershipInv, OpenClaim, SupervisedIsManaged, EntryInv, ReturnsTo,
    ActionJob, WithdrawnRestNothing, DecisionInv, ActionClaim, TrailingRows,
    FreezesUnfrozen, Towards, DecisionGoal, DecisionStep, KeepsDecisions,
    KeepsQuarantine, QuarantinesAmbiguity, KeepsTrailing, Decided,
    IntentStatus, Own, Reading, OpenLabels, Unplanned, WithdrawLabels, Active,
    Managed, Live, Holding, Goto, Raise, ReadThen, CancelThen,
    CancelEntriesThen, Acquire, Reset, Release, durable, exchange, process,
    rows, locals, Opening, Acting, Supervising, Lots
<1>1. ASSUME NEW i \in Intents, ClaimIntent(i) PROVE DecisionGoal
  BY <1>1 DEF ClaimIntent
<1>2. CASE CheckOwner
  BY <1>2 DEF SymbolOwned, CheckOwner
<1>3. CASE PreflightFlat
  BY <1>3 DEF FlatSnapshot, PreflightFlat
<1>4. CASE PreflightRefuses
  BY <1>4 DEF PreflightRefuses
<1>5. CASE CreateStrategy
  BY <1>5 DEF FlatSnapshot, CreateStrategy
<1>6. CASE Prepare
  BY <1>6 DEF Prepare
<1>7. CASE Revalidate
  BY <1>7 DEF FlatSnapshot, Revalidate
<1>8. CASE RevalidateRaises
  BY <1>8 DEF RevalidateRaises
<1>9. ASSUME NEW c \in Causes, PrepareRaises(c) PROVE DecisionGoal
  BY <1>9 DEF PrepareRaises
<1>10. ASSUME NEW c \in Causes, RebaseRaises(c) PROVE DecisionGoal
  BY <1>10 DEF RebaseRaises
<1>11. ASSUME NEW accepted \in BOOLEAN, NEW acked \in BOOLEAN,
    SubmitPrimary(accepted, acked) PROVE DecisionGoal
  BY <1>11 DEF SubmitPrimary
<1>12. CASE PrimaryFills
  BY <1>12 DEF PrimaryFills
<1>13. CASE PrimaryUnconfirmed
  BY <1>13 DEF PrimaryUnconfirmed
<1>14. CASE Rebase
  BY <1>14 DEF Rebase
<1>15. ASSUME NEW accepted \in SUBSET Legs, NEW acked \in BOOLEAN,
    SubmitBatch(accepted, acked) PROVE DecisionGoal
  BY <1>15 DEF BatchLegs, SubmitBatch
<1>16. ASSUME NEW reached \in SUBSET Lots, Rollback(reached) PROVE
    DecisionGoal
  BY <1>16 DEF BatchLegs, Rollback
<1>17. CASE MarkExecuted
  BY <1>17 DEF MarkExecuted
<1>18. CASE MarkExecutedRaises
  BY <1>18 DEF MarkExecutedRaises
<1>19. CASE RecordEntryFailure
  BY <1>19 DEF FailureStatus, RecordEntryFailure
<1>20. CASE HandlerAborts
  BY <1>20 DEF HandlerAborts
<1> HIDE DEF DecisionGoal, DecisionInv, EntryInv, OwnershipInv, TypeInv,
    Causes, Lots
<1> QED
  BY <1>1, <1>2, <1>3, <1>4, <1>5, <1>6, <1>7, <1>8, <1>9, <1>10, <1>11,
      <1>12, <1>13, <1>14, <1>15, <1>16, <1>17, <1>18, <1>19, <1>20 DEF Open

\* Steps of CLOSE and REDUCE preserve DecisionInv and keep what was decided.
LEMMA ReduceDecision ==
    ASSUME TypeInv, TypeInv', OwnershipInv, EntryInv, DecisionInv, Reduce
    PROVE  DecisionGoal
<1> USE AccountAssumption DEF TypeInv, TypeOK, LockOK, Subroutines,
    OwnershipInv, OpenClaim, SupervisedIsManaged, EntryInv, ReturnsTo,
    ActionJob, WithdrawnRestNothing, DecisionInv, ActionClaim, TrailingRows,
    FreezesUnfrozen, Towards, DecisionGoal, DecisionStep, KeepsDecisions,
    KeepsQuarantine, QuarantinesAmbiguity, KeepsTrailing, Decided,
    IntentStatus, Own, Reading, OpenLabels, Unplanned, WithdrawLabels, Active,
    Managed, Live, Holding, Goto, Raise, ReadThen, CancelThen,
    CancelEntriesThen, Acquire, Reset, Release, durable, exchange, process,
    rows, locals, Opening, Acting, Supervising, Lots
<1>1. ASSUME NEW a \in Actions, NEW tooOld \in BOOLEAN, ClaimAction(a, tooOld)
    PROVE DecisionGoal
  BY <1>1 DEF ClaimAction
<1>2. CASE StaleFails
  BY <1>2 DEF StaleFails
<1>3. CASE ValidateExposure
  BY <1>3 DEF Position, ValidateExposure
<1>4. CASE ValidateRaises
  BY <1>4 DEF ValidateRaises
<1>5. CASE Reread
  BY <1>5 DEF Reread
<1>6. CASE RereadRaises
  BY <1>6 DEF RereadRaises
<1>7. ASSUME NEW R \in SUBSET Lots, SubmitReduction(R) PROVE DecisionGoal
  BY <1>7 DEF Position, Reduction, SubmitReduction
<1>8. ASSUME NEW R \in SUBSET Lots, SubmitReductionUnknown(R) PROVE
    DecisionGoal
  BY <1>8 DEF Position, Reduction, SubmitReductionUnknown
<1>9. CASE SubmitReductionRefused
  BY <1>9 DEF SubmitReductionRefused
<1>10. CASE Confirm
  BY <1>10 DEF Position, Confirm
<1>11. CASE ConfirmRaises
  BY <1>11 DEF ConfirmRaises
<1>12. CASE CompleteClose
  BY <1>12 DEF ClosingStrategies, CompleteClose
<1>13. CASE CompleteReduce
  BY <1>13 DEF CompleteReduce
<1>14. CASE CompleteRaises
  BY <1>14 DEF CompleteRaises
<1>15. CASE ActionFails
  BY <1>15 DEF Quarantined, ActionFails
<1> HIDE DEF DecisionGoal, DecisionInv, EntryInv, OwnershipInv, TypeInv,
    Causes, Lots
<1> QED
  BY <1>1, <1>2, <1>3, <1>4, <1>5, <1>6, <1>7, <1>8, <1>9, <1>10, <1>11,
      <1>12, <1>13, <1>14, <1>15 DEF Reduce

\* Steps of CANCEL_ENTRIES preserve DecisionInv and keep what was decided.
LEMMA CancelEntriesDecision ==
    ASSUME TypeInv, TypeInv', OwnershipInv, EntryInv, DecisionInv, CancelEntries
    PROVE  DecisionGoal
<1> USE AccountAssumption DEF TypeInv, TypeOK, LockOK, Subroutines,
    OwnershipInv, OpenClaim, SupervisedIsManaged, EntryInv, ReturnsTo,
    ActionJob, WithdrawnRestNothing, DecisionInv, ActionClaim, TrailingRows,
    FreezesUnfrozen, Towards, DecisionGoal, DecisionStep, KeepsDecisions,
    KeepsQuarantine, QuarantinesAmbiguity, KeepsTrailing, Decided,
    IntentStatus, Own, Reading, OpenLabels, Unplanned, WithdrawLabels, Active,
    Managed, Live, Holding, Goto, Raise, ReadThen, CancelThen,
    CancelEntriesThen, Acquire, Reset, Release, durable, exchange, process,
    rows, locals, Opening, Acting, Supervising, Lots
<1>1. CASE ResolveTargets
  BY <1>1 DEF EntryCancellationTargets, ResolveTargets
<1>2. CASE NoTargets
  BY <1>2 DEF EntryCancellationTargets, NoTargets
<1>3. CASE Withdraw
  BY <1>3 DEF WithdrawnIntents, WithdrawRows, Withdraw
<1>4. CASE WithdrawRaises
  BY <1>4 DEF WithdrawRaises
<1>5. CASE WithdrawCancel
  BY <1>5 DEF OwnedByTargets, WithdrawCancel
<1>6. CASE WithdrawPolled
  BY <1>6 DEF OwnedByTargets, WithdrawPolled
<1>7. CASE WithdrawCompletes
  BY <1>7 DEF WithdrawnIntents, WithdrawRows, OwnedByTargets,
      WithdrawCompletes
<1>8. CASE WithdrawFails
  BY <1>8 DEF WithdrawnIntents, WithdrawRows, WithdrawFails
<1> HIDE DEF DecisionGoal, DecisionInv, EntryInv, OwnershipInv, TypeInv,
    Causes, Lots
<1> QED
  BY <1>1, <1>2, <1>3, <1>4, <1>5, <1>6, <1>7, <1>8 DEF CancelEntries

\* Steps of the supervision pass preserve DecisionInv and keep what was decided.
LEMMA SuperviseDecision ==
    ASSUME TypeInv, TypeInv', OwnershipInv, EntryInv, DecisionInv, Supervise
    PROVE  DecisionGoal
<1> USE AccountAssumption DEF TypeInv, TypeOK, LockOK, Subroutines,
    OwnershipInv, OpenClaim, SupervisedIsManaged, EntryInv, ReturnsTo,
    ActionJob, WithdrawnRestNothing, DecisionInv, ActionClaim, TrailingRows,
    FreezesUnfrozen, Towards, DecisionGoal, DecisionStep, KeepsDecisions,
    KeepsQuarantine, QuarantinesAmbiguity, KeepsTrailing, Decided,
    IntentStatus, Own, Reading, OpenLabels, Unplanned, WithdrawLabels, Active,
    Managed, Live, Holding, Goto, Raise, ReadThen, CancelThen,
    CancelEntriesThen, Acquire, Reset, Release, durable, exchange, process,
    rows, locals, Opening, Acting, Supervising, Lots
<1>1. ASSUME NEW i \in Intents, Reconcile(i) PROVE DecisionGoal
  BY <1>1 DEF Row, Reconcile
<1>2. CASE PositionMissing
  BY <1>2 DEF Mine, Expiring, Deciding, MissingPosition, PositionMissing
<1>3. CASE ExpireWithoutPosition
  BY <1>3 DEF Mine, Expiring, Deciding, ExpireWithoutPosition
<1>4. CASE ExpiredToFlat
  BY <1>4 DEF Mine, ExpiredClosable, ExpiredToFlat
<1>5. CASE ExpiredToFreeze
  BY <1>5 DEF ExpiredToFreeze
<1>6. CASE ExpiredFlatContinues
  BY <1>6 DEF Mine, MissingPosition, ExpiredClosable, ExpiredFlatContinues
<1>7. CASE CloseIfFlat
  BY <1>7 DEF Save, SaveStatus, Mine, CloseIfFlat
<1>8. CASE NotFlat
  BY <1>8 DEF Mine, NotFlat
<1>9. CASE Override
  BY <1>9 DEF Save, SaveStatus, Deciding, LivePosition, HandedOff, Override
<1>10. CASE ResumeInstall
  BY <1>10 DEF Save, Deciding, LivePosition, ResumeInstall
<1>11. CASE HandoffStops
  BY <1>11 DEF Deciding, LivePosition, GrewAfterFreeze, HandoffStops
<1>12. CASE HandoffGone
  BY <1>12 DEF HandoffGone
<1>13. CASE ExpireStaleEntries
  BY <1>13 DEF Mine, Expiring, Deciding, LivePosition, HandedOff,
      GrewAfterFreeze, Undisturbed, ExpireStaleEntries
<1>14. CASE ExpiredLiveContinues
  BY <1>14 DEF Mine, ExpiredClosable, ExpiredLiveContinues
<1>15. CASE NotExpired
  BY <1>15 DEF Expiring, Deciding, LivePosition, HandedOff, GrewAfterFreeze,
      Undisturbed, NotExpired
<1>16. CASE Installed
  BY <1>16 DEF Position, Save, Installed
<1>17. CASE InstallRaises
  BY <1>17 DEF InstallRaises
<1>18. CASE InstallPositionChanged
  BY <1>18 DEF Position, Save, InstallPositionChanged
<1>19. CASE FixedExitFilled
  BY <1>19 DEF Building, FixedExitFilled
<1>20. CASE AfterFixedExit
  BY <1>20 DEF Save, AfterFixedExit
<1>21. CASE Freeze
  BY <1>21 DEF Building, Freeze
<1>22. CASE Accumulate
  <2> DEFINE grew == lastSeen[job] = {} \/ ~(seenPos \subseteq lastSeen[job])
  <2>1. CASE grew
    <3>1. BeginInstall("OPEN_RISK", FALSE, FALSE) /\ Building
      <4> HIDE DEF TypeInv, OwnershipInv, EntryInv, DecisionInv, DecisionGoal, Release
      <4> QED
        BY <1>22, <2>1 DEF Accumulate
    <3> QED
      BY <3>1 DEF Building, BeginInstall, Save
  <2>2. CASE ~grew
    <3>1. SaveSeen(job, "OPEN_RISK") /\ Release /\ Building
      <4> HIDE DEF TypeInv, OwnershipInv, EntryInv, DecisionInv, DecisionGoal, Release
      <4> QED
        BY <1>22, <2>2 DEF Accumulate
    <3> QED
      BY <3>1 DEF Building, SaveSeen, Save
  <2> HIDE DEF DecisionGoal, grew
  <2> QED
    BY <2>1, <2>2
<1>23. CASE FreezeEntries
  <2>1. /\ task = "supervise" /\ pc = "freeze" /\ job \in Intents
        /\ ~frozen[job] /\ sstatus[job] \in Managed
        /\ UNCHANGED <<intent, act, order, task, job>>
    BY <1>23 DEF FreezeEntries, FreezeStep, BeginInstall, Save
  <2>2. CASE Mine # {} \/ polls = 0 \/ seenPos = {}
    <3>1. /\ UNCHANGED <<sstatus, frozen, trailing>>
          /\ pc' = "raise" \/ (pc' = "pos" /\ cont' \in {"freeze", "flat"})
      <4> HIDE DEF TypeInv, OwnershipInv, EntryInv, DecisionInv, DecisionGoal
      <4> QED
        BY <1>23, <2>2 DEF FreezeEntries, FreezeStep
    <3> QED
      BY <2>1, <3>1
  <2>3. CASE ~(Mine # {} \/ polls = 0 \/ seenPos = {})
    <3>1. PICK trail \in BOOLEAN : BeginInstall("OPEN_RISK", TRUE, trail)
      <4> HIDE DEF TypeInv, OwnershipInv, EntryInv, DecisionInv, DecisionGoal, Goto
      <4> QED
        BY <1>23, <2>3 DEF FreezeEntries, FreezeStep
    <3> QED
      BY <2>1, <3>1 DEF BeginInstall, Save
  <2> HIDE DEF DecisionGoal
  <2> QED
    BY <2>2, <2>3
<1>24. CASE ExpiryFreezeEntries
  BY <1>24 DEF Save, Mine, BeginInstall, FreezeStep, ExpiryFreezeEntries
<1>25. CASE StartRebalance
  BY <1>25 DEF StartRebalance
<1>26. CASE Rebalance
  BY <1>26 DEF Save, BeginInstall, Rebalance
<1>27. CASE ManageProfit
  BY <1>27 DEF Save, SaveSeen, ManageProfit
<1>28. CASE ActivateTrailing
  BY <1>28 DEF ActivateTrailing
<1>29. CASE TrailingSet
  <2>1. CASE seenPos = {}
    BY <1>29, <2>1 DEF TrailingSet
  <2>2. CASE seenPos # {}
    <3>1. /\ Supervising("trail")
          /\ Save(job, "PROFIT_PROTECTED", frozen[job], rebalance[job],
                  installing[job], TRUE, seenPos)
          /\ Release
      <4> HIDE DEF TypeInv, OwnershipInv, EntryInv, DecisionInv, DecisionGoal, Release
      <4> QED
        BY <1>29, <2>2 DEF TrailingSet
    <3> QED
      BY <3>1 DEF Save
  <2> HIDE DEF DecisionGoal
  <2> QED
    BY <2>1, <2>2
<1>30. CASE PassFails
  BY <1>30 DEF PassFails
<1> HIDE DEF DecisionGoal, DecisionInv, EntryInv, OwnershipInv, TypeInv,
    Causes, Lots
<1> QED
  BY <1>1, <1>2, <1>3, <1>4, <1>5, <1>6, <1>7, <1>8, <1>9, <1>10, <1>11,
      <1>12, <1>13, <1>14, <1>15, <1>16, <1>17, <1>18, <1>19, <1>20, <1>21,
      <1>22, <1>23, <1>24, <1>25, <1>26, <1>27, <1>28, <1>29, <1>30 DEF
      Supervise

\* Steps of the exchange and the clock preserve DecisionInv and keep what was decided.
LEMMA EnvironmentDecision ==
    ASSUME TypeInv, TypeInv', OwnershipInv, EntryInv, DecisionInv, Environment
    PROVE  DecisionGoal
<1> USE AccountAssumption DEF TypeInv, TypeOK, LockOK, Subroutines,
    OwnershipInv, OpenClaim, SupervisedIsManaged, EntryInv, ReturnsTo,
    ActionJob, WithdrawnRestNothing, DecisionInv, ActionClaim, TrailingRows,
    FreezesUnfrozen, Towards, DecisionGoal, DecisionStep, KeepsDecisions,
    KeepsQuarantine, QuarantinesAmbiguity, KeepsTrailing, Decided,
    IntentStatus, Own, Reading, OpenLabels, Unplanned, WithdrawLabels, Active,
    Managed, Live, Holding, Goto, Raise, ReadThen, CancelThen,
    CancelEntriesThen, Acquire, Reset, Release, durable, exchange, process,
    rows, locals, Opening, Acting, Supervising, Lots
<1>1. ASSUME NEW x \in Lots, FillEntry(x) PROVE DecisionGoal
  BY <1>1 DEF FillEntry
<1>2. ASSUME NEW x \in Lots, OrderEnds(x) PROVE DecisionGoal
  BY <1>2 DEF OrderEnds
<1>3. ASSUME NEW x \in Lots, ExitFills(x) PROVE DecisionGoal
  BY <1>3 DEF ExitFills
<1>4. ASSUME NEW s \in Symbols, StopOut(s) PROVE DecisionGoal
  BY <1>4 DEF Position, StopOut
<1>5. ASSUME NEW i \in Intents, TtlPasses(i) PROVE DecisionGoal
  BY <1>5 DEF TtlPasses
<1> HIDE DEF DecisionGoal, DecisionInv, EntryInv, OwnershipInv, TypeInv,
    Causes, Lots
<1> QED
  BY <1>1, <1>2, <1>3, <1>4, <1>5 DEF Environment

\* Steps of the approver preserve DecisionInv and keep what was decided.
LEMMA ApproverDecision ==
    ASSUME TypeInv, TypeInv', OwnershipInv, EntryInv, DecisionInv, Approver
    PROVE  DecisionGoal
<1> USE AccountAssumption DEF TypeInv, TypeOK, LockOK, Subroutines,
    OwnershipInv, OpenClaim, SupervisedIsManaged, EntryInv, ReturnsTo,
    ActionJob, WithdrawnRestNothing, DecisionInv, ActionClaim, TrailingRows,
    FreezesUnfrozen, Towards, DecisionGoal, DecisionStep, KeepsDecisions,
    KeepsQuarantine, QuarantinesAmbiguity, KeepsTrailing, Decided,
    IntentStatus, Own, Reading, OpenLabels, Unplanned, WithdrawLabels, Active,
    Managed, Live, Holding, Goto, Raise, ReadThen, CancelThen,
    CancelEntriesThen, Acquire, Reset, Release, durable, exchange, process,
    rows, locals, Opening, Acting, Supervising, Lots
<1>1. ASSUME NEW i \in Intents, SkipIntent(i) PROVE DecisionGoal
  BY <1>1 DEF SkipIntent
<1>2. ASSUME NEW a \in Actions, SkipAction(a) PROVE DecisionGoal
  BY <1>2 DEF SkipAction
<1> HIDE DEF DecisionGoal, DecisionInv, EntryInv, OwnershipInv, TypeInv,
    Causes, Lots
<1> QED
  BY <1>1, <1>2 DEF Approver

\* The process dies or comes back: only EXECUTING rows and the strategies of
\* interrupted actions move, and those into quarantine.
LEMMA ProcessDecision ==
    ASSUME TypeInv, TypeInv', OwnershipInv, DecisionInv, Crash \/ Restart
    PROVE  DecisionGoal
<1> USE DEF DecisionInv, ActionClaim, TrailingRows, FreezesUnfrozen, Towards,
    DecisionGoal, DecisionStep, KeepsDecisions, KeepsQuarantine,
    QuarantinesAmbiguity, KeepsTrailing
<1>1. CASE Crash
  BY <1>1 DEF Crash, Reset, durable, rows
<1>2. CASE Restart
  <2>1. task = "none"
    BY <1>2 DEF Restart, OwnershipInv, DownIsIdle
  <2> USE <1>2 DEF Restart, rows, locals, TypeInv, TypeOK
  <2>2. DecisionInv'
    BY <2>1 DEF Quarantined, Managed
  <2>3. KeepsDecisions
    BY DEF Decided
  <2>4. KeepsQuarantine /\ KeepsTrailing
    BY DEF Quarantined, Managed
  <2>5. QuarantinesAmbiguity
    <3>1. ASSUME NEW a \in Actions, KindOf[a] # "CANCEL_ENTRIES",
                 act[a] # "UNCERTAIN", act'[a] = "UNCERTAIN"
          PROVE  ActSymbol[a] \in InterruptedSymbols
      BY <3>1 DEF InterruptedSymbols
    <3> QED
      BY <3>1 DEF Quarantined, Managed
  <2> QED
    BY <2>2, <2>3, <2>4, <2>5
<1> QED
  BY <1>1, <1>2

\* One step, or none.
LEMMA NextDecision ==
    ASSUME TypeInv, TypeInv', OwnershipInv, EntryInv, DecisionInv, [Next]_vars
    PROVE  DecisionInv' /\ [DecisionStep]_vars
<1>1. CASE Next
  <2>1. DecisionGoal
    BY <1>1, ExchangeCallDecision, OpenDecision, ReduceDecision,
       CancelEntriesDecision, SuperviseDecision, EnvironmentDecision,
       ApproverDecision, ProcessDecision DEF Next, Handler
  <2> QED
    BY <2>1 DEF DecisionGoal
<1>2. CASE UNCHANGED vars
  BY <1>2 DEF vars, durable, rows, exchange, process, locals, DecisionInv,
     ActionClaim, TrailingRows, FreezesUnfrozen, Towards
<1> QED
  BY <1>1, <1>2

\* DecisionInv is an invariant and every step keeps what was decided.
LEMMA DecisionInvariance == Spec => []DecisionInv /\ [][DecisionStep]_vars
<1>1. TypeInv /\ TypeInv' /\ OwnershipInv /\ EntryInv /\ DecisionInv
      /\ [Next]_vars => DecisionInv' /\ [DecisionStep]_vars
  BY NextDecision
<1>2. Spec => []EntryInv
  BY EntryInvariance
<1> QED
  BY <1>1, <1>2, InitDecision, TypeInvariance, OwnershipInvariance, PTL
     DEF Spec

\* A decided intent or action never moves again.
THEOREM Final == Spec => DecisionsAreFinal
<1>1. [DecisionStep]_vars => [KeepsDecisions]_vars
  BY DEF DecisionStep
<1> QED
  BY <1>1, DecisionInvariance, PTL DEF DecisionsAreFinal, KeepsDecisions

\* A quarantined or paused strategy is never supervised again; only a source
\* withdrawal that leaves it without live entries closes it.
THEOREM Quarantine == Spec => QuarantineHolds
<1>1. [DecisionStep]_vars => [KeepsQuarantine]_vars
  BY DEF DecisionStep
<1> QED
  BY <1>1, DecisionInvariance, PTL DEF QuarantineHolds, KeepsQuarantine

\* A CLOSE or REDUCE with an unknown outcome takes its symbol out of automatic
\* management, whether it raised or was interrupted by a crash.
THEOREM Ambiguity == Spec => AmbiguityQuarantines
<1>1. [DecisionStep]_vars => [QuarantinesAmbiguity]_vars
  BY DEF DecisionStep
<1> QED
  BY <1>1, DecisionInvariance, PTL
     DEF AmbiguityQuarantines, QuarantinesAmbiguity

\* A trailing position is never put back to fixed risk.
THEOREM Trailing == Spec => TrailingIsKept
<1>1. [DecisionStep]_vars => [KeepsTrailing]_vars
  BY DEF DecisionStep
<1> QED
  BY <1>1, DecisionInvariance, PTL DEF TrailingIsKept, KeepsTrailing

(***************************************************************************)
(* Frozen entries.  Only a withdrawal freezes a row before it knows that   *)
(* the entries are gone; everything else freezes on a list of orders that  *)
(* is still current.                                                       *)
(***************************************************************************)
\* A withdrawal on the symbol of i was cut off or given up, or is running and
\* may have frozen i already.
Unsettled(i) ==
    \/ \E a \in Actions : /\ KindOf[a] = "CANCEL_ENTRIES"
                          /\ act[a] \in {"EXECUTING", "UNCERTAIN"}
                          /\ ActSymbol[a] = SymbolOf[i]
                          /\ ~(task = "action" /\ job = a)
    \/ i \in targets
\* FrozenHasNoRestingEntry, with a withdrawal that has touched only its targets.
FrozenRestsNothing ==
    \A x \in Lots :
        frozen[x[1]] /\ sstatus[x[1]] \in Managed /\ ~Unsettled(x[1])
            => order[x] \notin Live
\* No entry is submitted for a frozen row.
OpensUnfrozen ==
    /\ \A i \in Intents : sstatus[i] = "none" => ~frozen[i]
    /\ task = "open" => ~frozen[job]
\* The list of orders _freeze_entries decides on bounds the live ones.
FreezeListIsCurrent ==
    task = "supervise" /\ pc \in {"freeze", "expiryFreeze"}
        => \A x \in Lots : order[x] \in Live /\ SymbolOf[x[1]] = SymbolOf[job]
                             => x \in seenOrd
\* After a fixed exit filled, the entries of the symbol were listed as gone.
ExitCleared ==
    task = "supervise" /\ Reading({"fixedExit"})
        => \A x \in Lots : SymbolOf[x[1]] = SymbolOf[job] => order[x] \notin Live
RebalancesFrozen == Towards({"rebalance"}) => frozen[job]
\* Where the one-by-one cancellation of a pass returns.
CancelReturns ==
    task = "supervise" /\ pc = "cancel"
        => cont \in {"flat", "expiredFlat", "expiredLive"}
OnlyWithdrawalsTarget ==
    targets # {} => /\ task = "action" /\ KindOf[job] = "CANCEL_ENTRIES"
                    /\ pc \notin {"stale", "targets"}
FreezeInv ==
    /\ FrozenRestsNothing /\ OpensUnfrozen /\ FreezeListIsCurrent /\ ExitCleared
    /\ RebalancesFrozen /\ CancelReturns /\ OnlyWithdrawalsTarget

\* Nothing is frozen at the start.
LEMMA InitFreeze == Init => FreezeInv
  BY AccountAssumption DEF Init, Untraded, FreezeInv, FrozenRestsNothing,
     OpensUnfrozen, FreezeListIsCurrent, ExitCleared, RebalancesFrozen,
     CancelReturns, OnlyWithdrawalsTarget, Towards, Lots

\* Steps of account reads and cancellations preserve FreezeInv.
LEMMA ExchangeCallFreeze ==
    ASSUME TypeInv, TypeInv', OwnershipInv, EntryInv, DecisionInv, FreezeInv,
           ExchangeCall
    PROVE  FreezeInv'
<1> USE AccountAssumption DEF TypeInv, TypeOK, LockOK, Subroutines,
    OwnershipInv, OpenClaim, SupervisedIsManaged, EntryInv, ReturnsTo,
    OwnFresh, ListIsCurrent, ActionJob, WithdrawnRestNothing,
    ReducedSymbolRestsNothing, DecisionInv, ActionClaim, FreezesUnfrozen,
    Towards, FreezeInv, FrozenRestsNothing, Unsettled, OpensUnfrozen,
    FreezeListIsCurrent, ExitCleared, RebalancesFrozen, CancelReturns,
    OnlyWithdrawalsTarget, LiveEntries, JobSymbol, Reading, OpenLabels,
    Unplanned, WithdrawLabels, Active, Managed, Live, Holding, Goto, Raise,
    ReadThen, CancelThen, CancelEntriesThen, Acquire, Reset, Release, durable,
    exchange, process, rows, locals, Opening, Acting, Supervising, Lots
<1>1. CASE ReadPositions
  BY <1>1 DEF JobSymbol, Position, ReadPositions
<1>2. CASE ReadOrders
  BY <1>2 DEF JobSymbol, LiveEntries, ReadOrders
<1>3. CASE ReadRaises
  BY <1>3 DEF ReadRaises
<1>4. CASE ListEntries
  BY <1>4 DEF JobSymbol, LiveEntries, ListEntries
<1>5. ASSUME NEW x \in Lots, CancelOne(x) PROVE FreezeInv'
  BY <1>5 DEF CancelOne
<1>6. CASE CancelRaises
  BY <1>6 DEF CancelRaises
<1>7. CASE CancelledAll
  BY <1>7 DEF CancelledAll
<1>8. CASE EntriesGone
  BY <1>8 DEF EntriesGone
<1>9. CASE EntriesListAgain
  BY <1>9 DEF EntriesListAgain
<1>10. CASE EntriesStillActive
  BY <1>10 DEF EntriesStillActive
<1> HIDE DEF FreezeInv, DecisionInv, EntryInv, OwnershipInv, TypeInv,
    Causes, Lots
<1> QED
  BY <1>1, <1>2, <1>3, <1>4, <1>5, <1>6, <1>7, <1>8, <1>9, <1>10 DEF
      ExchangeCall

\* Steps of opening an intent preserve FreezeInv.
LEMMA OpenFreeze ==
    ASSUME TypeInv, TypeInv', OwnershipInv, EntryInv, DecisionInv, FreezeInv,
           Open
    PROVE  FreezeInv'
<1> USE AccountAssumption DEF TypeInv, TypeOK, LockOK, Subroutines,
    OwnershipInv, OpenClaim, SupervisedIsManaged, EntryInv, ReturnsTo,
    OwnFresh, ListIsCurrent, ActionJob, WithdrawnRestNothing,
    ReducedSymbolRestsNothing, DecisionInv, ActionClaim, FreezesUnfrozen,
    Towards, FreezeInv, FrozenRestsNothing, Unsettled, OpensUnfrozen,
    FreezeListIsCurrent, ExitCleared, RebalancesFrozen, CancelReturns,
    OnlyWithdrawalsTarget, LiveEntries, JobSymbol, Reading, OpenLabels,
    Unplanned, WithdrawLabels, Active, Managed, Live, Holding, Goto, Raise,
    ReadThen, CancelThen, CancelEntriesThen, Acquire, Reset, Release, durable,
    exchange, process, rows, locals, Opening, Acting, Supervising, Lots
<1>1. ASSUME NEW i \in Intents, ClaimIntent(i) PROVE FreezeInv'
  BY <1>1 DEF ClaimIntent, PendingIsFresh
<1>2. CASE CheckOwner
  BY <1>2 DEF SymbolOwned, CheckOwner
<1>3. CASE PreflightFlat
  BY <1>3 DEF FlatSnapshot, PreflightFlat
<1>4. CASE PreflightRefuses
  BY <1>4 DEF PreflightRefuses
<1>5. CASE CreateStrategy
  BY <1>5 DEF FlatSnapshot, CreateStrategy
<1>6. CASE Prepare
  BY <1>6 DEF Prepare
<1>7. CASE Revalidate
  BY <1>7 DEF FlatSnapshot, Revalidate
<1>8. CASE RevalidateRaises
  BY <1>8 DEF RevalidateRaises
<1>9. ASSUME NEW c \in Causes, PrepareRaises(c) PROVE FreezeInv'
  BY <1>9 DEF PrepareRaises
<1>10. ASSUME NEW c \in Causes, RebaseRaises(c) PROVE FreezeInv'
  BY <1>10 DEF RebaseRaises
<1>11. ASSUME NEW accepted \in BOOLEAN, NEW acked \in BOOLEAN,
    SubmitPrimary(accepted, acked) PROVE FreezeInv'
  BY <1>11 DEF SubmitPrimary
<1>12. CASE PrimaryFills
  BY <1>12 DEF PrimaryFills
<1>13. CASE PrimaryUnconfirmed
  BY <1>13 DEF PrimaryUnconfirmed
<1>14. CASE Rebase
  BY <1>14 DEF Rebase
<1>15. ASSUME NEW accepted \in SUBSET Legs, NEW acked \in BOOLEAN,
    SubmitBatch(accepted, acked) PROVE FreezeInv'
  BY <1>15 DEF BatchLegs, SubmitBatch
<1>16. ASSUME NEW reached \in SUBSET Lots, Rollback(reached) PROVE
    FreezeInv'
  BY <1>16 DEF BatchLegs, Rollback
<1>17. CASE MarkExecuted
  BY <1>17 DEF MarkExecuted
<1>18. CASE MarkExecutedRaises
  BY <1>18 DEF MarkExecutedRaises
<1>19. CASE RecordEntryFailure
  BY <1>19 DEF FailureStatus, RecordEntryFailure
<1>20. CASE HandlerAborts
  BY <1>20 DEF HandlerAborts
<1> HIDE DEF FreezeInv, DecisionInv, EntryInv, OwnershipInv, TypeInv,
    Causes, Lots
<1> QED
  BY <1>1, <1>2, <1>3, <1>4, <1>5, <1>6, <1>7, <1>8, <1>9, <1>10, <1>11,
      <1>12, <1>13, <1>14, <1>15, <1>16, <1>17, <1>18, <1>19, <1>20 DEF Open

\* Steps of CLOSE and REDUCE preserve FreezeInv.
LEMMA ReduceFreeze ==
    ASSUME TypeInv, TypeInv', OwnershipInv, EntryInv, DecisionInv, FreezeInv,
           Reduce
    PROVE  FreezeInv'
<1> USE AccountAssumption DEF TypeInv, TypeOK, LockOK, Subroutines,
    OwnershipInv, OpenClaim, SupervisedIsManaged, EntryInv, ReturnsTo,
    OwnFresh, ListIsCurrent, ActionJob, WithdrawnRestNothing,
    ReducedSymbolRestsNothing, DecisionInv, ActionClaim, FreezesUnfrozen,
    Towards, FreezeInv, FrozenRestsNothing, Unsettled, OpensUnfrozen,
    FreezeListIsCurrent, ExitCleared, RebalancesFrozen, CancelReturns,
    OnlyWithdrawalsTarget, LiveEntries, JobSymbol, Reading, OpenLabels,
    Unplanned, WithdrawLabels, Active, Managed, Live, Holding, Goto, Raise,
    ReadThen, CancelThen, CancelEntriesThen, Acquire, Reset, Release, durable,
    exchange, process, rows, locals, Opening, Acting, Supervising, Lots
<1>1. ASSUME NEW a \in Actions, NEW tooOld \in BOOLEAN, ClaimAction(a, tooOld)
    PROVE FreezeInv'
  BY <1>1 DEF ClaimAction
<1>2. CASE StaleFails
  BY <1>2 DEF StaleFails
<1>3. CASE ValidateExposure
  BY <1>3 DEF Position, ValidateExposure
<1>4. CASE ValidateRaises
  BY <1>4 DEF ValidateRaises
<1>5. CASE Reread
  BY <1>5 DEF Reread
<1>6. CASE RereadRaises
  BY <1>6 DEF RereadRaises
<1>7. ASSUME NEW R \in SUBSET Lots, SubmitReduction(R) PROVE FreezeInv'
  BY <1>7 DEF Position, Reduction, SubmitReduction
<1>8. ASSUME NEW R \in SUBSET Lots, SubmitReductionUnknown(R) PROVE
    FreezeInv'
  BY <1>8 DEF Position, Reduction, SubmitReductionUnknown
<1>9. CASE SubmitReductionRefused
  BY <1>9 DEF SubmitReductionRefused
<1>10. CASE Confirm
  BY <1>10 DEF Position, Confirm
<1>11. CASE ConfirmRaises
  BY <1>11 DEF ConfirmRaises
<1>12. CASE CompleteClose
  BY <1>12 DEF ClosingStrategies, CompleteClose
<1>13. CASE CompleteReduce
  BY <1>13 DEF CompleteReduce
<1>14. CASE CompleteRaises
  BY <1>14 DEF CompleteRaises
<1>15. CASE ActionFails
  BY <1>15 DEF Quarantined, ActionFails
<1> HIDE DEF FreezeInv, DecisionInv, EntryInv, OwnershipInv, TypeInv,
    Causes, Lots
<1> QED
  BY <1>1, <1>2, <1>3, <1>4, <1>5, <1>6, <1>7, <1>8, <1>9, <1>10, <1>11,
      <1>12, <1>13, <1>14, <1>15 DEF Reduce

\* Steps of CANCEL_ENTRIES preserve FreezeInv.
LEMMA CancelEntriesFreeze ==
    ASSUME TypeInv, TypeInv', OwnershipInv, EntryInv, DecisionInv, FreezeInv,
           CancelEntries
    PROVE  FreezeInv'
<1> USE AccountAssumption DEF TypeInv, TypeOK, LockOK, Subroutines,
    OwnershipInv, OpenClaim, SupervisedIsManaged, EntryInv, ReturnsTo,
    OwnFresh, ListIsCurrent, ActionJob, WithdrawnRestNothing,
    ReducedSymbolRestsNothing, DecisionInv, ActionClaim, FreezesUnfrozen,
    Towards, FreezeInv, FrozenRestsNothing, Unsettled, OpensUnfrozen,
    FreezeListIsCurrent, ExitCleared, RebalancesFrozen, CancelReturns,
    OnlyWithdrawalsTarget, LiveEntries, JobSymbol, Reading, OpenLabels,
    Unplanned, WithdrawLabels, Active, Managed, Live, Holding, Goto, Raise,
    ReadThen, CancelThen, CancelEntriesThen, Acquire, Reset, Release, durable,
    exchange, process, rows, locals, Opening, Acting, Supervising, Lots
<1>1. CASE ResolveTargets
  BY <1>1 DEF EntryCancellationTargets, ResolveTargets
<1>2. CASE NoTargets
  BY <1>2 DEF EntryCancellationTargets, NoTargets
<1>3. CASE Withdraw
  BY <1>3 DEF WithdrawnIntents, WithdrawRows, Withdraw
<1>4. CASE WithdrawRaises
  BY <1>4 DEF WithdrawRaises
<1>5. CASE WithdrawCancel
  BY <1>5 DEF OwnedByTargets, WithdrawCancel
<1>6. CASE WithdrawPolled
  BY <1>6 DEF OwnedByTargets, WithdrawPolled
<1>7. CASE WithdrawCompletes
  BY <1>7 DEF WithdrawnIntents, WithdrawRows, OwnedByTargets,
      WithdrawCompletes
<1>8. CASE WithdrawFails
  BY <1>8 DEF WithdrawnIntents, WithdrawRows, WithdrawFails
<1> HIDE DEF FreezeInv, DecisionInv, EntryInv, OwnershipInv, TypeInv,
    Causes, Lots
<1> QED
  BY <1>1, <1>2, <1>3, <1>4, <1>5, <1>6, <1>7, <1>8 DEF CancelEntries

\* Steps of the supervision pass preserve FreezeInv.
LEMMA SuperviseFreeze ==
    ASSUME TypeInv, TypeInv', OwnershipInv, EntryInv, DecisionInv, FreezeInv,
           Supervise
    PROVE  FreezeInv'
<1> USE AccountAssumption DEF TypeInv, TypeOK, LockOK, Subroutines,
    OwnershipInv, OpenClaim, SupervisedIsManaged, EntryInv, ReturnsTo,
    OwnFresh, ListIsCurrent, ActionJob, WithdrawnRestNothing,
    ReducedSymbolRestsNothing, DecisionInv, ActionClaim, FreezesUnfrozen,
    Towards, FreezeInv, FrozenRestsNothing, Unsettled, OpensUnfrozen,
    FreezeListIsCurrent, ExitCleared, RebalancesFrozen, CancelReturns,
    OnlyWithdrawalsTarget, LiveEntries, JobSymbol, Reading, OpenLabels,
    Unplanned, WithdrawLabels, Active, Managed, Live, Holding, Goto, Raise,
    ReadThen, CancelThen, CancelEntriesThen, Acquire, Reset, Release, durable,
    exchange, process, rows, locals, Opening, Acting, Supervising, Lots
<1>1. ASSUME NEW i \in Intents, Reconcile(i) PROVE FreezeInv'
  BY <1>1 DEF Row, Reconcile
<1>2. CASE PositionMissing
  BY <1>2 DEF Mine, Expiring, Deciding, MissingPosition, PositionMissing
<1>3. CASE ExpireWithoutPosition
  BY <1>3 DEF Mine, Expiring, Deciding, ExpireWithoutPosition
<1>4. CASE ExpiredToFlat
  BY <1>4 DEF Mine, ExpiredClosable, ExpiredToFlat
<1>5. CASE ExpiredToFreeze
  BY <1>5 DEF ExpiredToFreeze
<1>6. CASE ExpiredFlatContinues
  BY <1>6 DEF Mine, MissingPosition, ExpiredClosable, ExpiredFlatContinues
<1>7. CASE CloseIfFlat
  BY <1>7 DEF Save, SaveStatus, Mine, CloseIfFlat
<1>8. CASE NotFlat
  BY <1>8 DEF Mine, NotFlat
<1>9. CASE Override
  BY <1>9 DEF Save, SaveStatus, Deciding, LivePosition, HandedOff, Override
<1>10. CASE ResumeInstall
  BY <1>10 DEF Save, Deciding, LivePosition, ResumeInstall
<1>11. CASE HandoffStops
  BY <1>11 DEF Deciding, LivePosition, GrewAfterFreeze, HandoffStops
<1>12. CASE HandoffGone
  BY <1>12 DEF HandoffGone
<1>13. CASE ExpireStaleEntries
  BY <1>13 DEF Mine, Expiring, Deciding, LivePosition, HandedOff,
      GrewAfterFreeze, Undisturbed, ExpireStaleEntries
<1>14. CASE ExpiredLiveContinues
  BY <1>14 DEF Mine, ExpiredClosable, ExpiredLiveContinues
<1>15. CASE NotExpired
  BY <1>15 DEF Expiring, Deciding, LivePosition, HandedOff, GrewAfterFreeze,
      Undisturbed, NotExpired
<1>16. CASE Installed
  BY <1>16 DEF Position, Save, Installed
<1>17. CASE InstallRaises
  BY <1>17 DEF InstallRaises
<1>18. CASE InstallPositionChanged
  BY <1>18 DEF Position, Save, InstallPositionChanged
<1>19. CASE FixedExitFilled
  BY <1>19 DEF Building, FixedExitFilled
<1>20. CASE AfterFixedExit
  BY <1>20 DEF Save, AfterFixedExit
<1>21. CASE Freeze
  BY <1>21 DEF Building, Freeze
<1>22. CASE Accumulate
  <2> DEFINE grew == lastSeen[job] = {} \/ ~(seenPos \subseteq lastSeen[job])
  <2>1. CASE grew
    <3>1. BeginInstall("OPEN_RISK", FALSE, FALSE) /\ Building
      <4> HIDE DEF TypeInv, OwnershipInv, EntryInv, DecisionInv, FreezeInv, Release
      <4> QED
        BY <1>22, <2>1 DEF Accumulate
    <3> QED
      BY <3>1 DEF Building, BeginInstall, Save
  <2>2. CASE ~grew
    <3>1. SaveSeen(job, "OPEN_RISK") /\ Release /\ Building
      <4> HIDE DEF TypeInv, OwnershipInv, EntryInv, DecisionInv, FreezeInv, Release
      <4> QED
        BY <1>22, <2>2 DEF Accumulate
    <3> QED
      BY <3>1 DEF Building, SaveSeen, Save
  <2> HIDE DEF FreezeInv, grew
  <2> QED
    BY <2>1, <2>2
<1>23. CASE FreezeEntries
  <2>1. /\ task = "supervise" /\ pc = "freeze" /\ job \in Intents
        /\ ~frozen[job] /\ sstatus[job] \in Managed
        /\ UNCHANGED <<act, order, task, job, targets>>
    BY <1>23 DEF FreezeEntries, FreezeStep, BeginInstall, Save
  <2>2. CASE Mine # {} \/ polls = 0 \/ seenPos = {}
    <3>1. /\ UNCHANGED <<sstatus, frozen, trailing>>
          /\ pc' = "raise" \/ (pc' = "pos" /\ cont' \in {"freeze", "flat"})
      <4> HIDE DEF TypeInv, OwnershipInv, EntryInv, DecisionInv, FreezeInv
      <4> QED
        BY <1>23, <2>2 DEF FreezeEntries, FreezeStep
    <3> QED
      BY <2>1, <3>1
  <2>3. CASE ~(Mine # {} \/ polls = 0 \/ seenPos = {})
    <3>1. PICK trail \in BOOLEAN : BeginInstall("OPEN_RISK", TRUE, trail)
      <4> HIDE DEF TypeInv, OwnershipInv, EntryInv, DecisionInv, FreezeInv, Goto
      <4> QED
        BY <1>23, <2>3 DEF FreezeEntries, FreezeStep
    <3>2. \A x \in Lots : x[1] = job => order[x] \notin Live
      BY <2>1, <2>3 DEF Mine
    <3> QED
      BY <2>1, <3>1, <3>2 DEF BeginInstall, Save
  <2> HIDE DEF FreezeInv
  <2> QED
    BY <2>2, <2>3
<1>24. CASE ExpiryFreezeEntries
  BY <1>24 DEF Save, Mine, BeginInstall, FreezeStep, ExpiryFreezeEntries
<1>25. CASE StartRebalance
  BY <1>25 DEF StartRebalance
<1>26. CASE Rebalance
  BY <1>26 DEF Save, BeginInstall, Rebalance
<1>27. CASE ManageProfit
  BY <1>27 DEF Save, SaveSeen, ManageProfit
<1>28. CASE ActivateTrailing
  BY <1>28 DEF ActivateTrailing
<1>29. CASE TrailingSet
  <2>1. CASE seenPos = {}
    BY <1>29, <2>1 DEF TrailingSet
  <2>2. CASE seenPos # {}
    <3>1. /\ Supervising("trail")
          /\ Save(job, "PROFIT_PROTECTED", frozen[job], rebalance[job],
                  installing[job], TRUE, seenPos)
          /\ Release
      <4> HIDE DEF TypeInv, OwnershipInv, EntryInv, DecisionInv, FreezeInv, Release
      <4> QED
        BY <1>29, <2>2 DEF TrailingSet
    <3> QED
      BY <3>1 DEF Save
  <2> HIDE DEF FreezeInv
  <2> QED
    BY <2>1, <2>2
<1>30. CASE PassFails
  BY <1>30 DEF PassFails
<1> HIDE DEF FreezeInv, DecisionInv, EntryInv, OwnershipInv, TypeInv,
    Causes, Lots
<1> QED
  BY <1>1, <1>2, <1>3, <1>4, <1>5, <1>6, <1>7, <1>8, <1>9, <1>10, <1>11,
      <1>12, <1>13, <1>14, <1>15, <1>16, <1>17, <1>18, <1>19, <1>20, <1>21,
      <1>22, <1>23, <1>24, <1>25, <1>26, <1>27, <1>28, <1>29, <1>30 DEF
      Supervise

\* Steps of the exchange and the clock preserve FreezeInv.
LEMMA EnvironmentFreeze ==
    ASSUME TypeInv, TypeInv', OwnershipInv, EntryInv, DecisionInv, FreezeInv,
           Environment
    PROVE  FreezeInv'
<1> USE AccountAssumption DEF TypeInv, TypeOK, LockOK, Subroutines,
    OwnershipInv, OpenClaim, SupervisedIsManaged, EntryInv, ReturnsTo,
    OwnFresh, ListIsCurrent, ActionJob, WithdrawnRestNothing,
    ReducedSymbolRestsNothing, DecisionInv, ActionClaim, FreezesUnfrozen,
    Towards, FreezeInv, FrozenRestsNothing, Unsettled, OpensUnfrozen,
    FreezeListIsCurrent, ExitCleared, RebalancesFrozen, CancelReturns,
    OnlyWithdrawalsTarget, LiveEntries, JobSymbol, Reading, OpenLabels,
    Unplanned, WithdrawLabels, Active, Managed, Live, Holding, Goto, Raise,
    ReadThen, CancelThen, CancelEntriesThen, Acquire, Reset, Release, durable,
    exchange, process, rows, locals, Opening, Acting, Supervising, Lots
<1>1. ASSUME NEW x \in Lots, FillEntry(x) PROVE FreezeInv'
  BY <1>1 DEF FillEntry
<1>2. ASSUME NEW x \in Lots, OrderEnds(x) PROVE FreezeInv'
  BY <1>2 DEF OrderEnds
<1>3. ASSUME NEW x \in Lots, ExitFills(x) PROVE FreezeInv'
  BY <1>3 DEF ExitFills
<1>4. ASSUME NEW s \in Symbols, StopOut(s) PROVE FreezeInv'
  BY <1>4 DEF Position, StopOut
<1>5. ASSUME NEW i \in Intents, TtlPasses(i) PROVE FreezeInv'
  BY <1>5 DEF TtlPasses
<1> HIDE DEF FreezeInv, DecisionInv, EntryInv, OwnershipInv, TypeInv,
    Causes, Lots
<1> QED
  BY <1>1, <1>2, <1>3, <1>4, <1>5 DEF Environment

\* Steps of the approver preserve FreezeInv.
LEMMA ApproverFreeze ==
    ASSUME TypeInv, TypeInv', OwnershipInv, EntryInv, DecisionInv, FreezeInv,
           Approver
    PROVE  FreezeInv'
<1> USE AccountAssumption DEF TypeInv, TypeOK, LockOK, Subroutines,
    OwnershipInv, OpenClaim, SupervisedIsManaged, EntryInv, ReturnsTo,
    OwnFresh, ListIsCurrent, ActionJob, WithdrawnRestNothing,
    ReducedSymbolRestsNothing, DecisionInv, ActionClaim, FreezesUnfrozen,
    Towards, FreezeInv, FrozenRestsNothing, Unsettled, OpensUnfrozen,
    FreezeListIsCurrent, ExitCleared, RebalancesFrozen, CancelReturns,
    OnlyWithdrawalsTarget, LiveEntries, JobSymbol, Reading, OpenLabels,
    Unplanned, WithdrawLabels, Active, Managed, Live, Holding, Goto, Raise,
    ReadThen, CancelThen, CancelEntriesThen, Acquire, Reset, Release, durable,
    exchange, process, rows, locals, Opening, Acting, Supervising, Lots
<1>1. ASSUME NEW i \in Intents, SkipIntent(i) PROVE FreezeInv'
  BY <1>1 DEF SkipIntent
<1>2. ASSUME NEW a \in Actions, SkipAction(a) PROVE FreezeInv'
  BY <1>2 DEF SkipAction
<1> HIDE DEF FreezeInv, DecisionInv, EntryInv, OwnershipInv, TypeInv,
    Causes, Lots
<1> QED
  BY <1>1, <1>2 DEF Approver

\* The process dies or comes back: an interrupted withdrawal stays unsettled.
LEMMA ProcessFreeze ==
    ASSUME TypeInv, TypeInv', OwnershipInv, EntryInv, DecisionInv, FreezeInv,
           Crash \/ Restart
    PROVE  FreezeInv'
<1> USE DEF FreezeInv, FrozenRestsNothing, Unsettled, OpensUnfrozen,
    FreezeListIsCurrent, ExitCleared, RebalancesFrozen, CancelReturns,
    OnlyWithdrawalsTarget, Towards, Reading, DecisionInv, ActionClaim
<1>1. CASE Crash
  BY <1>1, AccountAssumption DEF Crash, Reset, durable, rows, exchange,
     TypeInv, TypeOK, LockOK, EntryInv, ActionJob
<1>2. CASE Restart
  <2>1. task = "none"
    BY <1>2 DEF Restart, OwnershipInv, DownIsIdle
  <2> USE <1>2 DEF Restart, rows, locals, exchange, TypeInv, TypeOK
  <2>2. \A i \in Intents : Unsettled(i) => Unsettled(i)'
    BY <2>1
  <2>3. \A i \in Intents : sstatus'[i] \in Managed => sstatus[i] \in Managed
    BY DEF Quarantined, Managed
  <2>4. FrozenRestsNothing'
    <3> SUFFICES ASSUME NEW x \in Lots, frozen'[x[1]],
                        sstatus'[x[1]] \in Managed, ~Unsettled(x[1])'
                 PROVE  order'[x] \notin Live
      OBVIOUS
    <3>1. x[1] \in Intents
      BY DEF Lots
    <3> QED
      BY <2>2, <2>3, <3>1
  <2>5. \A i \in Intents : sstatus'[i] = "none" => sstatus[i] = "none"
    BY DEF Quarantined
  <2> QED
    BY <2>1, <2>4, <2>5
<1> QED
  BY <1>1, <1>2

\* One step, or none.
LEMMA NextFreeze ==
    ASSUME TypeInv, TypeInv', OwnershipInv, EntryInv, DecisionInv, FreezeInv,
           [Next]_vars
    PROVE  FreezeInv'
<1>1. CASE Next
  BY <1>1, ExchangeCallFreeze, OpenFreeze, ReduceFreeze, CancelEntriesFreeze,
     SuperviseFreeze, EnvironmentFreeze, ApproverFreeze, ProcessFreeze
     DEF Next, Handler
<1>2. CASE UNCHANGED vars
  BY <1>2 DEF vars, durable, rows, exchange, process, locals, FreezeInv,
     FrozenRestsNothing, Unsettled, OpensUnfrozen, FreezeListIsCurrent,
     ExitCleared, RebalancesFrozen, CancelReturns, OnlyWithdrawalsTarget,
     Towards, Reading
<1> QED
  BY <1>1, <1>2

\* The targets of a withdrawal are on its symbol and it is running, so whoever
\* is unsettled has an open withdrawal.
LEMMA UnsettledHasWithdrawal ==
    ASSUME TypeInv, EntryInv, DecisionInv, FreezeInv, NEW i \in Intents, Unsettled(i)
    PROVE  WithdrawalOpen(i)
<1>1. CASE i \in targets
  BY <1>1, AccountAssumption DEF FreezeInv, OnlyWithdrawalsTarget, TypeInv, LockOK,
     EntryInv, ActionJob, DecisionInv, ActionClaim, WithdrawalOpen
<1> QED
  BY <1>1 DEF Unsettled, WithdrawalOpen

\* A frozen strategy under supervision has no entry resting, unless a withdrawal
\* of the symbol was given up or is still running: nothing can grow the position
\* its exits are sized for, whatever fills, crashes and restarts in between.
THEOREM FrozenEntries == Spec => []FrozenHasNoRestingEntry
<1>1. TypeInv /\ TypeInv' /\ OwnershipInv /\ EntryInv /\ DecisionInv /\ FreezeInv
      /\ [Next]_vars => FreezeInv'
  BY NextFreeze
<1>2. TypeInv /\ EntryInv /\ DecisionInv /\ FreezeInv => FrozenHasNoRestingEntry
  BY UnsettledHasWithdrawal
     DEF FreezeInv, FrozenRestsNothing, FrozenHasNoRestingEntry, Lots
<1>3. Spec => []EntryInv /\ []DecisionInv
  BY EntryInvariance, DecisionInvariance
<1> QED
  BY <1>1, <1>2, <1>3, InitFreeze, TypeInvariance, OwnershipInvariance, PTL
     DEF Spec
=============================================================================
