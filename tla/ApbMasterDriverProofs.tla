----------------------- MODULE ApbMasterDriverProofs -----------------------
(***************************************************************************)
(* Proofs about ApbMasterDriver, for every set of items and priorities and *)
(* any number of resets.                                                   *)
(***************************************************************************)
EXTENDS ApbMasterDriver, QueueOpsProofs

(***************************************************************************)
(* What the processes have in hand.  The size drive saw before it waited   *)
(* for the lock is still positive: nobody else takes items from mbox, and  *)
(* reset_driver empties it only when drive is dead.                        *)
(***************************************************************************)
InHand ==
  /\ getter \in {"bbox", "bbox_swap", "mbox", "mbox_swap"} => req \in Item
  /\ drive \in {"swap", "setup", "access"} => cur \in Item
  /\ drive = "lock" => Len(mbox) > 0

(***************************************************************************)
(* Outside of "run" no process is left.  The response thread and the       *)
(* collector are forked together, the first time only: before it nothing   *)
(* was requested, after a reset neither runs.                              *)
(***************************************************************************)
Forks ==
  /\ main # "run" =>
       /\ getter = "off" /\ req = NULL
       /\ drive = "off" /\ cur = NULL
       /\ rsp = "off" /\ ~collecting
  /\ main = "run" => has_finalize["rsp"]
  /\ main = "wait" => mbox = <<>>
  /\ has_finalize["rsp"] = has_finalize["collect"]
  /\ ~has_finalize["rsp"] => bbox = <<>> /\ fifo_mon_drv = <<>>
  /\ collecting = (rsp # "off")

(***************************************************************************)
(* The balance of bbox: while transfers are reported, every request in it  *)
(* is of an item on its way to the bus, of a reported transfer, or of the  *)
(* one the response thread works on.                                       *)
(***************************************************************************)
Entering == IF getter \in {"bbox_swap", "mbox"} THEN 1 ELSE 0
Leaving == IF drive \in {"swap", "setup"} THEN 1 ELSE 0
OnTheWay == Len(mbox) + Entering + Leaving

Balance ==
  /\ RequestForEveryTransfer
  /\ collecting => Len(bbox) = Len(fifo_mon_drv) + InService + OnTheWay

\* What was fetched before the last reset is neither fetched again nor in hand
Fetched ==
  /\ aborted \cap todo = {}
  /\ main = "run" => req \notin aborted

\* An item is with its sequence, in the getter's hand or once in mbox
Places ==
  /\ Distinct(mbox)
  /\ Elements(mbox) \cap todo = {}
  /\ Pending \cap (todo \cup Elements(mbox)) = {}

IInv ==
  /\ TypeOK /\ InHand /\ Forks /\ Balance /\ Fetched /\ Places
  /\ NoNullResponse /\ NoStaleDrive

-----------------------------------------------------------------------------
\* Taking the first of a sorted queue that is not empty
LEMMA TakeLemma ==
  ASSUME NEW q \in Seq(Item), Len(q) > 0, NEW s \in Sorts(q, Prio)
  PROVE  /\ WithoutFront(s) \in Seq(Item)
         /\ Len(WithoutFront(s)) = Len(q) - 1
         /\ FrontOf(s) \in Item /\ FrontOf(s) \in Elements(q)
         /\ Elements(WithoutFront(s)) \subseteq Elements(q)
<1>1. s \in Seq(Item) /\ Len(s) = Len(q) /\ Elements(s) = Elements(q)
  BY SortLemma, ItemAssumption
<1>2. /\ WithoutFront(s) \in Seq(Item)
      /\ FrontOf(s) \in Item /\ FrontOf(s) \in Elements(s)
      /\ Elements(WithoutFront(s)) \subseteq Elements(s)
  BY <1>1, PopFrontLemma, ItemAssumption
<1>3. Len(WithoutFront(s)) = Len(s) - 1
  BY <1>1 DEF WithoutFront
<1>. QED BY <1>1, <1>2, <1>3

\* Deleting the first of a queue that is not empty
LEMMA DeleteFirstLemma ==
  ASSUME NEW q \in Seq(Item), Len(q) > 0
  PROVE  Delete(q, 0) \in Seq(Item) /\ Len(Delete(q, 0)) = Len(q) - 1
<1>1. InRange(q, 0)
  BY DEF InRange
<1>. QED BY <1>1, DeleteLemma

\* Every step keeps the types
LEMMA TypeStep == TypeOK /\ InHand /\ Forks /\ [Next]_vars => TypeOK'
<1>. SUFFICES ASSUME TypeOK, InHand, Forks, [Next]_vars PROVE TypeOK'
  OBVIOUS
<1>. USE DEF TypeOK, getVars, driveVars, rspVars, mboxVars, bboxVars, monVars, mainVars
<1>1. CASE UNCHANGED vars
  BY <1>1 DEF vars
<1>2. CASE Getter
  <2>1. CASE GetNextItem
    BY <2>1 DEF GetNextItem
  <2>2. CASE PushBbox
    <3>1. bbox' \in Seq(Item)
      BY <2>2, PushBackLemma DEF PushBbox, InHand
    <3>. QED BY <2>2, <3>1 DEF PushBbox
  <2>3. CASE PushedBbox
    <3>1. bbox_lock' \in BOOLEAN
      BY <2>3, Zenon DEF PushedBbox
    <3>. QED BY <2>3, <3>1 DEF PushedBbox
  <2>4. CASE DriveBus
    <3>1. mbox' \in Seq(Item)
      BY <2>4, PushBackLemma DEF DriveBus, InHand
    <3>. QED BY <2>4, <3>1 DEF DriveBus
  <2>5. CASE ItemDone
    <3>1. mbox_lock' \in BOOLEAN
      BY <2>5, Zenon DEF ItemDone
    <3>. QED BY <2>5, <3>1 DEF ItemDone
  <2>. QED BY <1>2, <2>1, <2>2, <2>3, <2>4, <2>5 DEF Getter
<1>3. CASE Drive
  <2>1. CASE DriveWaitSize
    BY <2>1 DEF DriveWaitSize
  <2>2. CASE DriveTake
    <3>1. mbox' \in Seq(Item) /\ cur' \in Item
      BY <2>2, TakeLemma DEF DriveTake, InHand
    <3>. QED BY <2>2, <3>1 DEF DriveTake
  <2>3. CASE DriveTaken
    <3>1. mbox_lock' \in BOOLEAN
      BY <2>3, Zenon DEF DriveTaken
    <3>. QED BY <2>3, <3>1 DEF DriveTaken
  <2>4. CASE DriveAccess
    <3>1. fifo_mon_drv' \in Seq(Item)
      BY <2>4 DEF DriveAccess, InHand
    <3>. QED BY <2>4, <3>1 DEF DriveAccess
  <2>5. CASE DriveEnd
    <3>1. data_complete' \subseteq Item
      BY <2>5 DEF DriveEnd, InHand
    <3>. QED BY <2>5, <3>1 DEF DriveEnd
  <2>. QED BY <1>3, <2>1, <2>2, <2>3, <2>4, <2>5 DEF Drive
<1>4. CASE Rsp
  <2>1. CASE RspGet
    <3>1. mitem' \in Item /\ fifo_mon_drv' \in Seq(Item)
      BY <2>1 DEF RspGet
    <3>. QED BY <2>1, <3>1 DEF RspGet
  <2>2. CASE RspComplete
    BY <2>2 DEF RspComplete
  <2>3. CASE RspGetBbox
    <3>1. ritem' \in Item \cup {NULL}
      BY <2>3 DEF RspGetBbox, Get, InRange
    <3>. QED BY <2>3, <3>1 DEF RspGetBbox
  <2>4. CASE RspGotBbox
    <3>1. bbox_lock' \in BOOLEAN
      BY <2>4, Zenon DEF RspGotBbox
    <3>. QED BY <2>4, <3>1 DEF RspGotBbox
  <2>5. CASE RspDelete
    <3>1. bbox' \in Seq(Item)
      BY <2>5, DeleteLemma DEF RspDelete
    <3>. QED BY <2>5, <3>1 DEF RspDelete
  <2>6. CASE RspUpdate
    <3>1. bbox_lock' \in BOOLEAN
      BY <2>6, Zenon DEF RspUpdate
    <3>2. answer' \in [Item -> Item \cup {NULL}]
      BY <2>6 DEF RspUpdate
    <3>. QED BY <2>6, <3>1, <3>2 DEF RspUpdate
  <2>. QED BY <1>4, <2>1, <2>2, <2>3, <2>4, <2>5, <2>6 DEF Rsp
<1>5. CASE Main
  <2>1. CASE ResetDriver
    BY <2>1 DEF ResetDriver, Thread
  <2>2. CASE RunThreads
    BY <2>2 DEF RunThreads
  <2>3. CASE ReleaseReset
    BY <2>3 DEF ReleaseReset
  <2>. QED BY <1>5, <2>1, <2>2, <2>3 DEF Main
<1>6. CASE Reset
  <2>1. resets' \in 0..MaxResets
    BY <1>6, MaxResetsAssumption DEF Reset
  <2>2. resetn' \in BOOLEAN /\ collecting' \in BOOLEAN
    BY <1>6, Zenon DEF Reset
  <2>. QED BY <1>6, <2>1, <2>2 DEF Reset
<1>. QED BY <1>1, <1>2, <1>3, <1>4, <1>5, <1>6 DEF Next

-----------------------------------------------------------------------------
\* Every step keeps what the processes have in hand
LEMMA InHandStep == TypeOK /\ InHand /\ Forks /\ [Next]_vars => InHand'
<1>. SUFFICES ASSUME TypeOK, InHand, Forks, [Next]_vars PROVE InHand'
  OBVIOUS
<1>. USE DEF InHand, getVars, driveVars, rspVars, mboxVars, bboxVars, monVars, mainVars
<1>0. mbox \in Seq(Item)
  BY DEF TypeOK
<1>1. CASE UNCHANGED vars
  BY <1>1 DEF vars
<1>2. CASE Getter
  <2>1. CASE GetNextItem
    BY <2>1 DEF GetNextItem, TypeOK
  <2>2. CASE DriveBus
    <3>1. Len(mbox') > 0
      BY <1>0, <2>2, PushBackLemma DEF DriveBus
    <3>. QED BY <2>2, <3>1 DEF DriveBus
  <2>3. CASE PushBbox \/ PushedBbox \/ ItemDone
    BY <2>3 DEF PushBbox, PushedBbox, ItemDone
  <2>. QED BY <1>2, <2>1, <2>2, <2>3 DEF Getter
<1>3. CASE Drive
  <2>1. CASE DriveTake
    <3>1. cur' \in Item
      BY <1>0, <2>1, TakeLemma DEF DriveTake
    <3>. QED BY <2>1, <3>1 DEF DriveTake
  <2>2. CASE DriveWaitSize \/ DriveTaken \/ DriveAccess \/ DriveEnd
    BY <2>2 DEF DriveWaitSize, DriveTaken, DriveAccess, DriveEnd
  <2>. QED BY <1>3, <2>1, <2>2 DEF Drive
<1>4. CASE Rsp
  BY <1>4 DEF Rsp, RspGet, RspComplete, RspGetBbox, RspGotBbox, RspDelete, RspUpdate
<1>5. CASE Main
  <2>1. CASE ResetDriver
    BY <2>1 DEF ResetDriver, Forks
  <2>2. CASE RunThreads
    BY <2>2 DEF RunThreads, Forks
  <2>3. CASE ReleaseReset
    BY <2>3 DEF ReleaseReset
  <2>. QED BY <1>5, <2>1, <2>2, <2>3 DEF Main
<1>6. CASE Reset
  BY <1>6 DEF Reset
<1>. QED BY <1>1, <1>2, <1>3, <1>4, <1>5, <1>6 DEF Next

\* Every step keeps the order in which processes are forked and killed
LEMMA ForksStep == TypeOK /\ Forks /\ [Next]_vars => Forks'
<1>. SUFFICES ASSUME TypeOK, Forks, [Next]_vars PROVE Forks'
  OBVIOUS
<1>. USE DEF Forks, getVars, driveVars, rspVars, mboxVars, bboxVars, monVars, mainVars
<1>1. CASE UNCHANGED vars
  BY <1>1 DEF vars
<1>2. CASE Getter
  <2>1. main = "run" /\ has_finalize["rsp"]
    BY <1>2 DEF Getter, GetNextItem, PushBbox, PushedBbox, DriveBus, ItemDone
  <2>2. UNCHANGED <<main, has_finalize, collecting, rsp, fifo_mon_drv>>
    BY <1>2 DEF Getter, GetNextItem, PushBbox, PushedBbox, DriveBus, ItemDone
  <2>. QED BY <2>1, <2>2
<1>3. CASE Drive
  <2>1. main = "run" /\ has_finalize["rsp"]
    BY <1>3 DEF Drive, DriveWaitSize, DriveTake, DriveTaken, DriveAccess, DriveEnd
  <2>2. UNCHANGED <<main, has_finalize, collecting, rsp>>
    BY <1>3 DEF Drive, DriveWaitSize, DriveTake, DriveTaken, DriveAccess, DriveEnd
  <2>. QED BY <2>1, <2>2
<1>4. CASE Rsp
  <2>1. main = "run" /\ has_finalize["rsp"] /\ rsp # "off" /\ rsp' # "off"
    BY <1>4 DEF Rsp, RspGet, RspComplete, RspGetBbox, RspGotBbox, RspDelete, RspUpdate
  <2>2. UNCHANGED <<main, has_finalize, collecting>>
    BY <1>4 DEF Rsp, RspGet, RspComplete, RspGetBbox, RspGotBbox, RspDelete, RspUpdate
  <2>. QED BY <2>1, <2>2
<1>5. CASE Main
  <2>0. has_finalize \in [Thread -> BOOLEAN]
    BY DEF TypeOK
  <2>1. CASE ResetDriver
    <3>1. has_finalize'["rsp"] = has_finalize["rsp"] /\ has_finalize'["collect"] = has_finalize["collect"]
      BY <2>0, <2>1 DEF ResetDriver, Thread
    <3>. QED BY <2>1, <3>1 DEF ResetDriver
  <2>2. CASE RunThreads
    <3>1. has_finalize'["rsp"] /\ has_finalize'["collect"]
      BY <2>2 DEF RunThreads, Thread
    <3>2. collecting' = (rsp' # "off")
      BY <2>2 DEF RunThreads
    <3>3. main' = "run"
      BY <2>2 DEF RunThreads
    <3>. QED BY <3>1, <3>2, <3>3
  <2>3. CASE ReleaseReset
    BY <2>3 DEF ReleaseReset
  <2>. QED BY <1>5, <2>1, <2>2, <2>3 DEF Main
<1>6. CASE Reset
  BY <1>6 DEF Reset
<1>. QED BY <1>1, <1>2, <1>3, <1>4, <1>5, <1>6 DEF Next

\* Every step keeps the balance of bbox
LEMMA BalanceStep == TypeOK /\ InHand /\ Forks /\ Balance /\ [Next]_vars => Balance'
<1>. SUFFICES ASSUME TypeOK, InHand, Forks, Balance, [Next]_vars PROVE Balance'
  OBVIOUS
<1>. USE DEF getVars, driveVars, rspVars, mboxVars, bboxVars, monVars, mainVars
<1>0. /\ mbox \in Seq(Item) /\ bbox \in Seq(Item) /\ fifo_mon_drv \in Seq(Item)
      /\ Len(mbox) \in Nat /\ Len(bbox) \in Nat /\ Len(fifo_mon_drv) \in Nat
      /\ Entering \in 0..1 /\ Leaving \in 0..1 /\ InService \in 0..1
  BY DEF TypeOK, Entering, Leaving, InService
<1>. USE <1>0
<1>1. CASE UNCHANGED vars
  BY <1>1 DEF vars, Balance, RequestForEveryTransfer, InService, OnTheWay, Entering, Leaving
<1>2. CASE Getter
  <2>1. CASE GetNextItem
    <3>1. /\ Len(mbox') = Len(mbox) /\ Len(bbox') = Len(bbox)
          /\ Len(fifo_mon_drv') = Len(fifo_mon_drv) /\ collecting' = collecting
      BY <2>1 DEF GetNextItem
    <3>2. InService' = InService /\ Entering' = Entering /\ Leaving' = Leaving
      BY <2>1 DEF GetNextItem, InService, Entering, Leaving
    <3>. QED BY <3>1, <3>2 DEF Balance, RequestForEveryTransfer, OnTheWay
  <2>2. CASE PushBbox
    <3>1. /\ Len(mbox') = Len(mbox) /\ Len(bbox') = Len(bbox) + 1
          /\ Len(fifo_mon_drv') = Len(fifo_mon_drv) /\ collecting' = collecting
      BY <2>2, PushBackLemma DEF PushBbox, InHand
    <3>2. InService' = InService /\ Entering' = Entering + 1 /\ Leaving' = Leaving
      BY <2>2 DEF PushBbox, InService, Entering, Leaving
    <3>. QED BY <3>1, <3>2 DEF Balance, RequestForEveryTransfer, OnTheWay
  <2>3. CASE PushedBbox
    <3>1. /\ Len(mbox') = Len(mbox) /\ Len(bbox') = Len(bbox)
          /\ Len(fifo_mon_drv') = Len(fifo_mon_drv) /\ collecting' = collecting
      BY <2>3 DEF PushedBbox
    <3>2. InService' = InService /\ Entering' = Entering /\ Leaving' = Leaving
      BY <2>3 DEF PushedBbox, InService, Entering, Leaving
    <3>. QED BY <3>1, <3>2 DEF Balance, RequestForEveryTransfer, OnTheWay
  <2>4. CASE DriveBus
    <3>1. /\ Len(mbox') = Len(mbox) + 1 /\ Len(bbox') = Len(bbox)
          /\ Len(fifo_mon_drv') = Len(fifo_mon_drv) /\ collecting' = collecting
      BY <2>4, PushBackLemma DEF DriveBus, InHand
    <3>2. InService' = InService /\ Entering = 1 /\ Entering' = 0 /\ Leaving' = Leaving
      BY <2>4 DEF DriveBus, InService, Entering, Leaving
    <3>3. OnTheWay' = OnTheWay
      BY <3>1, <3>2 DEF OnTheWay
    <3>. QED BY <3>1, <3>2, <3>3 DEF Balance, RequestForEveryTransfer
  <2>5. CASE ItemDone
    <3>1. /\ Len(mbox') = Len(mbox) /\ Len(bbox') = Len(bbox)
          /\ Len(fifo_mon_drv') = Len(fifo_mon_drv) /\ collecting' = collecting
      BY <2>5 DEF ItemDone
    <3>2. InService' = InService /\ Entering' = Entering /\ Leaving' = Leaving
      BY <2>5 DEF ItemDone, InService, Entering, Leaving
    <3>. QED BY <3>1, <3>2 DEF Balance, RequestForEveryTransfer, OnTheWay
  <2>. QED BY <1>2, <2>1, <2>2, <2>3, <2>4, <2>5 DEF Getter
<1>3. CASE Drive
  <2>1. CASE DriveWaitSize \/ DriveTaken \/ DriveEnd
    <3>1. /\ Len(mbox') = Len(mbox) /\ Len(bbox') = Len(bbox)
          /\ Len(fifo_mon_drv') = Len(fifo_mon_drv) /\ collecting' = collecting
      BY <2>1 DEF DriveWaitSize, DriveTaken, DriveEnd
    <3>2. InService' = InService /\ Entering' = Entering /\ Leaving' = Leaving
      BY <2>1 DEF DriveWaitSize, DriveTaken, DriveEnd, InService, Entering, Leaving
    <3>. QED BY <3>1, <3>2 DEF Balance, RequestForEveryTransfer, OnTheWay
  <2>2. CASE DriveTake
    <3>1. /\ Len(mbox') = Len(mbox) - 1 /\ Len(bbox') = Len(bbox)
          /\ Len(fifo_mon_drv') = Len(fifo_mon_drv) /\ collecting' = collecting
      BY <2>2, TakeLemma DEF DriveTake, InHand
    <3>2. InService' = InService /\ Entering' = Entering /\ Leaving' = Leaving + 1
      BY <2>2 DEF DriveTake, InService, Entering, Leaving
    <3>. QED BY <3>1, <3>2 DEF Balance, RequestForEveryTransfer, OnTheWay
  <2>3. CASE DriveAccess
    <3>1. Len(mbox') = Len(mbox) /\ Len(bbox') = Len(bbox) /\ collecting' = collecting
      BY <2>3 DEF DriveAccess
    <3>2. Len(fifo_mon_drv') = IF collecting THEN Len(fifo_mon_drv) + 1 ELSE Len(fifo_mon_drv)
      BY <2>3 DEF DriveAccess, InHand
    <3>3. InService' = InService /\ Entering' = Entering /\ Leaving = 1 /\ Leaving' = 0
      BY <2>3 DEF DriveAccess, InService, Entering, Leaving
    <3>4. OnTheWay' = OnTheWay - 1 /\ OnTheWay \in Nat /\ OnTheWay > 0
      BY <3>1, <3>3 DEF OnTheWay
    <3>5. CASE collecting
      <4>1. Len(fifo_mon_drv') = Len(fifo_mon_drv) + 1
        BY <3>2, <3>5
      <4>2. Len(bbox) = Len(fifo_mon_drv) + InService + OnTheWay
        BY <3>5 DEF Balance
      <4>. QED BY <3>1, <3>3, <3>4, <4>1, <4>2 DEF Balance, RequestForEveryTransfer
    <3>6. CASE ~collecting
      <4>1. Len(fifo_mon_drv') = Len(fifo_mon_drv)
        BY <3>2, <3>6
      <4>. QED BY <3>1, <3>3, <3>6, <4>1 DEF Balance, RequestForEveryTransfer
    <3>. QED BY <3>5, <3>6
  <2>. QED BY <1>3, <2>1, <2>2, <2>3 DEF Drive
<1>4. CASE Rsp
  <2>1. CASE RspGet
    <3>1. /\ Len(mbox') = Len(mbox) /\ Len(bbox') = Len(bbox)
          /\ Len(fifo_mon_drv') = Len(fifo_mon_drv) - 1 /\ collecting' = collecting
      BY <2>1 DEF RspGet
    <3>2. InService' = InService + 1 /\ Entering' = Entering /\ Leaving' = Leaving
      BY <2>1 DEF RspGet, InService, Entering, Leaving
    <3>. QED BY <3>1, <3>2 DEF Balance, RequestForEveryTransfer, OnTheWay
  <2>2. CASE RspComplete \/ RspGetBbox \/ RspGotBbox \/ RspUpdate
    <3>1. /\ Len(mbox') = Len(mbox) /\ Len(bbox') = Len(bbox)
          /\ Len(fifo_mon_drv') = Len(fifo_mon_drv) /\ collecting' = collecting
      BY <2>2 DEF RspComplete, RspGetBbox, RspGotBbox, RspUpdate
    <3>2. InService' = InService /\ Entering' = Entering /\ Leaving' = Leaving
      BY <2>2 DEF RspComplete, RspGetBbox, RspGotBbox, RspUpdate, InService, Entering, Leaving
    <3>. QED BY <3>1, <3>2 DEF Balance, RequestForEveryTransfer, OnTheWay
  <2>3. CASE RspDelete
    <3>1. Len(bbox) > 0
      BY <2>3 DEF RspDelete, Balance, RequestForEveryTransfer, InService
    <3>2. /\ Len(bbox') = Len(bbox) - 1 /\ Len(mbox') = Len(mbox)
          /\ Len(fifo_mon_drv') = Len(fifo_mon_drv) /\ collecting' = collecting
      BY <2>3, <3>1, DeleteFirstLemma DEF RspDelete
    <3>3. InService' = InService - 1 /\ Entering' = Entering /\ Leaving' = Leaving
      BY <2>3 DEF RspDelete, InService, Entering, Leaving
    <3>. QED BY <3>2, <3>3 DEF Balance, RequestForEveryTransfer, OnTheWay
  <2>. QED BY <1>4, <2>1, <2>2, <2>3 DEF Rsp
<1>5. CASE Main
  <2>1. CASE ResetDriver
    <3>1. Len(bbox') = Len(bbox) /\ Len(fifo_mon_drv') = Len(fifo_mon_drv) /\ ~collecting'
      BY <2>1 DEF ResetDriver, Forks
    <3>2. InService' = InService
      BY <2>1 DEF ResetDriver, InService
    <3>. QED BY <3>1, <3>2 DEF Balance, RequestForEveryTransfer
  <2>2. CASE RunThreads
    <3>1. InService = 0 /\ InService' = 0
      BY <2>2 DEF RunThreads, Forks, InService
    <3>2. Len(bbox') = Len(bbox) /\ Len(fifo_mon_drv') = Len(fifo_mon_drv)
      BY <2>2 DEF RunThreads
    <3>3. ASSUME collecting'
          PROVE  Len(bbox') = 0 /\ Len(fifo_mon_drv') = 0 /\ OnTheWay' = 0
      <4>1. bbox' = <<>> /\ fifo_mon_drv' = <<>> /\ mbox' = <<>>
        BY <2>2, <3>3 DEF RunThreads, Forks
      <4>2. Entering' = 0 /\ Leaving' = 0
        BY <2>2 DEF RunThreads, Forks, Entering, Leaving
      <4>. QED BY <4>1, <4>2 DEF OnTheWay
    <3>. QED BY <3>1, <3>2, <3>3 DEF Balance, RequestForEveryTransfer
  <2>3. CASE ReleaseReset
    BY <2>3 DEF ReleaseReset, Balance, RequestForEveryTransfer, InService, OnTheWay,
                Entering, Leaving
  <2>. QED BY <1>5, <2>1, <2>2, <2>3 DEF Main
<1>6. CASE Reset
  <2>1. Len(bbox') = Len(bbox) /\ Len(fifo_mon_drv') = Len(fifo_mon_drv) /\ ~collecting'
    BY <1>6 DEF Reset
  <2>2. InService' = 0
    BY <1>6 DEF Reset, InService
  <2>. QED BY <2>1, <2>2 DEF Balance, RequestForEveryTransfer
<1>. QED BY <1>1, <1>2, <1>3, <1>4, <1>5, <1>6 DEF Next

\* The response thread gets an item: the balance leaves one in bbox for it
LEMMA NoNullStep ==
  TypeOK /\ Balance /\ NoNullResponse /\ [Next]_vars => NoNullResponse'
<1>. SUFFICES ASSUME TypeOK, Balance, NoNullResponse, [Next]_vars PROVE NoNullResponse'
  OBVIOUS
<1>. USE DEF NoNullResponse
<1>1. CASE RspGetBbox
  <2>1. bbox \in Seq(Item) /\ Len(fifo_mon_drv) \in Nat
    BY DEF TypeOK
  <2>2. Len(bbox) > 0
    BY <1>1, <2>1 DEF RspGetBbox, Balance, RequestForEveryTransfer, InService
  <2>3. ritem' \in Item
    BY <1>1, <2>1, <2>2 DEF RspGetBbox, Get, InRange
  <2>. QED BY <2>3
<1>2. CASE UNCHANGED <<rsp, ritem>>
  BY <1>2
<1>3. CASE RspGet \/ RspComplete \/ RspGotBbox \/ RspDelete \/ RspUpdate
  BY <1>3 DEF RspGet, RspComplete, RspGotBbox, RspDelete, RspUpdate
<1>4. CASE RunThreads \/ Reset
  BY <1>4 DEF RunThreads, Reset
<1>. QED
  BY <1>1, <1>2, <1>3, <1>4
  DEF Next, vars, rspVars, Getter, Drive, Rsp, Main, GetNextItem, PushBbox, PushedBbox,
      DriveBus, ItemDone, DriveWaitSize, DriveTake, DriveTaken, DriveAccess, DriveEnd,
      ResetDriver, ReleaseReset

\* What was fetched before a reset is neither fetched again nor driven
LEMMA FetchedStep ==
  TypeOK /\ InHand /\ Forks /\ Fetched /\ NoStaleDrive /\ [Next]_vars
    => Fetched' /\ NoStaleDrive'
<1>. SUFFICES ASSUME TypeOK, InHand, Forks, Fetched, NoStaleDrive, [Next]_vars
              PROVE  Fetched' /\ NoStaleDrive'
  OBVIOUS
<1>. USE DEF Fetched, NoStaleDrive, getVars, driveVars, mboxVars, mainVars
<1>0. /\ mbox \in Seq(Item) /\ todo \subseteq Item /\ aborted \subseteq Item
      /\ NULL \notin aborted
  BY ItemAssumption DEF TypeOK
<1>1. CASE UNCHANGED vars
  BY <1>1 DEF vars
<1>2. CASE Getter
  <2>1. CASE GetNextItem
    BY <2>1 DEF GetNextItem, Forks
  <2>2. CASE DriveBus
    <3>1. main = "run" /\ req \in Item
      BY <2>2 DEF DriveBus, Forks, InHand
    <3>2. Elements(mbox') = Elements(mbox) \cup {req}
      BY <1>0, <2>2, <3>1, PushBackLemma DEF DriveBus
    <3>. QED BY <2>2, <3>1, <3>2 DEF DriveBus
  <2>3. CASE ItemDone
    BY <1>0, <2>3 DEF ItemDone
  <2>4. CASE PushBbox \/ PushedBbox
    BY <2>4 DEF PushBbox, PushedBbox
  <2>. QED BY <1>2, <2>1, <2>2, <2>3, <2>4 DEF Getter
<1>3. CASE Drive
  <2>1. CASE DriveTake
    <3>1. cur' \in Elements(mbox) /\ Elements(mbox') \subseteq Elements(mbox)
      BY <1>0, <2>1, TakeLemma DEF DriveTake, InHand
    <3>. QED BY <2>1, <3>1 DEF DriveTake
  <2>2. CASE DriveEnd
    BY <1>0, <2>2 DEF DriveEnd
  <2>3. CASE DriveWaitSize \/ DriveTaken \/ DriveAccess
    BY <2>3 DEF DriveWaitSize, DriveTaken, DriveAccess
  <2>. QED BY <1>3, <2>1, <2>2, <2>3 DEF Drive
<1>4. CASE Rsp
  BY <1>4 DEF Rsp, RspGet, RspComplete, RspGetBbox, RspGotBbox, RspDelete, RspUpdate
<1>5. CASE Main
  <2>1. CASE ResetDriver
    <3>1. Elements(mbox') = {} /\ cur' = NULL
      BY <2>1 DEF ResetDriver, Forks, Elements
    <3>. QED BY <1>0, <2>1, <3>1 DEF ResetDriver
  <2>2. CASE RunThreads
    BY <1>0, <2>2 DEF RunThreads, Forks
  <2>3. CASE ReleaseReset
    BY <2>3 DEF ReleaseReset
  <2>. QED BY <1>5, <2>1, <2>2, <2>3 DEF Main
<1>6. CASE Reset
  BY <1>6 DEF Reset
<1>. QED BY <1>1, <1>2, <1>3, <1>4, <1>5, <1>6 DEF Next

-----------------------------------------------------------------------------
\* Popping the first of a sorted queue takes one of its most urgent items out
LEMMA TakeUrgent ==
  ASSUME NEW q \in Seq(Item), Distinct(q), Len(q) > 0, NEW s \in Sorts(q, Prio)
  PROVE  /\ FrontOf(s) \in Elements(q)
         /\ \A x \in Elements(q) : Prio[FrontOf(s)] <= Prio[x]
         /\ Elements(WithoutFront(s)) = Elements(q) \ {FrontOf(s)}
         /\ Distinct(WithoutFront(s))
<1>1. /\ s \in Seq(Item) /\ Len(s) = Len(q) /\ Elements(s) = Elements(q) /\ Distinct(s)
      /\ \A x \in Elements(q) : Prio[s[1]] <= Prio[x]
  BY SortLemma, ItemAssumption
<1>2. /\ FrontOf(s) \in Item /\ FrontOf(s) \in Elements(s)
      /\ Elements(WithoutFront(s)) \subseteq Elements(s)
      /\ Elements(s) \subseteq Elements(WithoutFront(s)) \cup {FrontOf(s)}
      /\ FrontOf(s) \notin Elements(WithoutFront(s))
      /\ Distinct(WithoutFront(s))
  BY <1>1, PopFrontLemma, ItemAssumption
<1>3. FrontOf(s) = s[1]
  BY <1>1 DEF FrontOf
<1>. QED BY <1>1, <1>2, <1>3

(***************************************************************************)
(* What each step outside of a reset does to the items: nothing, one step  *)
(* of the getter's or one of drive's.                                      *)
(***************************************************************************)
\* drive_bus puts the item in hand, which is new to mbox
LEMMA DriveBusPuts ==
  ASSUME TypeOK, InHand, Places, DriveBus
  PROVE  /\ req \in Item /\ req \notin todo \cup Elements(mbox)
         /\ Pending = {req} /\ Pending' = {} /\ todo' = todo
         /\ Elements(mbox') = Elements(mbox) \cup {req}
         /\ Distinct(mbox')
<1>1. /\ req \in Item /\ Pending = {req} /\ Pending' = {} /\ todo' = todo
      /\ mbox \in Seq(Item) /\ mbox' = PushBack(mbox, req)
  BY DEF DriveBus, InHand, Pending, TypeOK
<1>2. req \notin todo \cup Elements(mbox) /\ Distinct(mbox)
  BY <1>1 DEF Places
<1>. QED BY <1>1, <1>2, PushBackLemma

\* async_prio_get takes an item that is as urgent as any in mbox
LEMMA DriveTakeTakes ==
  ASSUME TypeOK, InHand, Places, DriveTake
  PROVE  /\ cur' \in Elements(mbox)
         /\ \A x \in Elements(mbox) : Prio[cur'] <= Prio[x]
         /\ Elements(mbox') = Elements(mbox) \ {cur'}
         /\ Distinct(mbox')
         /\ Pending' = Pending /\ todo' = todo
<1>1. PICK s \in Sorts(mbox, Prio) : mbox' = WithoutFront(s) /\ cur' = FrontOf(s)
  BY DEF DriveTake
<1>2. mbox \in Seq(Item) /\ Distinct(mbox) /\ Len(mbox) > 0
  BY DEF DriveTake, InHand, Places, TypeOK
<1>3. Pending' = Pending /\ todo' = todo
  BY DEF DriveTake, Pending, getVars
<1>. QED BY <1>1, <1>2, <1>3, TakeUrgent

\* A step that is neither of these, nor a fetch, nor of a reset, moves no item
LEMMA OthersMoveNothing ==
  ASSUME Forks, [Next]_vars,
         ~DriveBus, ~DriveTake, ~GetNextItem, ~ResetDriver, ~Reset
  PROVE  todo' = todo /\ mbox' = mbox /\ Pending' = Pending
<1>. USE DEF Pending, getVars, mboxVars
<1>1. CASE UNCHANGED vars
  BY <1>1 DEF vars
<1>2. CASE Getter
  BY <1>2 DEF Getter, PushBbox, PushedBbox, ItemDone
<1>3. CASE Drive
  BY <1>3 DEF Drive, DriveWaitSize, DriveTaken, DriveAccess, DriveEnd
<1>4. CASE Rsp
  BY <1>4 DEF Rsp, RspGet, RspComplete, RspGetBbox, RspGotBbox, RspDelete, RspUpdate
<1>5. CASE Main
  BY <1>5 DEF Main, RunThreads, ReleaseReset, Forks
<1>. QED BY <1>1, <1>2, <1>3, <1>4, <1>5 DEF Next

\* A fetch moves an item from its sequence into the getter's hand
LEMMA FetchMoves ==
  ASSUME TypeOK, Places, GetNextItem
  PROVE  \E i \in todo : /\ todo' = todo \ {i} /\ mbox' = mbox
                         /\ Pending = {} /\ Pending' = {i}
BY DEF GetNextItem, Pending, mboxVars

\* Every step keeps each item in one place
LEMMA PlacesStep == TypeOK /\ InHand /\ Forks /\ Places /\ [Next]_vars => Places'
<1>. SUFFICES ASSUME TypeOK, InHand, Forks, Places, [Next]_vars PROVE Places'
  OBVIOUS
<1>0. /\ Elements(mbox)' = Elements(mbox') /\ Distinct(mbox)' = Distinct(mbox')
  BY DEF Elements, Distinct
<1>1. CASE GetNextItem
  BY <1>0, <1>1, FetchMoves DEF Places
<1>2. CASE DriveBus
  BY <1>0, <1>2, DriveBusPuts DEF Places
<1>3. CASE DriveTake
  BY <1>0, <1>3, DriveTakeTakes DEF Places
<1>4. CASE ResetDriver
  <2>1. todo' = todo /\ getter' = getter /\ getter = "off" /\ mbox' = <<>>
    BY <1>4 DEF ResetDriver, Forks, getVars
  <2>2. Pending' = {} /\ Elements(mbox') = {} /\ Distinct(mbox')
    BY <2>1 DEF Pending, Elements, Distinct
  <2>. QED BY <1>0, <2>1, <2>2 DEF Places
<1>5. CASE Reset
  BY <1>0, <1>5 DEF Reset, Places, Pending, mboxVars
<1>6. CASE ~DriveBus /\ ~DriveTake /\ ~GetNextItem /\ ~ResetDriver /\ ~Reset
  BY <1>0, <1>6, OthersMoveNothing DEF Places
<1>. QED BY <1>1, <1>2, <1>3, <1>4, <1>5, <1>6

\* A step outside of a reset is a put, a take of a most urgent item for the bus,
\* or leaves the mailbox as it is
LEMMA MailboxStep ==
  ASSUME TypeOK, InHand, Forks, Places, [Next]_vars, main # "reset", main' # "reset"
  PROVE  MboxStep
<1>0. Elements(mbox)' = Elements(mbox')
  BY DEF Elements
<1>g. /\ Gone = Item \ (todo \cup Pending \cup Elements(mbox))
      /\ Gone' = Item \ (todo' \cup Pending' \cup Elements(mbox'))
  BY <1>0 DEF Gone
<1>i. todo \subseteq Item /\ Elements(mbox) \subseteq Item
  BY DEF TypeOK, Elements
<1>1. CASE GetNextItem
  <2>1. PICK i \in todo : /\ todo' = todo \ {i} /\ mbox' = mbox
                         /\ Pending = {} /\ Pending' = {i}
    BY <1>1, FetchMoves
  <2>2. Gone' = Gone
    BY <1>g, <2>1
  <2>3. ~(drive = "lock" /\ drive' = "swap")
    BY <1>1 DEF GetNextItem, driveVars
  <2>. QED BY <1>0, <2>1, <2>2, <2>3 DEF MboxStep
<1>2. CASE DriveBus
  <2>1. Gone' = Gone /\ req \notin Elements(mbox) \cup Gone
    BY <1>2, <1>g, DriveBusPuts
  <2>2. Mail!Put(req)
    BY <1>0, <1>2, <2>1, DriveBusPuts DEF Mail!Put
  <2>3. ~(drive = "lock" /\ drive' = "swap")
    BY <1>2 DEF DriveBus, driveVars
  <2>. QED BY <1>2, <2>2, <2>3, DriveBusPuts DEF MboxStep, Mail!Next
<1>3. CASE DriveTake
  <2>1. cur' \in Item /\ Mail!MostUrgent(cur')
    BY <1>3, <1>i, DriveTakeTakes DEF Mail!MostUrgent
  <2>2. cur' \notin todo \cup Pending
    BY <1>3, DriveTakeTakes DEF Places
  <2>3. Gone' = Gone \cup {cur'}
    BY <1>3, <1>g, <2>1, <2>2, DriveTakeTakes
  <2>4. Mail!Take(cur')
    BY <1>0, <1>3, <2>1, <2>3, DriveTakeTakes DEF Mail!Take
  <2>. QED BY <2>1, <2>4 DEF MboxStep, Mail!Next
<1>4. CASE ResetDriver \/ Reset
  BY <1>4 DEF ResetDriver, Reset
<1>5. CASE ~DriveBus /\ ~DriveTake /\ ~GetNextItem /\ ~ResetDriver /\ ~Reset
  <2>1. todo' = todo /\ mbox' = mbox /\ Pending' = Pending
    BY <1>5, OthersMoveNothing
  <2>2. Gone' = Gone
    BY <1>g, <2>1
  <2>3. ~(drive = "lock" /\ drive' = "swap")
    BY <1>5 DEF Next, vars, driveVars, Getter, PushBbox, PushedBbox, ItemDone, Drive,
                DriveWaitSize, DriveTaken, DriveAccess, DriveEnd, Rsp, RspGet, RspComplete,
                RspGetBbox, RspGotBbox, RspDelete, RspUpdate, Main, RunThreads, ReleaseReset
  <2>. QED BY <1>0, <2>1, <2>2, <2>3 DEF MboxStep
<1>. QED BY <1>1, <1>2, <1>3, <1>4, <1>5

-----------------------------------------------------------------------------
\* The inductive invariant holds of every reachable state
THEOREM DriverInvariant == Spec => []IInv
<1>1. Init => IInv
  <2>. SUFFICES ASSUME Init PROVE IInv
    OBVIOUS
  <2>. USE DEF Init
  <2>1. TypeOK
    <3>1. <<>> \in Seq(Item) /\ 0 \in 0..MaxResets
      BY MaxResetsAssumption
    <3>2. has_finalize \in [Thread -> BOOLEAN] /\ answer \in [Item -> Item \cup {NULL}]
      OBVIOUS
    <3>. QED BY <3>1, <3>2 DEF TypeOK
  <2>2. InHand /\ Forks /\ Fetched /\ NoNullResponse /\ NoStaleDrive
    BY DEF InHand, Forks, Fetched, NoNullResponse, NoStaleDrive, Thread
  <2>4. Places
    BY DEF Places, Pending, Distinct, Elements
  <2>3. Balance
    BY DEF Balance, RequestForEveryTransfer, InService
  <2>. QED BY <2>1, <2>2, <2>3, <2>4 DEF IInv
<1>2. IInv /\ [Next]_vars => IInv'
  BY TypeStep, InHandStep, ForksStep, BalanceStep, NoNullStep, FetchedStep, PlacesStep
  DEF IInv
<1>. QED BY <1>1, <1>2, PTL DEF Spec

\* Neither queue ever holds a null item and every variable keeps its type,
\* whatever the resets kill (the push of a request, the sort and the pop)
THEOREM DriverTypeCorrect == Spec => []TypeOK
<1>1. IInv => TypeOK
  BY DEF IInv
<1>. QED BY <1>1, DriverInvariant, PTL

\* A request for every reported transfer: the response thread's wait for
\* bbox.size() > 0 never blocks it, after any number of resets too
THEOREM DriverRequestForEveryTransfer == Spec => []RequestForEveryTransfer
<1>1. IInv => RequestForEveryTransfer
  BY DEF IInv, Balance
<1>. QED BY <1>1, DriverInvariant, PTL

\* The response thread never works on a null item
THEOREM DriverNoNullResponse == Spec => []NoNullResponse
<1>1. IInv => NoNullResponse
  BY DEF IInv
<1>. QED BY <1>1, DriverInvariant, PTL

\* Nothing fetched before a reset reaches the bus after it
THEOREM DriverNoStaleDrive == Spec => []NoStaleDrive
<1>1. IInv => NoStaleDrive
  BY DEF IInv
<1>. QED BY <1>1, DriverInvariant, PTL

\* Between two resets drive_bus and drive use mbox as a mailbox: every item is
\* put once, and what goes to the bus is a most urgent of the queued items, for
\* any number of items and any priorities
THEOREM DriverMboxIsMailbox == Spec => MboxIsMailbox
<1>1. IInv /\ [Next]_vars => [main # "reset" /\ main' # "reset" => MboxStep]_vars
  BY MailboxStep DEF IInv
<1>. QED BY <1>1, DriverInvariant, PTL DEF Spec, MboxIsMailbox
=============================================================================
