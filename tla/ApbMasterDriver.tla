-------------------------- MODULE ApbMasterDriver --------------------------
(***************************************************************************)
(* The APB master driver: three processes around two smtdv_queues.         *)
(*   getter  fetches items from the sequencer; puts each into bbox, then   *)
(*           into mbox, and reports item_done without waiting for the bus; *)
(*   drive   (apb_master_drive_items) takes items from mbox by prio and    *)
(*           drives them on the bus;                                       *)
(*   rsp     (smtdv_rsp_back) takes each transfer the monitor saw, takes   *)
(*           the first item of bbox and writes the response into it.       *)
(* The async tasks of the queues are unfolded into their waits, because a  *)
(* reset kills the processes (disable fork) at any of them.                *)
(***************************************************************************)
EXTENDS QueueOps

CONSTANTS
  Item,       \* the items of the sequences
  Prio,       \* their prio
  MaxResets   \* bound on the resets in a behaviour

ASSUME ItemAssumption == NULL \notin Item /\ Prio \in [Item -> Int]
ASSUME MaxResetsAssumption == MaxResets \in Nat

VARIABLES
  todo,        \* items the sequences have not sent yet
  getter, req,                \* the fetching loop of smtdv_driver::run_phase
  drive, cur,                 \* apb_master_drive_items::run
  rsp, mitem, ritem,          \* smtdv_rsp_back::run
  mbox, mbox_lock,
  bbox, bbox_lock,
  fifo_mon_drv,               \* transfers seen by the monitor, by their item
  data_complete,              \* those whose data phase is over
  answer,                     \* answer[i]: the transfer whose response item i got
  resetn, main,               \* smtdv_driver::run_phase
  has_finalize,               \* of the threads: drive, rsp and the collector
  collecting,                 \* the collect threads of the monitor run
  aborted,                    \* history: items fetched before the last reset
  resets

getVars == <<todo, getter, req>>
driveVars == <<drive, cur>>
rspVars == <<rsp, mitem, ritem, answer>>
mboxVars == <<mbox, mbox_lock>>
bboxVars == <<bbox, bbox_lock>>
monVars == <<fifo_mon_drv, data_complete, collecting>>
mainVars == <<resetn, main, has_finalize, aborted, resets>>
vars == <<getVars, driveVars, rspVars, mboxVars, bboxVars, monVars, mainVars>>

Thread == {"drive", "rsp", "collect"}

Init ==
  /\ todo = Item /\ getter = "off" /\ req = NULL
  /\ drive = "off" /\ cur = NULL
  /\ rsp = "off" /\ mitem = NULL /\ ritem = NULL
  /\ answer = [i \in Item |-> NULL]
  /\ mbox = <<>> /\ mbox_lock = FALSE
  /\ bbox = <<>> /\ bbox_lock = FALSE
  /\ fifo_mon_drv = <<>> /\ data_complete = {} /\ collecting = FALSE
  /\ resetn = FALSE /\ main = "reset"
  /\ has_finalize = [t \in Thread |-> FALSE]
  /\ aborted = {} /\ resets = 0

-----------------------------------------------------------------------------
(***************************************************************************)
(* The next clock edge comes when no process can run: each is off, at a    *)
(* clock edge itself, or at a wait whose condition is false.               *)
(***************************************************************************)
Settled ==
  /\ \/ getter \in {"off", "get"}
     \/ getter = "bbox" /\ bbox_lock
     \/ getter = "mbox" /\ mbox_lock
  /\ \/ drive \in {"off", "setup", "access"}
     \/ drive = "size" /\ mbox = <<>>
     \/ drive = "lock" /\ mbox_lock
  /\ \/ rsp = "off"
     \/ rsp = "get" /\ fifo_mon_drv = <<>>
     \/ rsp = "complete" /\ (mitem \notin data_complete \/ bbox = <<>>)
     \/ rsp \in {"lock", "delete"} /\ bbox_lock

(***************************************************************************)
(* getter: at a clock edge get_next_item; bbox.async_push_back; drive_bus, *)
(* which is mbox.async_push_back; item_done                                *)
(***************************************************************************)
GetNextItem ==
  /\ Settled
  /\ getter = "get"
  /\ \E i \in todo : req' = i /\ todo' = todo \ {i}
  /\ getter' = "bbox"
  /\ UNCHANGED <<driveVars, rspVars, mboxVars, bboxVars, monVars, mainVars>>

\* Mutant: the request is not put into bbox
PushBboxForgets ==
  /\ getter = "bbox"
  /\ ~bbox_lock
  /\ bbox_lock' = TRUE
  /\ getter' = "bbox_swap"
  /\ UNCHANGED <<todo, req, driveVars, rspVars, mboxVars, bbox, monVars, mainVars>>

PushBbox ==
  /\ getter = "bbox"
  /\ ~bbox_lock
  /\ bbox' = PushBack(bbox, req)
  /\ bbox_lock' = TRUE
  /\ getter' = "bbox_swap"
  /\ UNCHANGED <<todo, req, driveVars, rspVars, mboxVars, monVars, mainVars>>

PushedBbox ==
  /\ getter = "bbox_swap"
  /\ bbox_lock' = FALSE
  /\ getter' = "mbox"
  /\ UNCHANGED <<todo, req, driveVars, rspVars, mboxVars, bbox, monVars, mainVars>>

DriveBus ==
  /\ getter = "mbox"
  /\ ~mbox_lock
  /\ mbox' = PushBack(mbox, req)
  /\ mbox_lock' = TRUE
  /\ getter' = "mbox_swap"
  /\ UNCHANGED <<todo, req, driveVars, rspVars, bboxVars, monVars, mainVars>>

ItemDone ==
  /\ getter = "mbox_swap"
  /\ mbox_lock' = FALSE
  /\ getter' = "get"
  /\ req' = NULL
  /\ UNCHANGED <<todo, driveVars, rspVars, mbox, bboxVars, monVars, mainVars>>

(***************************************************************************)
(* drive: mbox.async_prio_get, then the setup and access phases            *)
(***************************************************************************)
\* Mutant: the wait for size() > 0 is missing
DriveWaitSizeUnguarded ==
  /\ drive = "size"
  /\ drive' = "lock"
  /\ UNCHANGED <<getVars, cur, rspVars, mboxVars, bboxVars, monVars, mainVars>>

DriveWaitSize ==
  /\ drive = "size"
  /\ Len(mbox) > 0
  /\ drive' = "lock"
  /\ UNCHANGED <<getVars, cur, rspVars, mboxVars, bboxVars, monVars, mainVars>>

\* Mutant: the sorted queue is popped at the wrong end
DriveTakeLast ==
  /\ drive = "lock"
  /\ ~mbox_lock
  /\ \E q \in Sorts(mbox, Prio) : mbox' = WithoutBack(q) /\ cur' = BackOf(q)
  /\ mbox_lock' = TRUE
  /\ drive' = "swap"
  /\ UNCHANGED <<getVars, rspVars, bboxVars, monVars, mainVars>>

DriveTake ==
  /\ drive = "lock"
  /\ ~mbox_lock
  /\ \E q \in Sorts(mbox, Prio) : mbox' = WithoutFront(q) /\ cur' = FrontOf(q)
  /\ mbox_lock' = TRUE
  /\ drive' = "swap"
  /\ UNCHANGED <<getVars, rspVars, bboxVars, monVars, mainVars>>

DriveTaken ==
  /\ drive = "swap"
  /\ mbox_lock' = FALSE
  /\ drive' = "setup"
  /\ UNCHANGED <<getVars, cur, rspVars, mbox, bboxVars, monVars, mainVars>>

\* penable rises and, at the next falling clock edge, the monitor reports the
\* transfer to the driver's fifo
DriveAccess ==
  /\ Settled
  /\ drive = "setup"
  /\ drive' = "access"
  /\ fifo_mon_drv' = IF collecting THEN Append(fifo_mon_drv, cur) ELSE fifo_mon_drv
  /\ UNCHANGED <<getVars, cur, rspVars, mboxVars, bboxVars, data_complete, collecting, mainVars>>

\* the slave asserts pready: both the driver and the monitor see the end
DriveEnd ==
  /\ Settled
  /\ drive = "access"
  /\ drive' = "size"
  /\ cur' = NULL
  /\ data_complete' = IF collecting THEN data_complete \cup {cur} ELSE data_complete
  /\ UNCHANGED <<getVars, rspVars, mboxVars, bboxVars, fifo_mon_drv, collecting, mainVars>>

(***************************************************************************)
(* rsp: the next transfer, bbox.async_get(0), bbox.async_delete(0), update *)
(***************************************************************************)
RspGet ==
  /\ rsp = "get"
  /\ fifo_mon_drv # <<>>
  /\ mitem' = Head(fifo_mon_drv)
  /\ fifo_mon_drv' = Tail(fifo_mon_drv)
  /\ rsp' = "complete"
  /\ UNCHANGED <<getVars, driveVars, ritem, answer, mboxVars, bboxVars, data_complete,
                 collecting, mainVars>>

\* wait(addr_complete && data_complete), then wait(bbox.size() > 0)
RspComplete ==
  /\ rsp = "complete"
  /\ mitem \in data_complete
  /\ Len(bbox) > 0
  /\ rsp' = "lock"
  /\ UNCHANGED <<getVars, driveVars, mitem, ritem, answer, mboxVars, bboxVars, monVars, mainVars>>

\* Mutant: the index is off by one
RspGetBboxSecond ==
  /\ rsp = "lock"
  /\ ~bbox_lock
  /\ ritem' = Get(bbox, 1)
  /\ bbox_lock' = TRUE
  /\ rsp' = "swap"
  /\ UNCHANGED <<getVars, driveVars, mitem, answer, mboxVars, bbox, monVars, mainVars>>

RspGetBbox ==
  /\ rsp = "lock"
  /\ ~bbox_lock
  /\ ritem' = Get(bbox, 0)
  /\ bbox_lock' = TRUE
  /\ rsp' = "swap"
  /\ UNCHANGED <<getVars, driveVars, mitem, answer, mboxVars, bbox, monVars, mainVars>>

RspGotBbox ==
  /\ rsp = "swap"
  /\ bbox_lock' = FALSE
  /\ rsp' = "delete"
  /\ UNCHANGED <<getVars, driveVars, mitem, ritem, answer, mboxVars, bbox, monVars, mainVars>>

\* Mutant: the request stays in bbox
RspDeleteKeeps ==
  /\ rsp = "delete"
  /\ ~bbox_lock
  /\ bbox_lock' = TRUE
  /\ rsp' = "delete_swap"
  /\ UNCHANGED <<getVars, driveVars, mitem, ritem, answer, mboxVars, bbox, monVars, mainVars>>

RspDelete ==
  /\ rsp = "delete"
  /\ ~bbox_lock
  /\ bbox' = Delete(bbox, 0)
  /\ bbox_lock' = TRUE
  /\ rsp' = "delete_swap"
  /\ UNCHANGED <<getVars, driveVars, mitem, ritem, answer, mboxVars, monVars, mainVars>>

\* update_rsp_back(ritem, item)
RspUpdate ==
  /\ rsp = "delete_swap"
  /\ bbox_lock' = FALSE
  /\ answer' = [answer EXCEPT ![ritem] = mitem]
  /\ rsp' = "get"
  /\ UNCHANGED <<getVars, driveVars, mitem, ritem, mboxVars, bbox, monVars, mainVars>>

-----------------------------------------------------------------------------
(***************************************************************************)
(* run_phase.  reset_driver of the APB master empties mbox and resets its  *)
(* own handler (drive), not the backend handler (rsp) nor bbox; the APB    *)
(* monitor has no reset_monitor.  Threads with has_finalize set are not    *)
(* forked again.                                                           *)
(***************************************************************************)
\* Mutant: mbox is not emptied
ResetDriverKeeps ==
  /\ main = "reset"
  /\ main' = "wait"
  /\ has_finalize' = [has_finalize EXCEPT !["drive"] = FALSE]
  /\ UNCHANGED <<getVars, driveVars, rspVars, mboxVars, bboxVars, monVars, resetn, aborted, resets>>

ResetDriver ==
  /\ main = "reset"
  /\ main' = "wait"
  /\ mbox' = <<>>
  /\ has_finalize' = [has_finalize EXCEPT !["drive"] = FALSE]
  /\ UNCHANGED <<getVars, driveVars, rspVars, mbox_lock, bboxVars, monVars, resetn, aborted, resets>>

RunThreads ==
  /\ main = "wait"
  /\ resetn
  /\ main' = "run"
  /\ getter' = "get"
  /\ drive' = IF has_finalize["drive"] THEN drive ELSE "size"
  /\ rsp' = IF has_finalize["rsp"] THEN rsp ELSE "get"
  /\ collecting' = (collecting \/ ~has_finalize["collect"])
  /\ has_finalize' = [t \in Thread |-> TRUE]
  /\ UNCHANGED <<todo, req, cur, mitem, ritem, answer, mboxVars, bboxVars, fifo_mon_drv,
                 data_complete, resetn, aborted, resets>>

\* resetn rises: the reset phases of the component are over
ReleaseReset ==
  /\ ~resetn
  /\ resetn' = TRUE
  /\ UNCHANGED <<getVars, driveVars, rspVars, mboxVars, bboxVars, monVars, main,
                 has_finalize, aborted, resets>>

\* resetn falls: the sequencer drops the item it handed out, and disable fork
\* kills getter, drive, rsp and the threads of the monitor where they are
Reset ==
  /\ main = "run"
  /\ resets < MaxResets
  /\ resets' = resets + 1
  /\ resetn' = FALSE
  /\ main' = "reset"
  /\ getter' = "off" /\ req' = NULL
  /\ drive' = "off" /\ cur' = NULL
  /\ rsp' = "off"
  /\ collecting' = FALSE
  /\ aborted' = Item \ todo
  /\ UNCHANGED <<todo, mitem, ritem, answer, mboxVars, bboxVars, fifo_mon_drv,
                 data_complete, has_finalize>>

Getter == GetNextItem \/ PushBbox \/ PushedBbox \/ DriveBus \/ ItemDone
Drive == DriveWaitSize \/ DriveTake \/ DriveTaken \/ DriveAccess \/ DriveEnd
Rsp == RspGet \/ RspComplete \/ RspGetBbox \/ RspGotBbox \/ RspDelete \/ RspUpdate
Main == ResetDriver \/ RunThreads \/ ReleaseReset

Next == Getter \/ Drive \/ Rsp \/ Main \/ Reset

\* A runnable process runs, the slave answers, a reset ends; none need happen.
Fairness == WF_vars(Getter) /\ WF_vars(Drive) /\ WF_vars(Rsp) /\ WF_vars(Main)

Spec == Init /\ [][Next]_vars /\ Fairness

-----------------------------------------------------------------------------
\* Every variable has its type: neither mbox nor bbox ever holds a null item
TypeOK ==
  /\ todo \subseteq Item
  /\ getter \in {"off", "get", "bbox", "bbox_swap", "mbox", "mbox_swap"}
  /\ req \in Item \cup {NULL}
  /\ drive \in {"off", "size", "lock", "swap", "setup", "access"}
  /\ cur \in Item \cup {NULL}
  /\ rsp \in {"off", "get", "complete", "lock", "swap", "delete", "delete_swap"}
  /\ mitem \in Item \cup {NULL} /\ ritem \in Item \cup {NULL}
  /\ mbox \in Seq(Item) /\ mbox_lock \in BOOLEAN
  /\ bbox \in Seq(Item) /\ bbox_lock \in BOOLEAN
  /\ fifo_mon_drv \in Seq(Item)
  /\ data_complete \subseteq Item
  /\ answer \in [Item -> Item \cup {NULL}]
  /\ resetn \in BOOLEAN /\ main \in {"reset", "wait", "run"}
  /\ has_finalize \in [Thread -> BOOLEAN]
  /\ collecting \in BOOLEAN
  /\ aborted \subseteq Item
  /\ resets \in 0..MaxResets

\* the transfer the response thread works on, its request still in bbox
InService == IF rsp \in {"complete", "lock", "swap", "delete"} THEN 1 ELSE 0

\* Every transfer the monitor reports has a request in bbox: an item reaches
\* bbox before mbox, so the response thread never blocks on an empty bbox.
RequestForEveryTransfer == Len(bbox) >= Len(fifo_mon_drv) + InService

\* The response thread never works on a null item: between its wait for
\* bbox.size() > 0 and its get(0) nobody else takes a request.
NoNullResponse == rsp \in {"swap", "delete", "delete_swap"} => ritem \in Item

\* No item fetched before a reset is driven after it: what was in flight dies
\* with the processes, what was queued with mbox.
NoStaleDrive ==
  main # "reset" => cur \notin aborted /\ Elements(mbox) \cap aborted = {}

(***************************************************************************)
(* Between two resets mbox is a Mailbox, although fetching and driving     *)
(* interleave in its tasks and although an item reaches it after bbox: an  *)
(* item enters it once, what drive takes for the bus is one of the most    *)
(* urgent items queued at that moment, and nothing else leaves.            *)
(***************************************************************************)
Pending == IF getter \in {"bbox", "bbox_swap", "mbox"} THEN {req} ELSE {}
Gone == Item \ (todo \cup Pending \cup Elements(mbox))

Mail == INSTANCE Mailbox WITH box <- Elements(mbox), taken <- Gone

MboxStep ==
  /\ [Mail!Next]_<<Elements(mbox), Gone>>
  /\ drive = "lock" /\ drive' = "swap" => Mail!Take(cur')

MboxIsMailbox == [][main # "reset" /\ main' # "reset" => MboxStep]_vars

\* Every item fetched gets a response, in the absence of resets
AllAnswered ==
  [](resets = 0) => \A i \in Item : (i \notin todo) ~> (answer[i] # NULL)

\* The driver goes on after a reset: it fetches what the sequences still send
KeepsFetching == <>(todo = {})
=============================================================================
