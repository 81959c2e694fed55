------------------------------ MODULE RetrySeq ------------------------------
(***************************************************************************)
(* The retry sequence of a master and a virtual sequence that uses it.     *)
(* The virtual sequence sends its writes, waits until the watch window is  *)
(* empty, sends its reads, waits again, and says that it has finished.     *)
(* Beside it the retry sequence runs two processes:                        *)
(*   rcv_from_mon  takes the transfers the monitor saw; counts a success,  *)
(*                 puts an item that met an error into mbox;               *)
(*   note_to_drv   takes an item from mbox, grabs the sequencer, waits     *)
(*                 some clocks, and sends the item once more.              *)
(* External: the driver sends the items it has by their prio, which is     *)
(* drawn, so in any order; the slave answers any access with an error.     *)
(***************************************************************************)
EXTENDS Integers, Sequences, FiniteSets, SequencesExt

CONSTANTS
  NULL,
  Writes, Reads, \* the items of the two phases, in the order they are sent
  Addr,          \* their addresses
  Watched,       \* the watch table, as the addresses in its ranges
  MaxErr,        \* max_err
  MaxFail        \* bound: the errors an item meets at address a

Item == Range(Writes) \cup Range(Reads)
Kinds == {"WR", "RD"}
ItemsOf(k) == IF k = "WR" THEN Writes ELSE Reads
Kind(x) == IF x \in Range(Writes) THEN "WR" ELSE "RD"
Addrs == {Addr[x] : x \in Item}

\* outstanding items of one kind go to different addresses
ASSUME ItemAssumption ==
  /\ Writes \in Seq(Range(Writes)) /\ Reads \in Seq(Range(Reads))
  /\ Range(Writes) \cap Range(Reads) = {} /\ NULL \notin Item
  /\ DOMAIN Addr = Item
  /\ \A k \in Kinds : \A i, j \in 1..Len(ItemsOf(k)) :
       Addr[ItemsOf(k)[i]] = Addr[ItemsOf(k)[j]] => i = j
ASSUME BoundAssumption == MaxErr \in Nat /\ MaxFail \in [Addrs -> Nat]

VARIABLES
  phase, todo,   \* the virtual sequence; items of the phase it has not sent
  finish,        \* seqr.finish
  win,           \* wr_win and rd_win
  watching,      \* rcv_from_mon and note_to_drv run
  retry,         \* the retry table: the visit of an address, -1 for no entry
  mbox,          \* mbox of the sequence
  bitem,         \* the item note_to_drv has in hand, with the sequencer grabbed
  driver,        \* items the driver has
  bus,           \* the item on the bus
  fifo_mon_sqr,  \* items the monitor saw, in their order on the bus
  rsp,           \* the response of an item on its last transfer
  succeeded, timedout, unwatched, \* history: items by what rcv_from_mon did last
  errors         \* history: the errors an item has met

mainVars == <<phase, todo, finish>>
watchVars == <<win, watching, retry, succeeded, timedout, unwatched>>
noteVars == <<mbox, bitem>>
busVars == <<driver, bus, fifo_mon_sqr, rsp, errors>>
vars == <<mainVars, watchVars, noteVars, busVars>>

Init ==
  /\ phase = "WR" /\ todo = Writes /\ finish = FALSE
  /\ win = [k \in Kinds |-> IF k = "WR" THEN Len(Writes) ELSE 0]
  /\ watching = TRUE
  /\ retry = [a \in Addrs |-> -1]
  /\ mbox = <<>> /\ bitem = NULL
  /\ driver = {} /\ bus = NULL /\ fifo_mon_sqr = <<>>
  /\ rsp = [x \in Item |-> "none"]
  /\ succeeded = {} /\ timedout = {} /\ unwatched = {}
  /\ errors = [x \in Item |-> 0]

-----------------------------------------------------------------------------
(***************************************************************************)
(* The virtual sequence                                                    *)
(***************************************************************************)
\* An item of the phase; the sequencer arbitrates, and a grab shuts it out
Send ==
  /\ todo # <<>> /\ bitem = NULL
  /\ driver' = driver \cup {Head(todo)}
  /\ todo' = Tail(todo)
  /\ UNCHANGED <<phase, finish, watchVars, noteVars, bus, fifo_mon_sqr, rsp, errors>>

\* wait(is_finish_to_watch(WR)), set_watch_window(RD, outstanding)
StartReads ==
  /\ phase = "WR" /\ todo = <<>> /\ win["WR"] = 0
  /\ phase' = "RD"
  /\ todo' = Reads
  /\ win' = [win EXCEPT !["RD"] = Len(Reads)]
  /\ UNCHANGED <<finish, watching, retry, succeeded, timedout, unwatched, noteVars, busVars>>

\* wait(is_finish_to_watch(RD))
Finish ==
  /\ phase = "RD" /\ todo = <<>> /\ win["RD"] = 0
  /\ phase' = "end"
  /\ finish' = TRUE
  /\ UNCHANGED <<todo, watchVars, noteVars, busVars>>

-----------------------------------------------------------------------------
(***************************************************************************)
(* The driver, the slave and the monitor                                   *)
(***************************************************************************)
\* The access begins: the monitor writes the item to item_asserted_port
Access(x) ==
  /\ x \in driver /\ bus = NULL
  /\ driver' = driver \ {x}
  /\ bus' = x
  /\ fifo_mon_sqr' = Append(fifo_mon_sqr, x)
  /\ rsp' = [rsp EXCEPT ![x] = "none"]
  /\ UNCHANGED <<mainVars, watchVars, noteVars, errors>>

\* pready with pslverr or without: success and data_complete
Ready(r) ==
  /\ bus # NULL
  /\ r = "err" => errors[bus] < MaxFail[Addr[bus]]
  /\ rsp' = [rsp EXCEPT ![bus] = r]
  /\ errors' = IF r = "err" THEN [errors EXCEPT ![bus] = @ + 1] ELSE errors
  /\ bus' = NULL
  /\ UNCHANGED <<mainVars, watchVars, noteVars, driver, fifo_mon_sqr>>

-----------------------------------------------------------------------------
(***************************************************************************)
(* rcv_from_mon: mon_get_port.get, pre_do (addr_complete && data_complete),*)
(* mid_do and post_do of the kind of the item                              *)
(***************************************************************************)
\* Mutant: an item is taken before its data phase is over
ReceivedEarly(x, r) ==
  /\ watching
  /\ fifo_mon_sqr # <<>> /\ x = Head(fifo_mon_sqr)
  /\ rsp[x] = r \/ (rsp[x] = "none" /\ r = "err")
  /\ fifo_mon_sqr' = Tail(fifo_mon_sqr)

Received(x, r) ==
  /\ watching
  /\ fifo_mon_sqr # <<>> /\ x = Head(fifo_mon_sqr) /\ rsp[x] = r
  /\ fifo_mon_sqr' = Tail(fifo_mon_sqr)

\* Mutant: the entry of the retry table stays
SuccessKeepsEntry(x) ==
  /\ Received(x, "ok")
  /\ win' = [win EXCEPT ![Kind(x)] = @ - 1]
  /\ succeeded' = succeeded \cup {x}
  /\ UNCHANGED <<mainVars, watching, retry, timedout, unwatched, noteVars,
                 driver, bus, rsp, errors>>

Success(x) ==
  /\ Received(x, "ok")
  /\ retry' = [retry EXCEPT ![Addr[x]] = -1]
  /\ win' = [win EXCEPT ![Kind(x)] = @ - 1]
  /\ succeeded' = succeeded \cup {x}
  /\ UNCHANGED <<mainVars, watching, timedout, unwatched, noteVars, driver, bus, rsp, errors>>

\* Mutant: an item to be retried is counted as well
RetryCounted(x) ==
  /\ Received(x, "err") /\ Addr[x] \in Watched
  /\ retry[Addr[x]] + 1 < MaxErr
  /\ retry' = [retry EXCEPT ![Addr[x]] = @ + 1]
  /\ mbox' = Append(mbox, x)
  /\ win' = [win EXCEPT ![Kind(x)] = @ - 1]
  /\ UNCHANGED <<mainVars, watching, succeeded, timedout, unwatched, bitem,
                 driver, bus, rsp, errors>>

\* Mutant: the retry gets stuck, nothing is put into mbox
RetryDropped(x) ==
  /\ Received(x, "err") /\ Addr[x] \in Watched
  /\ retry[Addr[x]] + 1 < MaxErr
  /\ retry' = [retry EXCEPT ![Addr[x]] = @ + 1]
  /\ UNCHANGED <<mainVars, win, watching, succeeded, timedout, unwatched, noteVars,
                 driver, bus, rsp, errors>>

\* item.retry: the visit is below max_err
Retry(x) ==
  /\ Received(x, "err") /\ Addr[x] \in Watched
  /\ retry[Addr[x]] + 1 < MaxErr
  /\ retry' = [retry EXCEPT ![Addr[x]] = @ + 1]
  /\ mbox' = Append(mbox, x)
  /\ UNCHANGED <<mainVars, win, watching, succeeded, timedout, unwatched, bitem,
                 driver, bus, rsp, errors>>

\* SMTDV_RTRY_TIMEOUT; neither the window nor the entry is given back
Timeout(x) ==
  /\ Received(x, "err") /\ Addr[x] \in Watched
  /\ retry[Addr[x]] + 1 >= MaxErr
  /\ retry' = [retry EXCEPT ![Addr[x]] = @ + 1]
  /\ timedout' = timedout \cup {x}
  /\ UNCHANGED <<mainVars, win, watching, succeeded, unwatched, noteVars,
                 driver, bus, rsp, errors>>

\* An error outside of the watch table
Ignore(x) ==
  /\ Received(x, "err") /\ Addr[x] \notin Watched
  /\ unwatched' = unwatched \cup {x}
  /\ UNCHANGED <<mainVars, win, watching, retry, succeeded, timedout, noteVars,
                 driver, bus, rsp, errors>>

-----------------------------------------------------------------------------
(***************************************************************************)
(* note_to_drv                                                             *)
(***************************************************************************)
\* mbox.get and grab; nobody else locks the sequencer
Grab ==
  /\ watching /\ bitem = NULL /\ mbox # <<>>
  /\ bitem' = Head(mbox)
  /\ mbox' = Tail(mbox)
  /\ UNCHANGED <<mainVars, watchVars, busVars>>

\* After retry_delay clocks: start_item, finish_item, ungrab
Resend ==
  /\ watching /\ bitem # NULL
  /\ driver' = driver \cup {bitem}
  /\ bitem' = NULL
  /\ UNCHANGED <<mainVars, watchVars, mbox, bus, fifo_mon_sqr, rsp, errors>>

\* finish_from_mon ends, and disable fork kills the other two
StopWatching ==
  /\ watching /\ finish
  /\ watching' = FALSE
  /\ bitem' = NULL
  /\ UNCHANGED <<mainVars, win, retry, succeeded, timedout, unwatched, mbox, busVars>>

Main == Send \/ StartReads \/ Finish
Drive == \E x \in Item : Access(x)
Slave == \E r \in {"ok", "err"} : Ready(r)
Rcv == \E x \in Item : Success(x) \/ Retry(x) \/ Timeout(x) \/ Ignore(x)
Note == Grab \/ Resend
Next == Main \/ Drive \/ Slave \/ Rcv \/ Note \/ StopWatching

\* Every process runs when it can, and the slave answers
Fairness ==
  /\ WF_vars(Main) /\ WF_vars(Drive) /\ WF_vars(Slave)
  /\ WF_vars(Rcv) /\ WF_vars(Note) /\ WF_vars(StopWatching)
Spec == Init /\ [][Next]_vars /\ Fairness

-----------------------------------------------------------------------------
InDriver(x) == x \in driver
InMonitor(x) == x \in Range(fifo_mon_sqr)
InMbox(x) == x \in Range(mbox)
Over(x) == x \in succeeded \cup timedout \cup unwatched
Started(x) == phase # "WR" \/ Kind(x) = "WR"
Sent(x) == Started(x) /\ x \notin Range(todo)

(***************************************************************************)
(* Types.  A window never runs below zero: no success is counted twice     *)
(* (mid_do_write_item, mid_do_read_item).                                  *)
(***************************************************************************)
TypeOK ==
  /\ phase \in {"WR", "RD", "end"}
  /\ todo \in Seq(Item) /\ finish \in BOOLEAN
  /\ win \in [Kinds -> Nat]
  /\ watching \in BOOLEAN
  /\ retry \in [Addrs -> Nat \cup {-1}]
  /\ mbox \in Seq(Item) /\ bitem \in Item \cup {NULL}
  /\ driver \subseteq Item /\ bus \in Item \cup {NULL}
  /\ fifo_mon_sqr \in Seq(Item)
  /\ rsp \in [Item -> {"none", "ok", "err"}]
  /\ succeeded \subseteq Item /\ timedout \subseteq Item /\ unwatched \subseteq Item
  /\ errors \in [Item -> Nat]

(***************************************************************************)
(* An item that was sent is in one place: with the driver, with the        *)
(* monitor, on its way back through mbox, or over.  It is never retried    *)
(* while a transfer of it is still on the bus, and what succeeded is not   *)
(* sent again (rcv_from_mon, pre_do_read_item, note_to_drv).               *)
(***************************************************************************)
Placed(x) ==
  /\ Sent(x) => InDriver(x) \/ InMonitor(x) \/ InMbox(x) \/ bitem = x \/ Over(x)
  /\ InDriver(x) => Sent(x) /\ ~InMonitor(x) /\ ~InMbox(x) /\ bitem # x /\ ~Over(x)
  /\ InMonitor(x) => Sent(x) /\ ~InMbox(x) /\ bitem # x /\ ~Over(x)
  /\ InMbox(x) => Sent(x) /\ bitem # x /\ ~Over(x)
  /\ bitem = x => Sent(x) /\ ~Over(x)
  /\ Over(x) => Sent(x)
  /\ bus = x => InMonitor(x)

OnePlace == \A x \in Item : Placed(x)

(***************************************************************************)
(* An empty window means what the virtual sequence takes it to mean: the   *)
(* reads start when every write has succeeded, retried or not, and when it *)
(* finishes every read has, and the two processes are killed with nothing  *)
(* in their hands (is_finish_to_watch, finish_from_mon).                   *)
(***************************************************************************)
PhasesComplete ==
  /\ phase # "WR" => Range(Writes) \subseteq succeeded
  /\ phase = "end" => Range(Reads) \subseteq succeeded
  /\ finish => mbox = <<>> /\ bitem = NULL /\ driver = {} /\ fifo_mon_sqr = <<>>

(***************************************************************************)
(* max_err errors in a row are borne, no more and no fewer: an item whose  *)
(* retries have run out met one more, and errors of the same address in    *)
(* another phase do not count (the retry table of mid_do_write_item).      *)
(***************************************************************************)
RetriesExhausted ==
  \A x \in Item :
    /\ x \in timedout => errors[x] = MaxErr + 1
    /\ Addr[x] \in Watched => errors[x] <= MaxErr + 1

(***************************************************************************)
(* The virtual sequence ends, unless an error of an item was final: of     *)
(* such an item the window is never given back (do_outstanding_wr_seq).    *)
(***************************************************************************)
Ends == <>(~watching \/ timedout \cup unwatched # {})
=============================================================================
