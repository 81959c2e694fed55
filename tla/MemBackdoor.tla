---------------------------- MODULE MemBackdoor ----------------------------
(***************************************************************************)
(* The comparison of completed writes with the memory of the slave.  The   *)
(* slave sequence stores a write in its generic memory, byte by byte, and  *)
(* each byte becomes a row of a table of the database.  A thread of the    *)
(* scoreboard takes the completed writes one after the other and, for some *)
(* clocks, asks the table for the last write of the address.               *)
(* External: the bus between master and slave, the sequence's override of  *)
(* mid_do_write_item (Fate), and SQLite itself.                            *)
(***************************************************************************)
EXTENDS Integers, Sequences, FiniteSets, Functions

CONSTANTS
  NULL,
  Trx,        \* the writes
  Addr,       \* Addr[t]: the address of t, a multiple of Bytes
  Data,       \* Data[t]: the bytes of t
  Bytes,      \* the bytes of a beat (item.offset)
  Fate,       \* Fate[t] = "lost": the slave sequence does not store t
  Timeouts,   \* what timeout may be
  MaxResets   \* bound on the resets in a behaviour

ASSUME BytesAssumption == Bytes \in Nat \ {0}
ASSUME TrxAssumption ==
  /\ NULL \notin Trx
  /\ Addr \in [Trx -> Nat] /\ \A t \in Trx : Addr[t] % Bytes = 0
  /\ Data \in [Trx -> Seq(0..255)] /\ \A t \in Trx : Len(Data[t]) = Bytes
  /\ Fate \in [Trx -> {"ok", "lost"}]
ASSUME TimeoutsAssumption == Timeouts \subseteq 2..5 /\ MaxResets \in Nat

VARIABLES
  timeout,    \* bkdor_wr.timeout, drawn once
  bus,        \* the write on the bus
  quiet,      \* clocks before the bus can go on
  completed,  \* the completed writes, in their order
  pending,    \* those the slave sequence has in hand
  unstored,   \* those it will never store
  rows,       \* the rows of the table, in the order of their insertion
  memory,     \* memory[a]: the byte at a, NULL if there is none
  running,    \* the thread is running
  wbox,
  item,       \* the write the thread has in hand
  left,       \* its local timeout
  reported,   \* writes reported by SMTDV_BKDOR_CMP
  dropped,    \* writes in hand when the thread was killed
  resets

busVars == <<bus, quiet, completed>>
slaveVars == <<pending, unstored, rows, memory>>
threadVars == <<running, wbox, item, left, reported, dropped>>
vars == <<timeout, busVars, slaveVars, threadVars, resets>>

Word(t) == Addr[t] .. (Addr[t] + Bytes - 1)
Cells == UNION {Word(t) : t \in Trx}

Init ==
  /\ timeout \in Timeouts
  /\ bus = NULL /\ quiet = 0 /\ completed = <<>>
  /\ pending = {} /\ unstored = {}
  /\ rows = <<>>
  /\ memory = [a \in Cells |-> NULL]
  /\ running = TRUE
  /\ wbox = <<>> /\ item = NULL /\ left = 0
  /\ reported = {} /\ dropped = {}
  /\ resets = 0

-----------------------------------------------------------------------------
(***************************************************************************)
(* gen_query_cmd with LAST_WR_TRX: the rows of the word, the latest cyc    *)
(* first, rows of the same cyc as they were inserted, Bytes rows at most.  *)
(* exec_query puts them into a new pool, in their order; populate_item     *)
(* puts the r-th of the pool at byte r of an item of zeros.                *)
(***************************************************************************)
\* Mutant: as in FRIST_WR_TRX, the earliest cyc first
AheadFirst(i, j) == rows[i].cyc < rows[j].cyc \/ (rows[i].cyc = rows[j].cyc /\ i < j)

Ahead(i, j) == rows[i].cyc > rows[j].cyc \/ (rows[i].cyc = rows[j].cyc /\ i < j)

Pool(t) ==
  LET Found == {i \in 1..Len(rows) : rows[i].addr \in Word(t)}
      Rank(i) == Cardinality({j \in Found : Ahead(j, i)})
      Size == IF Cardinality(Found) < Bytes THEN Cardinality(Found) ELSE Bytes
  IN  [r \in 1..Size |-> rows[CHOOSE i \in Found : Rank(i) = r - 1]]

\* Mutant: the item is not purged, what the query does not find stays as it was
LastWrTrxUnpurged(t) ==
  [r \in 1..Bytes |-> IF r \in DOMAIN Pool(t) THEN Pool(t)[r].data ELSE Data[t][r]]

LastWrTrx(t) ==
  [r \in 1..Bytes |-> IF r \in DOMAIN Pool(t) THEN Pool(t)[r].data ELSE 0]

Compare(t) == LastWrTrx(t) = Data[t]

\* Nothing is left to do before time goes on
Settled == pending = {} /\ (running /\ item = NULL => wbox = <<>>)

-----------------------------------------------------------------------------
(***************************************************************************)
(* The bus and the slave sequence                                          *)
(***************************************************************************)
\* The monitor sees the access.  After a reset it has no threads any more (see
\* ResetLoop), and nobody hears of what the bus does.
Begin(t) ==
  /\ resets = 0 /\ Settled
  /\ bus = NULL /\ quiet = 0 /\ t \notin Range(completed)
  /\ bus' = t /\ quiet' = 1
  /\ UNCHANGED <<timeout, completed, slaveVars, threadVars, resets>>

\* pready: the monitor writes the item to the scoreboard (write_target), and the
\* slave sequence, which waits for data_complete, may go on
Complete(t) ==
  /\ Settled
  /\ bus = t /\ quiet = 0
  /\ bus' = NULL /\ quiet' = 1
  /\ completed' = Append(completed, t)
  /\ wbox' = Append(wbox, t)
  /\ IF Fate[t] = "ok"
       THEN pending' = pending \cup {t} /\ UNCHANGED unstored
       ELSE unstored' = unstored \cup {t} /\ UNCHANGED pending
  /\ UNCHANGED <<timeout, rows, memory, running, item, left,
                 reported, dropped, resets>>

\* The clock at which t began; clocks of different writes differ
Cyc(t) == CHOOSE i \in 1..Len(completed) : completed[i] = t

\* Every byte is inserted as a row of its own, with the cyc of its write
Insert(t) ==
  rows' = rows \o [i \in 1..Bytes |->
    [addr |-> Addr[t] + i - 1, data |-> Data[t][i], cyc |-> Cyc(t)]]

\* mid_do_write_item: mem_store_byte, and a row for every byte
Store(t) ==
  /\ t \in pending
  /\ pending' = pending \ {t}
  /\ Insert(t)
  /\ memory' = [a \in Cells |-> IF a \in Word(t) THEN Data[t][a - Addr[t] + 1] ELSE memory[a]]
  /\ UNCHANGED <<timeout, busVars, unstored, threadVars, resets>>

-----------------------------------------------------------------------------
(***************************************************************************)
(* The thread                                                              *)
(***************************************************************************)
\* Mutant: the local timeout is not set again for every item
TakeUntimed ==
  /\ running /\ item = NULL /\ wbox # <<>>
  /\ wbox' = Tail(wbox)
  /\ item' = IF Compare(Head(wbox)) THEN NULL ELSE Head(wbox)
  /\ UNCHANGED <<timeout, busVars, slaveVars, running, left, reported, dropped, resets>>

\* A pop and the first comparison
Take ==
  /\ running /\ item = NULL /\ wbox # <<>>
  /\ wbox' = Tail(wbox)
  /\ left' = timeout
  /\ item' = IF Compare(Head(wbox)) THEN NULL ELSE Head(wbox)
  /\ UNCHANGED <<timeout, busVars, slaveVars, running, reported, dropped, resets>>

Clock ==
  /\ Settled
  /\ quiet' = IF quiet > 0 THEN quiet - 1 ELSE 0
  /\ UNCHANGED <<timeout, bus, completed, slaveVars, running, wbox, dropped, resets>>

TickIdle ==
  /\ item = NULL /\ Clock
  /\ UNCHANGED <<item, left, reported>>

\* A clock edge with time left: the query is made again
TickWait ==
  /\ item # NULL /\ left > 1 /\ Clock
  /\ left' = left - 1
  /\ item' = IF Compare(item) THEN NULL ELSE item
  /\ UNCHANGED reported

\* Mutant: given up one clock early
TickTimeoutEarly ==
  /\ item # NULL /\ Clock
  /\ left' = left - 1
  /\ item' = NULL
  /\ reported' = reported \cup {item}

\* The last one: SMTDV_BKDOR_CMP
TickTimeout ==
  /\ item # NULL /\ left <= 1 /\ Clock
  /\ left' = left - 1
  /\ item' = NULL
  /\ reported' = reported \cup {item}

(***************************************************************************)
(* A reset kills the thread and the slave sequence; wbox and the database  *)
(* stay as they are.  Then the thread is forked again, and the sequence is *)
(* started again with an empty memory.                                     *)
(***************************************************************************)
Reset ==
  /\ running /\ resets < MaxResets
  /\ resets' = resets + 1
  /\ running' = FALSE
  /\ bus' = NULL /\ quiet' = 1
  /\ unstored' = unstored \cup pending /\ pending' = {}
  /\ dropped' = dropped \cup ({item} \ {NULL}) /\ item' = NULL /\ left' = 0
  /\ memory' = [a \in Cells |-> NULL]
  /\ UNCHANGED <<timeout, completed, rows, wbox, reported>>

Restart ==
  /\ ~running /\ quiet = 0
  /\ running' = TRUE
  /\ UNCHANGED <<timeout, busVars, slaveVars, wbox, item, left, reported, dropped, resets>>

Tick == TickIdle \/ TickWait \/ TickTimeout
Slave == \E t \in Trx : Store(t)
Bus == \E t \in Trx : Begin(t) \/ Complete(t)
Next == Bus \/ Slave \/ Take \/ Tick \/ Reset \/ Restart

\* The slave sequence and the thread run when they can, the clock goes on, and a
\* reset ends
Fairness == WF_vars(Slave) /\ WF_vars(Take) /\ WF_vars(Tick) /\ WF_vars(Restart)
Spec == Init /\ [][Next]_vars /\ Fairness

-----------------------------------------------------------------------------
Stored(t) == t \in Range(completed) /\ t \notin pending \cup unstored

\* u was completed before t
Earlier(u, t) ==
  \E i, j \in 1..Len(completed) : i < j /\ completed[i] = u /\ completed[j] = t

(***************************************************************************)
(* Types.  The local timeout never runs below zero (smtdv_mem_bkdor_wr_comp*)
(* ::run), and a write waits in at most one place.                         *)
(***************************************************************************)
TypeOK ==
  /\ timeout \in Timeouts
  /\ bus \in Trx \cup {NULL} /\ quiet \in 0..1
  /\ completed \in Seq(Trx) /\ IsInjective(completed)
  /\ pending \subseteq Range(completed) /\ unstored \subseteq Range(completed)
  /\ running \in BOOLEAN
  /\ rows \in Seq([addr : Cells, data : 0..255, cyc : 1..Len(completed)])
  /\ memory \in [Cells -> 0..255 \cup {NULL}]
  /\ wbox \in Seq(Trx) /\ IsInjective(wbox)
  /\ item \in (Trx \ Range(wbox)) \cup {NULL}
  /\ left \in 0..timeout /\ (item # NULL => left > 0)
  /\ reported \subseteq Range(completed) /\ dropped \subseteq Range(completed)
  /\ resets \in 0..MaxResets

(***************************************************************************)
(* LAST_WR_TRX finds the write by the clock at which it began, the memory  *)
(* keeps what was stored last: for every word of the memory the query      *)
(* gives the bytes that are there, in their order, and never a mix of two  *)
(* writes (gen_query_cmd, populate_item, mem_store_byte_cb).               *)
(***************************************************************************)
QueryIsMemory ==
  \A t \in Trx : memory[Addr[t]] # NULL =>
    \A i \in 1..Bytes : LastWrTrx(t)[i] = memory[Addr[t] + i - 1]

(***************************************************************************)
(* A write that was stored is reported only if the thread was held up: by  *)
(* an earlier write it waited for in vain, until a later write of the same *)
(* address was stored over it (smtdv_mem_bkdor_wr_comp::run).              *)
(***************************************************************************)
OnlyBacklogMisleads ==
  \A t \in reported : Stored(t) =>
    /\ \E u \in unstored : Earlier(u, t)
    /\ \E u \in Trx : Stored(u) /\ Addr[u] = Addr[t] /\ Earlier(t, u)

(***************************************************************************)
(* A write that never reaches the memory is reported in the end, unless    *)
(* its data cannot be told from what is there, or the thread was killed    *)
(* with the write in hand.                                                 *)
(***************************************************************************)
Telling(t) ==
  /\ \E i \in 1..Bytes : Data[t][i] # 0
  /\ \A u \in Trx \ {t} : Addr[u] = Addr[t] => Data[u] # Data[t]

EveryLossReported ==
  \A t \in Trx :
    t \in unstored /\ Telling(t) ~> t \in reported \cup dropped
=============================================================================
