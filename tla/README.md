# smtdv in TLA+

smtdv is a SystemVerilog/UVM verification library: bus agents (APB, AHB, UART)
whose drivers, monitors and scoreboards are built from cooperating simulation
processes, shared queues and a reset scheme common to all components. A bug in
this machinery shows as a test bench that hangs, that reports a good design, or
that misses a bad one. This directory models that machinery in TLA+, checks it
with TLC on small instances, and proves the central parts with TLAPS for all
instances.

Paths are relative to `src/`; `common` is `lib/smtdv_common/sv`.

## 1. Inventory

| part | state | operations | talks to |
|---|---|---|---|
| shared queue, `common/smtdv_queue.sv` on `uvm_queue` | `queue`, `has_lock` | `async_push_*`, `async_pop_*`, `async_insert`, `async_prio_get`, `async_get`, `async_delete`, `async_purge`, `nocheck_scb_get`, and the base class without the lock | drivers, response threads, labels, scoreboard |
| thread handler, `smtdv_thread_handler.sv` | `thread_q`, `has_finalize` of each thread | `add`, `del`, `finalize`, `run`, `reset`, `watch` | every component |
| component, `smtdv_component.sv` | `resetn`, `pwrst_done`, `rst_typ`, times of the reset phase | `phase_started`, `phase_ended` callbacks | phase engine, run_phase loops |
| reset group, `model/smtdv_reset_model.sv`, `smtdv_reset_monitor.sv`, `vif/smtdv_gen_rst_if.sv` | reset line, semaphore, objection, the components of the group | power-on reset, `do_hw_reset`, `do_sw_reset` | phase engine, sequences |
| phase engine, `uvm_phase.svh`, `uvm_domain.svh` of `kernel/UVM_ML-1.5.1` | state and jump flags of each phase of the group's domain | `execute_phase`, `uvm_domain::jump` | reset group, callbacks of the components |
| base driver, `smtdv_driver.sv`, `smtdv_rsp_back_threads.sv` | `bbox`, `req`, the fifo from the monitor | the fetching loop, `run_threads`, `reset_driver`, `rsp_back` | sequencer, bus driver, monitor |
| APB master driver and monitor, `lib/smtdv_apb_uvc/sv` | `mbox`, bus signals | `drive_bus`, drive thread, collect threads | base driver |
| scoreboard, `smtdv_scoreboard*.sv`, `smtdv_hash.sv`, `compare` of `smtdv_sequence_item.sv` | `wr_pool`, `rd_pool`, `wbox`, `rbox`, check marks and lifetimes of the items | `write_initor`, `write_target`, two lifetime watchers, `reset_scoreboard` | monitors of both sides, backdoor threads |
| memory and database: `model/smtdv_generic_memory*.sv`, `smtdv_backdoor.sv`, `smtdv_mem_bkdor_*`, `dpi/sqlite3` | memory, table of rows, pool of a query | store of a write, `LAST_WR_TRX` query, comparison until a timeout | slave sequence, scoreboard |
| virtual sequences and their graph: `common/graph`, `lib/smtdv_common/vseq` | edge table, nodes with locks and visits, edges | builder, `async_try_lock`, `async_try_unlock`, `reset_restart_sqr` | sequences, sequencer |
| retry: `smtdv_master_retry_seq.sv`, `apb_master_retry_vseq.sv` | retry table, watch windows, `mbox`, `finish` | `rcv_from_mon`, `note_to_drv`, `finish_from_mon`, the two phases | monitor, sequencer, driver |
| polling and stop sequences | table, flags | | monitor, sequencer |
| AHB, UART, SPI agents | as APB, with more queues | | |
| labels | label table, item queue | run-time changes of configurations | monitors |
| generic fifo, ring queue, arbiter | contents | put, get | slave sequences |
| DPI: STL parser, utilities; scripts | files | | |

Hard to test here:

- every component is a set of processes that interleave at each `wait`, delay and
  `#0` (`SMTDV_SWAP`), with conditions that may be stale after the next wait;
- `disable fork` ends processes at any of these points, and a loop starts them
  again with whatever state is left;
- resets may be requested at any time, also before and during the power-on reset,
  and the phase engine drops a jump that comes at the wrong moment;
- the watchers of the scoreboard clean up pools that the monitors use;
- responses are matched with requests by position;
- comparisons with the memory race the stores of later writes;
- virtual sequences count events of one process and wait for them in another.

What makes each part correct: the lock excludes and no item is lost, duplicated
or null (queue); no traffic before the power-on reset or during a reset, every
thread exactly once after it, and a way out of every reset (reset scheme); every
item answered, and nothing of before a reset driven after it (driver); a good
design is never reported, a bad one is (scoreboard, backdoor); sequences run in
the order of the table and all of them end (graph); no item lost or sent twice,
no phase over too early or never (retry). `PROJECT.json` lists the hazards at
their lines with the properties about them.

## 2. How the models read the code

- A process runs without interruption up to its next `wait`, delay or fork. So
  `wait(!is_lock()); lock(); <change>` is one action and the end of
  `SMTDV_SWAP(delay)` with `unlock()` another. `SMTDV_SWAP(0)` is `#0`, a point
  where others run.
- Simulated time passes only when no process can run (`Settled` in the modules
  that need it); then clock edges and the delays of the reset line happen.
- The order of processes that can run at the same time is left open. The
  simulator's scheduling regions (active, inactive, nonblocking) are not modelled.
- `disable fork` ends all descendants of the process at once, wherever they are.
- Items are model values or pairs; payloads are what the comparisons tell apart.
- External: the UVM sequencer, the design between the monitors,
  SQLite, the simulator's scheduler.
- Sorting by `prio` leaves the order of equal elements open.
- Fairness is weak fairness of runnable processes only. The code has no fair
  lock; the instances have finitely many items, so a process can lose only
  finitely many races and starvation does not hide behind the fairness.

## 3. Modules

| module | models | module for TLC | proofs |
|---|---|---|---|
| `QueueOps` | the zero-time functions of `uvm_queue`, the sort of `smtdv_queue` | (used by others) | `QueueOpsProofs` |
| `SmtdvQueue` | any number of processes calling the tasks of one queue | `MCSmtdvQueue` | `SmtdvQueueProofs` |
| `Mailbox` | abstract: what the users expect of the queue | | |
| `ResetLoop` | reset line, monitor, model, component flags, run_phase loop and thread handler | `MCResetLoop` | `ResetLoopProofs` |
| `ApbMasterDriver` | the driver's three processes, two queues, the reset | `MCApbMasterDriver` | `ApbMasterDriverProofs` |
| `Scoreboard` | pools, checks, watchers, reset | `MCScoreboard` | `ScoreboardProofs` |
| `MemBackdoor` | slave memory, rows of the database, the comparing thread | `MCMemBackdoor` | `MemBackdoorProofs` |
| `SeqGraph` | builder, node locks, the sequences of a virtual sequence, a reset | `MCSeqGraph` | `SeqGraphProofs` |
| `RetrySeq` | retry sequence with the virtual sequence that uses it | `MCRetrySeq` | `RetrySeqProofs` |

Names ending in a fault (`...Keeps`, `...Unguarded`, `...Stale` and so on, marked
"Mutant" in a comment) are faulty variants of the definition that follows them.
They occur in no specification; `PROJECT.json` says which property fails when
one replaces the original.

### SmtdvQueue
`pc[p]` is the wait a process is at: `wait_size` (`wait(size()>0)`), `wait_lock`,
`swap`. `Calls[p]` is the set of tasks the process calls, so that uses of the
queue are instances. `raw_push_back` is the base class's function, called by the
scoreboard without the lock. `Idx` includes -1 (which makes `delete` empty the
queue) and indices out of range. An `Item` is created once, so `delivered` and
`fresh` are bookkeeping for the properties.

### ResetLoop
`por` is the initial block of the interface, `rst_sm` the keys in its semaphore, `mon`
and `objection` the two tasks of the reset monitor.

The phase engine is `execute_phase` for one domain: `phase` is the phase the domain
is at, `state` its `m_state` (from DONE of the phase before to STARTED:
`scheduled`; STARTED to READY_TO_END: `active`; ENDED and CLEANUP: `ended`; ENDED to
the hopper on a jump: `jumping`), `jump` the flags `m_jump_fwd`/`m_jump_bkwd` of
every phase. `DomainJump` is `uvm_domain::jump` with `uvm_phase::jump`: it does
nothing when the reset phase itself is active or between two phases, and in a
phase that has ended it sets the flag (with the error JMPPHIDL), which `execute_phase`
finds when that phase runs the next time. The domain has the twelve phases of
`create_rst_domain`, numbered from `pre_reset`; only the reset monitor objects in one of
them, so all but the reset phase and the last take no time. The last one waits
for its sibling `run_phase`, in which the tests run their sequences, and so does
not end by itself.

The delay of the power-on assertion is drawn from 0 to 1000 ns. Zero means one `#0`
at the start of simulation; the engine needs several `#0` for each of the phases
before `run_phase`, so the line is asserted before `pre_reset` starts (the second
initial state). Any other delay ends when time advances, that is in a `Settled` state,
and the monitor's own jump then finds the last phase active: it is never dropped.

`missed` is a history variable: the line was asserted at a moment when its jump
is dropped, or left in the flag of an ended phase, and `reset_phase` will not look at
it (`Heard` has the others).

`Cleared` is the set of threads whose handler the component's reset task resets:
all of them for the scoreboard, none for a monitor (`reset_monitor` is empty). A
hardware reset during another one is a fatal error (`RESET_CONFLICT`) and ends the
simulation, so the model takes it only with a key. `took_time` is the
test `reset_phase_period != 0`.

### ApbMasterDriver
The async tasks are unfolded into their waits because a reset kills processes
there. One clock edge separates fetching, setup, access and end of a transfer.
`answer[i]` is the transfer whose response item `i` got. `aborted` are the items
fetched before the last reset. A reset drops the item the sequencer handed out
and kills the processes in one step. `cfg.has_block`, a wait the configuration's
constraint switches off, is left out.

### Scoreboard
Writes and reads are the same algorithm with the sides exchanged, so state is
indexed by the kind. An atom `<<t, n>>` is the atomic item of beat `n` of
transfer `t`; several beats are put or checked in one call, in order. A put adds to
each address the beats of the burst that go there (`Visits`), which may be several.
The check is a loop over the beats (`After`). The design is external: it keeps the
order of each address, so what it holds is a queue per address (`out`), and treats
a transfer as its `Fate` says (delivered, delivered in parts, lost; what is lost
never enters it). Transfers are the successful
ones; the monitors report others too, with which the scoreboard does not fill the
boxes. A reset empties `out`: the model assumes that the design loses what it holds. The
line does so at a hardware reset; a software reset
(`smtdv_reset_model.sv:422`) does not assert it, so a test that requests one has to reset
the design by other means or let it run empty, or else the beats it still holds
meet empty pools afterwards. `life_time` stops at -1, from where the code counts on without a further
effect. The watcher's list of addresses only grows in the code, by all keys in
ascending order at every period; `MaxCopies` bounds the copies. Of the backdoor threads only that they empty the boxes is
here; what they compare is `MemBackdoor`.

### MemBackdoor
One completed write goes two ways: to the slave sequence, which stores its bytes
in the memory and inserts each as a row of the table (`Store`), and to `wbox`, from
where the thread takes it (`Take`) and asks for the last write of its address at
every clock until the answer is right or `timeout` clocks are over (`TickWait`,
`TickTimeout`). `Pool` is the query: of the rows of the word, latest `cyc` first, the
`r`-th is the one with `r - 1` others ahead of it, cut off at the bytes of a beat. `Fate` is the override of `mid_do_write_item` by which
a test makes the slave forget a write. A reset kills both processes, empties the
memory, and leaves `wbox` and the table as they are. After a reset nothing is completed
any more, because the monitor has no threads then (`reset_monitor` above); what is
checked of a reset is how the thread deals with the writes that wait in `wbox` and with
a table that outlives the memory, not traffic of after the reset.

### SeqGraph
`CreateSeqEdge` is the builder's step for one row: ids without a node are skipped,
and an edge that is already there is deleted first, as `add_edge` does, although
the count of ids goes on. `WaitSource`, `SwapSource`, `LockNode` are
`async_try_lock`, edge by edge; `CheckSink`, `SwapSink`, `UnlockNode` are
`async_try_unlock` with its assertion; `StartBody` marks the visit. `StopSequences`
is `reset_restart_sqr`, which kills sequences wherever they are and leaves locks.

### RetrySeq
`phase` and `todo` are the virtual sequence; `win` its windows; `watching` says that
`rcv_from_mon` and `note_to_drv` run. The driver takes items in any order (their
`prio` is drawn), the monitor hands an item out when its access begins
(`Access`) and the response comes later (`Ready`). `Success`, `Retry`, `Timeout`
and `Ignore` are the ways `rcv_from_mon` may go; `Grab` and `Resend` are
`note_to_drv`. `MaxFail` bounds the errors of an address.

## 4. Runs

| run | instance | shows |
|---|---|---|
| `queue_tasks` | 2 adding processes, 1 taking and discarding, 3 items, all tasks | `TypeOK`, `LockOwned`, `NoNullPop`, `OnePlace` |
| `queue_mailbox` | 2 adding, 1 `async_prio_get`, 4 items, 3 priorities | refinement of `Mailbox`, with liveness |
| `reset_scoreboard` | 2 threads, all reset, 3 requests | no traffic before power-on, held in reset but for missed requests, one process per thread, all threads run, leaves every reset |
| `driver_items` | 3 items, 2 priorities, up to 2 resets | a request for each transfer, no null response, nothing stale is driven, `mbox` between resets is a `Mailbox`, all answered if no reset comes |
| `scb_ok` | a burst over 2 addresses, a write, a read, 1 reset | `OnlyDropsMislead`, `CheckedOnce` |
| `scb_lost` | 3 writes of one address, the last lost | `LostReportedOrDropped`, `PoolsDrain`, and `CheckedOnce` for single transfers |
| `backdoor` | 4 writes of 2 bytes to 2 words, the first lost, timeouts 2 to 5, up to 2 resets | `QueryIsMemory`, `OnlyBacklogMisleads`, `EveryLossReported` |
| `seq_graph` | all tables of up to 2 edges of 3 nodes, the tables of three APB virtual sequences, a cycle, a repeated edge; 1 reset | `WaitsForInputs`, `SinksFree`, `EverySequenceEnds` |
| `seq_retry` | 3 writes and 3 reads at 3 addresses, one unwatched, `max_err` 2, up to 3 errors | `OnePlace`, `PhasesComplete`, `RetriesExhausted`, `Ends` |

Bounds. Three processes and three items are the least with which a pop can lose
the race between its two waits and still find other items; a fourth item gives
three priorities with a tie. Three reset requests are enough for one before, one
during and one after the power-on reset, and for one in the middle of the phases of
another. Five phases are the three of the reset, the last one and one between them,
which stands for the eight between post_reset and post_shutdown: they differ in
nothing. The driver needs three items for one in
each of its stages. The scoreboard's stale index needs two checked items and two
unchecked ones in one queue: four writes of one address (`scb_false`); two checked
ones before the lost one suffice in `scb_lost`. In `scb_ok` a burst and two single
transfers meet in the queues of two addresses, in both directions. In `backdoor`
one lost write holds up the thread while two later writes of one word are stored
one over the other, and the timeouts are all the code draws from. In `seq_graph`
two edges cover every way two edges can meet (chain, fork, join, cycle, repeat,
loop); the table with two ways to one node adds a second input that is done first.
In `seq_retry` an address may fail more often than, as often as and less often
than `max_err` allows, in either phase.

`CHECK_DEADLOCK FALSE` is set where a behaviour may really end: no more items, no
more resets (queue, reset, driver, backdoor), all sequences ended or waiting in a
cycle (graph), the virtual sequence over or waiting for ever for an item that was
given up (retry).

Fairness. Queue: a process inside a task goes on; a process that only takes
items calls its task again (forever loops). Reset: the delays of the line elapse,
the processes of the phase engine, the monitor and the loop run when they can; nobody has to request anything. Driver: each
process, the slave's answer and the end of a reset. Scoreboard: watchers,
backdoor threads, and the design delivers what it does not lose. Backdoor: the
slave sequence, the thread, the clock, the end of a reset; no write has to be
sent. Graph: the builder and each sequence, whose items are all answered; no reset
has to come. Retry: each process and the slave's answer; no error has to happen.

Runs that end in a violation, each about a line of the repository:

| run | property | line | what happens |
|---|---|---|---|
| `driver_hang` | `KeepsFetching` | `apb_master_reset_vseq.sv:158`, waits for the sequences to finish after a reset | a process killed with a queue lock leaves it set |
| `reset_monitor` | `AllThreadsRun` | `smtdv_monitor.sv:71`, "start to spawn all threads" | the empty `reset_monitor` leaves `has_finalize` set |
| `scb_false` | `NoFalseError` | `smtdv_scoreboard.sv:397` | deletion by stale indices drops an unchecked item; the next write is compared with the wrong one; a lost write may be dropped the same way |

## 5. Proofs

The proofs hold for every value of the constants that meets the named `ASSUME`s
of the module. Each module of proofs defines an inductive invariant `IInv`, proves
that `Init` implies it and that each action keeps it, part by part, and takes the
properties from it.

`QueueOpsProofs`: what each queue function does to the elements of a queue, its
length and its distinctness (`PushFrontLemma`, `PushBackLemma`, `InsertLemma`,
`DeleteLemma`, `PopFrontLemma`, `PopBackLemma`, `SortLemma`), and that a deletion
keeps the order of the others (`DeleteOrder`); used by the proofs of queue, driver,
graph, retry and scoreboard.

`SmtdvQueueProofs`, for every set of processes and items, every `Prio`, `Calls`
and `Idx`:
- `QueueInvariant`: `NoNullPop` alone is not inductive: it needs `SizeStillHolds`
  (the size seen before the lock is still positive, if nobody else removes),
  which needs `CallOK` (a process waiting for the lock with a removing task is one
  that calls it). `OnePlace` needs that the arguments of pending pushes are in no
  other place. `LockOwned` is inductive with the types.
- `QueueTypeCorrect`, `QueueLockOwned`, `QueueNoNullPop`, `QueueOnePlace`: its parts.
- `QueueIsMailbox`: if items are only added with the async pushes and taken with
  `async_prio_get` by one process (`MailboxUse`), each step is a step of `Mailbox`
  or a stutter: the safety part of the refinement.

`ResetLoopProofs`, for every set of threads, number of phases (`Last > 2`) and of resets:
- `ResetInvariant`: `NoTrafficBeforePowerOn` needs `PowerOnOrder`: the line can be
  asserted, a reset phase can take time and a type can be set only after the
  power-on assertion. `OneProcessPerThread` and `AllThreadsRun` need
  `QuietInReset` (disable fork has ended all processes before the loop forks
  again) and `Unmarked`. `HeldInReset` needs `HeldLow`: up to the end of post_reset the
  component is in reset, and the line that `reset_phase` found released (`Looked`) is
  asserted again only by a request, which leaves a flag or is `missed`. `KeyHeld` (the
  key is out while the line is asserted) bounds the semaphore, and `LastStays`
  the phases.
- `ResetTypeCorrect`, `ResetNoTraffic`, `ResetOneProcess`, `ResetHeldInReset`, and
  `ResetAllThreadsRun` under `Cleared = Thread`, which the monitors do not meet.

`ApbMasterDriverProofs`, for every set of items, every `Prio` and number of resets:
- `DriverInvariant`: `RequestForEveryTransfer` says that `bbox` is long enough for
  the transfers that were reported. It is not inductive, because a transfer about
  to be reported needs its request as well; `Balance` is the exact account while
  the monitor's threads run: requests in `bbox` are those of transfers reported, of
  the one in service and of the items on their way through `mbox` to the bus. It
  needs `InHand` (what each process holds at each of its waits) and `Forks` (the
  response thread and the collecting monitor are forked together and only once, so
  after a reset the account is frozen). `NoStaleDrive` needs `Fetched`, and
  `MboxIsMailbox` needs `Places`: an item is with its sequence, in the getter's
  hand or once in `mbox`.
- `DriverTypeCorrect`, `DriverRequestForEveryTransfer`, `DriverNoNullResponse`,
  `DriverNoStaleDrive`: its parts.
- `DriverMboxIsMailbox`: with `Gone`, the items that left `mbox` or died with a
  process, for `taken`, each step between two resets is a step of `Mailbox` or
  stutters, and the item `drive` takes is the one it brings to the bus. A reset is
  excepted because it empties the box, which a mailbox never does.

`SeqGraphProofs`, for every set of nodes, all tables and number of resets:
- `SeqGraphInvariant`: `GraphBuilt` says that in a table without repeats the ids the
  builder hands out are the places of the edges (`Counted`, `FromTable`, `InEdges`,
  `OutEdges`) and that nothing runs before the graph is final. `HoldsLock`: between
  locking and unlocking a node is locked. `DoneIfFree`: a node visited and free is
  done, so a sequence that a reset killed is never taken for completed.
  `SourceDone`: a sequence is past an edge only if its source is done, and
  `LockedInOrder`: so is every source of a locked node, which gives
  `WaitsForInputs`, and `SinksFree`, since a sink cannot be locked before its source
  is done.
- `SeqGraphTypeCorrect`, `SeqGraphWaitsForInputs`, `SeqGraphSinksFree`: its parts.

`RetrySeqProofs`, for any items, addresses, watch table, `MaxErr` and `MaxFail`:
- `RetrySeqInvariant`: `Windows` says that a window is the number of items of its
  phase that have not succeeded, which gives `PhasesComplete`; it needs `OnePlace`
  (a success is counted once) and `Queues` (no queue holds an item twice).
  `Visits` relates the table of retries to the errors of the item that goes to the
  address, counting the one the monitor saw and the sequence did not take yet,
  which gives `RetriesExhausted`.
- `RetrySeqTypeCorrect` (no window below zero), `RetrySeqOnePlace`,
  `RetrySeqPhasesComplete`, `RetrySeqRetriesExhausted`: its parts.

`ScoreboardProofs`, for any transfers, addresses, bursts, data, fates, lifetimes and
resets:
- `ScoreboardInvariant`: `OnlyDropsMislead` needs `InStep`: as long as no watcher
  dropped an unchecked item, the unchecked items of each pool are the beats the
  design holds at that address, in the same order (`SidesAgree`; a reset empties
  both sides), so the first unchecked item is the one the design delivers. It needs `AllOrNone` (a parent is checked
  with all of its beats or with none, between two calls), `InPlace` (an item is only
  in the pool of its kind and address) and that no queue holds an item twice.
  `CheckedOnce` follows from `AllOrNone` for bursts; for single transfers it holds
  whatever is lost or dropped (`SingleCounted`), because a checked item never is
  found again.
- The loop over the beats of a burst is a recursive function. What it keeps is
  proved at the least turn that could break it (`AfterLemma`, `LeastNatural`), which
  takes the place of an induction.
- `ScoreboardTypeCorrect`, `OnlyDropsCanMislead`, `CountIsChecked`: its parts.

`MemBackdoorProofs`, for any writes, word size, timeouts of at least 2 and resets:
- `QueryLemma`: the query returns the bytes of the last write stored at the address,
  in their order. Words are aligned (`AlignedLemma`), so the rows found are whole
  blocks; those of the last write come first, and they are as many as the query
  returns. It needs `RowsOfStored`: every stored write has one block of rows, and
  every row is in the block of its write.
- `MemBackdoorInvariant`: `QueryIsMemory` needs `MemoryOfLatest`, what the memory holds
  of each word, `RowsOfStored`, and `OneInHand`: the slave sequence stores a write
  before the next completes, so the order of the rows is that of the clocks.
  `OnlyBacklogMisleads` needs `Backlog`: what waits for the thread is behind a write
  that will never be stored, or was completed within the last clock, and what the
  thread has in hand was compared in vain for a reason or has its whole timeout left
  (here the timeout of at least 2 matters); and `InOrder`, that the thread works off
  the completed writes in their order.
- `MemBackdoorTypeCorrect`, `QueryFindsMemory`, `OnlyBacklogCanMislead`: its parts.

Every invariant of a run that passes is a theorem. Only model-checked is liveness
(`LeavesReset`, `AllAnswered`, `LostReportedOrDropped`, `PoolsDrain`,
`EveryLossReported`, `EverySequenceEnds`, `Ends`, the liveness of `MailboxSpec`):
fairness and ENABLED are out of the prover's reach.

## 6. Observations without a run

Seen while modelling, true of the code, and not the subject of a run:

- Responses are matched with requests first in first out (`smtdv_rsp_back_threads.sv:41`,
  commented "inorder"), while items are driven by `prio`: with two priorities in
  flight an item gets the response of another one.
- `nocheck_scb_get` (`smtdv_queue.sv:207`) is to "get first no visited(checked) item"
  (line 199), but the `||` also accepts checked items whose parent is not complete:
  a single write between two parts of a burst is compared with the beat of its
  address that was checked before and reported as wrong, the burst counts it and is
  taken for complete although its other beat was never checked; a burst that visits
  an address twice is compared with one item twice. `CheckedOnce` is stated for
  bursts that arrive whole and visit no address twice, and for single transfers.
- `post_addr` of AHB (`lib/smtdv_ahb_uvc/sv/ahb_sequence_item.sv:149`) computes
  `aligned` and `aligned_addr` before the loop only: an incrementing burst from an
  unaligned address stays at the second address from there on, and so is one that
  visits an address repeatedly.
- `compare` (`smtdv_sequence_item.sv:249`) looks at the data of writes only, so a read
  that returns other data is never reported, and the backdoor comparison of reads
  always matches.
- Nobody checks that the jump of a reset request is made (`do_reset_jump`,
  `smtdv_reset_model.sv:287`). A `do_hw_reset` at the instant the line of another reset is
  released, or in the zero-time steps up to the last phase, may find the reset
  phase still active or no phase at all: `uvm_domain::jump` drops it (`uvm_domain.svh:203`)
  and the components stay, or get, out of reset while the line is asserted, although
  the interface is "to notify all registered comp to do reset methodology"
  (`smtdv_gen_rst_if.sv:8`). `HeldInReset` says that these requests (`missed`) are the
  only ones: without `missed` TLC finds it violated.
- A jump requested in a phase that has just ended is not only an error of UVM
  (JMPPHIDL): its flag stays, so the phase jumps back when the next reset gets to
  it, and the reset phase runs once more than it was asked to. `LeavesReset`
  includes this.
- The list a watcher takes its addresses from is never cleared
  (`smtdv_hash.sv:68`): it grows with every period. `PoolsDrain` says that what was
  checked leaves the pools in spite of the copies; the growth itself is cut by
  `MaxCopies`.
- A lost write of zeros to an address never written before is not noticed: what
  the query does not find counts as zero. Behind a lost write the comparing
  thread waits, and a later stored write may be reported because it has been
  overwritten meanwhile (`OnlyBacklogMisleads` says that this is the only way).
- An edge listed twice in a table shifts the ids of the edges behind it
  (`smtdv_seq_graph_builder.sv:151` counts, `add_edge` deletes and appends).
- `smtdv_master_polling_seq.sv:125`: the visit of a polling entry is never incremented,
  so its bound never ends a poll.
- An item given up after `max_err`, or outside of the watch table, never gives its
  window back: the virtual sequence waits for ever (`Ends` says that this is the
  only way).
- `finish` is never cleared and the fifo from the monitor is not emptied, so a second
  retry sequence on the same sequencer ends at once or counts items of an earlier one.
- A slave sequence started again after a reset creates its table once more; the
  database code answers a failing CREATE TABLE with `exit(-1)`.
- STL DPI: the setter of the lock field writes the id, and a string is returned by
  the `c_str` of a temporary.

## 7. Not modelled

- Third-party code (`kernel`, `designs`): SystemC, UVM, UVM-ML and their tests are
  nearly all of the repository's lines. What the library uses of them (`uvm_queue`,
  the phases of a domain, sequencer, ports) is modelled where it is used.
- AHB: the address and the data process of its master driver each sort a queue of
  their own, and each looks at what the other did at the same clock edge. That both
  take the same item and that data follow their address depends on the order of
  events within one time step. The models leave that order open; a model of AHB
  would have to contain the simulator's scheduling regions, or it would show
  interleavings that cannot happen. The queues, the base driver, the reset loop and
  the scoreboard it shares with APB are modelled.
- UART: sampling of bits against clock dividers. SPI is an unfinished skeleton.
- APB slave driver: the same queue idioms as the master driver; the write path of
  its sequence is in `MemBackdoor`.
- Polling, stop: a retry on data without a bound, a handshake of two flags.
- Labels: a table of callbacks and one process that takes items from a queue as
  specified by `Mailbox`; what the callbacks change is a test's configuration.
- Component graph: the scheduler that would run its nodes is never created.
- Generic fifo: a bounded container of one process. Ring queue, arbiter: unused.
- Thread watchdog: compares simulated times, which the models abstract to an order.
- Configuration, agents, printing, parsers, scripts: no state that changes while
  the simulation runs.

## 8. Plan

1. Done: `QueueOps`, `SmtdvQueue`, `Mailbox`, `ResetLoop`, `ApbMasterDriver`,
   `Scoreboard`, `SeqGraph`, `MemBackdoor`, `RetrySeq`, and the proofs of section 5.
2. Models: AHB with an explicit order of the events of a time step; the thread
   watchdog with explicit times.
