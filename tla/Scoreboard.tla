----------------------------- MODULE Scoreboard -----------------------------
(***************************************************************************)
(* smtdv_scoreboard.  A write is put into wr_pool, beat by beat, when the  *)
(* initiator's monitor reports it and is checked when the target's monitor *)
(* does; a read is put into rd_pool by the target and checked by the       *)
(* initiator.  The two directions are the same algorithm with the sides    *)
(* swapped, so the state is indexed by the kind of transfer.  Two threads, *)
(* smtdv_watch_wr_lifetime and smtdv_watch_rd_lifetime, visit the pools    *)
(* periodically, remove what was checked and report what waits too long.   *)
(*                                                                         *)
(* The design between the monitors is external: it delivers the beats of   *)
(* one address in order, and Fate says what it does to each transfer.      *)
(***************************************************************************)
EXTENDS QueueOps, FiniteSetsExt

CONSTANTS
  Trx,        \* the transfers of a test
  Kind,       \* Kind[t]: "WR" or "RD"
  Beats,      \* Beats[t]: the addresses of its beats, addrs[]
  Data,       \* Data[t]: the data of its beats
  Fate,       \* Fate[t]: what the design does with it
  NumAddr,    \* the addresses are 0 .. NumAddr - 1
  LifeTime,   \* life_time of an item
  MaxCopies,  \* bound on the copies of a key in the list of a watcher
  MaxResets   \* bound on the resets in a behaviour

Kinds == {"WR", "RD"}
Fates == {"ok", "split", "lost"}

Addr == 0..(NumAddr - 1)

ASSUME TrxAssumption ==
  /\ Kind \in [Trx -> Kinds]
  /\ Fate \in [Trx -> Fates]
  /\ \A t \in Trx :
       Beats[t] \in Seq(Addr) \ {<<>>} /\ Len(Data[t]) = Len(Beats[t])
ASSUME BoundAssumption ==
  NumAddr \in Nat /\ LifeTime \in Nat /\ MaxCopies \in Nat /\ MaxResets \in Nat

\* The atomic items of transfer t: <<t, n>> is that of beat n, its parent is t
Atoms == [t \in Trx |-> [n \in 1..Len(Beats[t]) |-> <<t, n>>]]
AtomSet == [t \in Trx |-> Range(Atoms[t])]
Atom == UNION {AtomSet[t] : t \in Trx}
ASSUME NullAssumption == NULL \notin Trx \cup Atom

AddrOf(x) == Beats[x[1]][x[2]]
DataOf(x) == Data[x[1]][x[2]]

VARIABLES
  unsent,     \* transfers not started yet
  out,        \* out[k][a]: beats of address a inside the design, in order
  pool,       \* pool[k][a]: wr_pool and rd_pool, the queue of an address
  known,      \* known[k]: the addresses that are keys of the pool
  checked,    \* atoms with has_check_on_scb
  check_num,  \* check_num[t]: check_num_on_scb of the parent
  life,       \* life[x]: life_time
  box,        \* box[k]: wbox and rbox, for the memory backdoor threads
  comp_error, \* history: transfers whose check reported *_COMP
  life_error, \* history: transfers reported by SMTDV_SB_LIFE_TIMEOUT
  reported,   \* history: transfers of which a beat was checked
  dropped,    \* history: atoms a watcher deleted before they were checked
  watch,      \* watch[k]: where the watcher is
  taddr,      \* watch[k]'s list of addresses
  cursor,     \* watch[k]'s indices: i in taddr (from 1), j in the queue (from 0)
  item,       \* the atom watch[k] got
  dels,       \* the indices it will delete
  resets

poolVars == <<pool, known, checked, check_num, box>>
watchVars == <<watch, taddr, cursor, item, dels>>
verdicts == <<comp_error, life_error, reported, dropped>>
vars == <<unsent, out, poolVars, life, verdicts, watchVars, resets>>

Idle ==
  /\ watch = [k \in Kinds |-> "sleep"]
  /\ taddr = [k \in Kinds |-> <<>>]
  /\ cursor = [k \in Kinds |-> [i |-> 1, j |-> 0]]
  /\ item = [k \in Kinds |-> NULL]
  /\ dels = [k \in Kinds |-> <<>>]

Init ==
  /\ unsent = Trx
  /\ out = [k \in Kinds |-> [a \in Addr |-> <<>>]]
  /\ pool = [k \in Kinds |-> [a \in Addr |-> <<>>]]
  /\ known = [k \in Kinds |-> {}]
  /\ checked = {}
  /\ check_num = [t \in Trx |-> 0]
  /\ life = [x \in Atom |-> LifeTime]
  /\ box = [k \in Kinds |-> <<>>]
  /\ comp_error = {} /\ life_error = {} /\ reported = {} /\ dropped = {}
  /\ Idle
  /\ resets = 0

-----------------------------------------------------------------------------
(***************************************************************************)
(* write_initor of a write, write_target of a read: every beat goes to the *)
(* queue of its address.  What is lost never leaves the design.            *)
(***************************************************************************)
\* a finite set of numbers as an ascending sequence
Ascending(S) ==
  CHOOSE s \in [1..Cardinality(S) -> S] : \A i, j \in DOMAIN s : i < j => s[i] < s[j]

\* the beats of t at address a, in the order of the burst
Visits(t, a) ==
  LET At == Ascending({n \in 1..Len(Beats[t]) : Beats[t][n] = a})
  IN  [i \in DOMAIN At |-> <<t, At[i]>>]

Enter(t) ==
  LET k == Kind[t] IN
  out' = IF Fate[t] = "lost"
           THEN out
           ELSE [out EXCEPT ![k] = [a \in Addr |-> @[a] \o Visits(t, a)]]

\* Mutant: the index of the beat is off by one, past the last beat
PutPast(t) ==
  LET k == Kind[t]
      Past(a) == [i \in DOMAIN Visits(t, a) |-> <<t, Visits(t, a)[i][2] + 1>>]
  IN
  /\ t \in unsent
  /\ unsent' = unsent \ {t}
  /\ Enter(t)
  /\ pool' = [pool EXCEPT ![k] = [a \in Addr |-> @[a] \o Past(a)]]
  /\ known' = [known EXCEPT ![k] = @ \cup Range(Beats[t])]
  /\ UNCHANGED <<checked, check_num, box, life, verdicts, watchVars, resets>>

Put(t) ==
  LET k == Kind[t] IN
  /\ t \in unsent
  /\ unsent' = unsent \ {t}
  /\ Enter(t)
  /\ pool' = [pool EXCEPT ![k] = [a \in Addr |-> @[a] \o Visits(t, a)]]
  /\ known' = [known EXCEPT ![k] = @ \cup Range(Beats[t])]
  /\ UNCHANGED <<checked, check_num, box, life, verdicts, watchVars, resets>>

(***************************************************************************)
(* write_target of a write, write_initor of a read: for every beat, in     *)
(* order, nocheck_scb_get picks an item of the queue of its address, the   *)
(* item is compared with the beat and marked checked.                      *)
(***************************************************************************)
\* has_check_on_scb_all
AllChecked(num, t) == num[t] = Len(Beats[t])

\* Mutant: the last unchecked item instead of the first
NocheckScbGetLast(q, chk, num) ==
  LET Found == {n \in 1..Len(q) : q[n] \notin chk \/ ~AllChecked(num, q[n][1])}
  IN  IF Found = {} THEN NULL ELSE q[Max(Found)]

NocheckScbGet(q, chk, num) ==
  LET Found == {n \in 1..Len(q) : q[n] \notin chk \/ ~AllChecked(num, q[n][1])}
  IN  IF Found = {} THEN NULL ELSE q[Min(Found)]

\* smtdv_sequence_item::compare looks at the data of writes only
Compare(k, x, data) == k = "WR" => DataOf(x) = data

\* Mutant: the parent does not count the check
CheckBeatUncounted(st, k, a, data) ==
  LET it == NocheckScbGet(pool[k][a], st.checked, st.num)
  IN  IF it = NULL
        THEN st
        ELSE [checked |-> st.checked \cup {it},
              num |-> st.num,
              error |-> st.error \/ ~Compare(k, it, data)]

CheckBeat(st, k, a, data) ==
  LET it == NocheckScbGet(pool[k][a], st.checked, st.num)
  IN  IF it = NULL
        THEN st
        ELSE [checked |-> st.checked \cup {it},
              num |-> [st.num EXCEPT ![it[1]] = @ + 1],
              error |-> st.error \/ ~Compare(k, it, data)]

\* what the loop over the beats s leaves
After(k, s) ==
  LET after[n \in 0..Len(s)] ==
        IF n = 0
          THEN [checked |-> checked, num |-> check_num, error |-> FALSE]
          ELSE CheckBeat(after[n - 1], k, AddrOf(s[n]), DataOf(s[n]))
  IN  after[Len(s)]

Check(t, s) ==
  LET k == Kind[t]
      st == After(k, s)
  IN  /\ checked' = st.checked
      /\ check_num' = st.num
      /\ comp_error' = IF st.error THEN comp_error \cup {t} ELSE comp_error
      /\ reported' = reported \cup {t}
      /\ box' = [box EXCEPT ![k] = Append(@, t)]
      /\ UNCHANGED <<unsent, pool, known, life, life_error, dropped, watchVars, resets>>

\* the beats s are the oldest of their address inside the design
Oldest(q, s) == Len(s) <= Len(q) /\ \A i \in 1..Len(s) : q[i] = s[i]

Report(t) ==
  LET k == Kind[t] IN
  /\ Fate[t] = "ok"
  /\ \A a \in Addr : Oldest(out[k][a], Visits(t, a))
  /\ out' = [out EXCEPT ![k] =
                [a \in Addr |-> SubSeq(@[a], Len(Visits(t, a)) + 1, Len(@[a]))]]
  /\ Check(t, Atoms[t])

\* a burst that arrives in parts, each reported as a transfer of its own
ReportPart(t) ==
  LET k == Kind[t] IN
  /\ Fate[t] = "split"
  /\ \E x \in AtomSet[t] :
       /\ Oldest(out[k][AddrOf(x)], <<x>>)
       /\ out' = [out EXCEPT ![k][AddrOf(x)] = Tail(@)]
       /\ Check(t, <<x>>)

\* the backdoor threads: wait(size() > 0); pop_front()
BackdoorPop(k) ==
  /\ box[k] # <<>>
  /\ box' = [box EXCEPT ![k] = WithoutFront(@)]
  /\ UNCHANGED <<unsent, out, pool, known, checked, check_num, life, verdicts, watchVars, resets>>

-----------------------------------------------------------------------------
(***************************************************************************)
(* The watcher of kind k.  Its list of addresses is never cleared: every   *)
(* period appends the keys again, and it visits an address once per copy.  *)
(***************************************************************************)
Copies(s, a) == Cardinality({n \in DOMAIN s : s[n] = a})

Queue(k) == pool[k][taddr[k][cursor[k].i]]

WatchWake(k) ==
  /\ watch[k] = "sleep"
  /\ taddr' = [taddr EXCEPT ![k] =
                 @ \o Ascending({a \in known[k] : Copies(@, a) < MaxCopies})]
  /\ cursor' = [cursor EXCEPT ![k] = [i |-> 1, j |-> 0]]
  /\ dels' = [dels EXCEPT ![k] = <<>>]
  /\ watch' = [watch EXCEPT ![k] = "scan"]
  /\ UNCHANGED <<unsent, out, poolVars, life, verdicts, item, resets>>

WatchSleep(k) ==
  /\ watch[k] = "scan"
  /\ cursor[k].i > Len(taddr[k])
  /\ watch' = [watch EXCEPT ![k] = "sleep"]
  /\ UNCHANGED <<unsent, out, poolVars, life, verdicts, taddr,
                 cursor, item, dels, resets>>

\* async_get(j): the watcher suspends with the item in hand
WatchGet(k) ==
  /\ watch[k] = "scan"
  /\ cursor[k].i <= Len(taddr[k])
  /\ cursor[k].j < Len(Queue(k))
  /\ item' = [item EXCEPT ![k] = Get(Queue(k), cursor[k].j)]
  /\ watch' = [watch EXCEPT ![k] = "look"]
  /\ UNCHANGED <<unsent, out, poolVars, life, verdicts, taddr,
                 cursor, dels, resets>>

\* Mutant: life_time is not decremented
WatchLookAgeless(k) ==
  LET x == item[k]
      done == x \in checked \/ AllChecked(check_num, x[1])
  IN
  /\ watch[k] = "look"
  /\ dels' = IF done THEN [dels EXCEPT ![k] = Append(@, cursor[k].j)] ELSE dels
  /\ life_error' = IF ~done /\ life[x] < 0 THEN life_error \cup {x[1]} ELSE life_error
  /\ cursor' = [cursor EXCEPT ![k].j = @ + 1]
  /\ watch' = [watch EXCEPT ![k] = "scan"]
  /\ UNCHANGED <<unsent, out, poolVars, life, comp_error, reported, dropped, taddr, item, resets>>

WatchLook(k) ==
  LET x == item[k]
      done == x \in checked \/ AllChecked(check_num, x[1])
  IN
  /\ watch[k] = "look"
  /\ dels' = IF done THEN [dels EXCEPT ![k] = Append(@, cursor[k].j)] ELSE dels
  /\ life_error' = IF ~done /\ life[x] < 0 THEN life_error \cup {x[1]} ELSE life_error
  /\ life' = IF ~done /\ life[x] >= 0 THEN [life EXCEPT ![x] = @ - 1] ELSE life
  /\ cursor' = [cursor EXCEPT ![k].j = @ + 1]
  /\ watch' = [watch EXCEPT ![k] = "scan"]
  /\ UNCHANGED <<unsent, out, poolVars, comp_error, reported, dropped, taddr, item, resets>>

\* the queue is scanned, or its deletions have begun
Deleting(k) ==
  \/ watch[k] = "delete"
  \/ /\ watch[k] = "scan"
     /\ cursor[k].i <= Len(taddr[k])
     /\ cursor[k].j >= Len(Queue(k))

\* Mutant: the index is off by one
WatchDeleteNext(k) ==
  LET left == Delete(Queue(k), Head(dels[k]) + 1) IN
  /\ Deleting(k)
  /\ dels[k] # <<>>
  /\ pool' = [pool EXCEPT ![k][taddr[k][cursor[k].i]] = left]
  /\ dropped' = dropped \cup ((Elements(Queue(k)) \ Elements(left)) \ checked)
  /\ dels' = [dels EXCEPT ![k] = Tail(@)]
  /\ watch' = [watch EXCEPT ![k] = "delete"]
  /\ UNCHANGED <<unsent, out, known, checked, check_num, box, life, comp_error, life_error,
                 reported, taddr, cursor, item, resets>>

\* foreach(dels[i]) async_delete(dels[i]): the indices found by the scan, in
\* ascending order, while the queue shrinks under them
WatchDelete(k) ==
  LET left == Delete(Queue(k), Head(dels[k])) IN
  /\ Deleting(k)
  /\ dels[k] # <<>>
  /\ pool' = [pool EXCEPT ![k][taddr[k][cursor[k].i]] = left]
  /\ dropped' = dropped \cup ((Elements(Queue(k)) \ Elements(left)) \ checked)
  /\ dels' = [dels EXCEPT ![k] = Tail(@)]
  /\ watch' = [watch EXCEPT ![k] = "delete"]
  /\ UNCHANGED <<unsent, out, known, checked, check_num, box, life, comp_error, life_error,
                 reported, taddr, cursor, item, resets>>

WatchNext(k) ==
  /\ Deleting(k)
  /\ dels[k] = <<>>
  /\ cursor' = [cursor EXCEPT ![k] = [i |-> @.i + 1, j |-> 0]]
  /\ watch' = [watch EXCEPT ![k] = "scan"]
  /\ UNCHANGED <<unsent, out, poolVars, life, verdicts, taddr,
                 item, dels, resets>>

(***************************************************************************)
(* resetn falls: disable fork ends the watchers, reset_scoreboard empties  *)
(* the pools but not wbox and rbox, and run starts the watchers again.     *)
(* Assumed of the design: it loses what it holds, also at a software reset *)
(* (smtdv_reset_model::do_sw_reset), which does not assert the line: the   *)
(* test that requests one has to reset the design, or to let it run empty. *)
(***************************************************************************)
ResetScoreboard ==
  /\ resets < MaxResets
  /\ resets' = resets + 1
  /\ out' = [k \in Kinds |-> [a \in Addr |-> <<>>]]
  /\ pool' = [k \in Kinds |-> [a \in Addr |-> <<>>]]
  /\ known' = [k \in Kinds |-> {}]
  /\ watch' = [k \in Kinds |-> "sleep"]
  /\ taddr' = [k \in Kinds |-> <<>>]
  /\ cursor' = [k \in Kinds |-> [i |-> 1, j |-> 0]]
  /\ item' = [k \in Kinds |-> NULL]
  /\ dels' = [k \in Kinds |-> <<>>]
  /\ UNCHANGED <<unsent, checked, check_num, box, life, verdicts>>

Watch(k) == WatchWake(k) \/ WatchSleep(k) \/ WatchGet(k) \/ WatchLook(k)
              \/ WatchDelete(k) \/ WatchNext(k)

Deliver(t) == Report(t) \/ ReportPart(t)

Next ==
  \/ \E t \in Trx : Put(t) \/ Deliver(t)
  \/ \E k \in Kinds : Watch(k) \/ BackdoorPop(k)
  \/ ResetScoreboard

\* The threads run; the design delivers what it does not lose (transfers and boxes
\* are finite, so it need not be said of each).
Fairness ==
  /\ \A k \in Kinds : WF_vars(Watch(k))
  /\ WF_vars(\E k \in Kinds : BackdoorPop(k))
  /\ WF_vars(\E t \in Trx : Deliver(t))

Spec == Init /\ [][Next]_vars /\ Fairness

-----------------------------------------------------------------------------
\* Every variable has its type: life_time saturates at -1 in the model.  A watcher
\* that holds an item or deletes is at an address of its list.
TypeOK ==
  /\ unsent \subseteq Trx
  /\ out \in [Kinds -> [Addr -> Seq(Atom)]] /\ pool \in [Kinds -> [Addr -> Seq(Atom)]]
  /\ known \in [Kinds -> SUBSET Addr]
  /\ box \in [Kinds -> Seq(Trx)]
  /\ watch \in [Kinds -> {"sleep", "scan", "look", "delete"}]
  /\ taddr \in [Kinds -> Seq(Addr)]
  /\ cursor \in [Kinds -> [i : Nat \ {0}, j : Nat]]
  /\ item \in [Kinds -> Atom \cup {NULL}]
  /\ dels \in [Kinds -> Seq(Nat)]
  /\ \A k \in Kinds :
       /\ watch[k] \in {"look", "delete"} => cursor[k].i <= Len(taddr[k])
       /\ watch[k] = "look" => item[k] # NULL
  /\ checked \subseteq Atom
  /\ check_num \in [Trx -> Nat]
  /\ life \in [Atom -> -1..LifeTime]
  /\ comp_error \cup life_error \cup reported \subseteq Trx
  /\ dropped \subseteq Atom
  /\ resets \in 0..MaxResets

\* A design that delivers every transfer unchanged and in order is not reported
\* for a wrong comparison, whatever is in flight while the watchers clean up.
NoFalseError == (\A t \in Trx : Fate[t] = "ok") => comp_error = {}

\* Bursts are reported whole and visit no address twice
Whole == \A t \in Trx : Fate[t] = "ok" /\ IsInjective(Beats[t])

\* ... and is never, if no burst visits an address twice, unless a watcher deleted
\* an item before it was checked: the search for the first unchecked item keeps
\* the two sides in step otherwise.
OnlyDropsMislead == Whole /\ dropped = {} => comp_error = {}

\* "get first no visited(checked) item": no item is checked twice, so the count in
\* the parent is the number of its beats that were checked, as long as bursts
\* arrive whole and no watcher drops an item; and in any case if there are no
\* bursts, whatever the design and the watchers lose.  A burst in parts, or one that
\* visits an address twice, is excepted because nocheck_scb_get finds its checked
\* items again until the parent is complete.
CheckedOnce ==
  (Whole /\ dropped = {}) \/ (\A t \in Trx : Len(Beats[t]) = 1) =>
    \A t \in Trx : check_num[t] = Cardinality({x \in checked : x[1] = t})

\* "make sure the wr trx from initiator to target is completed at time": a
\* transfer the design loses is reported, by a timeout or by the mismatch it
\* causes at its address, unless a watcher deleted it unchecked.
LostReportedOrDropped ==
  \A t \in Trx : Fate[t] = "lost" =>
    (t \notin unsent ~>
       (t \in life_error \/ comp_error # {} \/ \E x \in dropped : x[1] = t))

\* What was checked leaves the pools: once the design is empty they drain, and
\* the boxes too.
PoolsDrain ==
  <>[](\A k \in Kinds : box[k] = <<>> /\ \A a \in Addr :
         Elements(pool[k][a]) \cap checked = {})
=============================================================================
