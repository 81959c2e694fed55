----------------------------- MODULE ResetLoop -----------------------------
(***************************************************************************)
(* Resets of one reset group: the reset line of smtdv_gen_rst_if, the      *)
(* reset monitor and the reset model that turn its edges and the users'    *)
(* requests into phase jumps, the flags every smtdv_component keeps about  *)
(* the reset phases, and the run_phase loop with which a driver, a monitor *)
(* or the scoreboard stops and restarts the threads of its handlers.       *)
(*                                                                         *)
(* The phase engine runs the phases of the group's domain one after the    *)
(* other.  A jump ends the phase under way and starts the reset phase.     *)
(* uvm_domain::jump asks the phases that are under way, but not the target *)
(* itself: a jump that finds the reset phase under way, or no phase, is    *)
(* lost.                                                                   *)
(***************************************************************************)
EXTENDS Integers

CONSTANTS
  Thread,      \* the threads registered with the component's handlers
  Cleared,     \* those whose handler the component's reset task resets
  Last,        \* the last phase of the domain (11 in the code, which has 12)
  MaxResets    \* bound on the resets requested by users in a behaviour

ASSUME ClearedAssumption == Cleared \subseteq Thread
ASSUME LastAssumption == Last \in Nat /\ Last > 2
ASSUME MaxResetsAssumption == MaxResets \in Nat

VARIABLES
  rst,          \* vif.rst is asserted
  rst_sm,       \* the keys in the semaphore of the interface
  por,          \* the power-on reset of the interface
  missed,       \* the assertion of rst is seen neither by a jump nor by reset_phase
  mon,          \* run_phase of the reset monitor
  objection,    \* reset_phase of the reset monitor
  phase,        \* the phase of the domain
  state,        \* m_state of that phase
  jump,         \* m_jump_fwd or m_jump_bkwd of each phase
  took_time,    \* reset_phase_period # 0
  pwrst_done,   \* smtdv_component::pwrst_done
  rst_typ,      \* smtdv_component::rst_typ
  resetn,       \* smtdv_component::resetn
  loop,         \* run_phase of the component
  has_finalize, \* smtdv_run_thread::has_finalize of each thread
  running,      \* how many processes execute each thread's run()
  resets        \* how many resets users requested

lineVars == <<rst, rst_sm, por, missed>>
monVars == <<mon, objection>>
phaseVars == <<phase, state, jump>>
flagVars == <<took_time, pwrst_done, rst_typ, resetn>>
loopVars == <<loop, has_finalize, running>>
vars == <<lineVars, monVars, phaseVars, flagVars, loopVars, resets>>

RstType == {"NOT_VALID", "HW_RST", "SW_RST", "PWR_RST"}

\* The phases in their order: pre_reset is 0
PreReset == 0
Reset == 1
PostReset == 2

\* scheduled: from DONE of the phase before to STARTED; active: STARTED to
\* READY_TO_END; ended: ENDED and CLEANUP; jumping: ENDED on the way to a jump
\* until the target is put into the hopper
State == {"scheduled", "active", "ended", "jumping"}

\* add_component has set resetn to 0 for every component of the group.  If the
\* random delay of the power-on assertion is zero, the line is asserted one #0
\* after the start of simulation, long before the run-time phases.
Init ==
  /\ \/ rst = FALSE /\ por = "before"
     \/ rst = TRUE /\ por = "asserted"
  /\ rst_sm = 0 /\ missed = FALSE
  /\ mon = "start" /\ objection = "none"
  /\ phase = PreReset /\ state = "scheduled" /\ jump = [p \in 0..Last |-> FALSE]
  /\ took_time = FALSE /\ pwrst_done = FALSE /\ rst_typ = "NOT_VALID"
  /\ resetn = FALSE
  /\ loop = "reset"
  /\ has_finalize = [t \in Thread |-> FALSE]
  /\ running = [t \in Thread |-> 0]
  /\ resets = 0

-----------------------------------------------------------------------------
(***************************************************************************)
(* Simulated time advances only when no process can run: a phase waits for *)
(* objections, and the loops are at a wait or run their threads.           *)
(***************************************************************************)
Settled ==
  /\ mon \notin {"start", "edge"}
  /\ state = "active"
  /\ \/ phase = Last /\ ~jump[phase]
     \/ phase = Reset /\ objection = "raised"
  /\ loop = "run" \/ (loop = "wait" /\ ~resetn)

(***************************************************************************)
(* The reset line                                                          *)
(***************************************************************************)
\* The initial block asserts the line at a random time; the reset monitor may
\* be waiting for that edge.
PowerOnAssert ==
  /\ Settled
  /\ por = "before"
  /\ por' = "asserted"
  /\ rst' = TRUE
  /\ mon' = IF mon = "armed" THEN "edge" ELSE mon
  /\ UNCHANGED <<rst_sm, missed, objection, phaseVars, flagVars, loopVars, resets>>

\* The line is released: a reset_phase waiting for that edge drops its objection,
\* and time has passed since it raised it.
Deassert ==
  /\ Settled
  /\ rst' = FALSE
  /\ rst_sm' = rst_sm + 1
  /\ missed' = FALSE
  /\ objection' = IF objection = "raised" THEN "dropped" ELSE objection
  /\ took_time' = (took_time \/ objection = "raised")
  /\ UNCHANGED <<mon, phaseVars, pwrst_done, rst_typ, resetn, loopVars, resets>>

PowerOnRelease ==
  /\ por = "asserted"
  /\ por' = "done"
  /\ Deassert

UserRelease ==
  /\ por = "done"
  /\ rst
  /\ UNCHANGED por
  /\ Deassert

(***************************************************************************)
(* Reset requests.  do_hw_reset during another reset of the line ends the  *)
(* simulation with RESET_CONFLICT, so it is only taken with the semaphore. *)
(* Sequences request resets, and none runs before run_phase has started.   *)
(***************************************************************************)
\* uvm_domain::jump to the reset phase.  A phase that has ended keeps the flag (with
\* the error JMPPHIDL) until it runs again; one about to jump jumps there anyway.
DomainJump ==
  jump' = [jump EXCEPT ![phase] =
             @ \/ (phase # Reset /\ state \in {"active", "ended"})]

\* What is asserted now is followed by a jump or found by reset_phase
Heard ==
  \/ state = "active" /\ phase # Reset
  \/ state = "jumping"
  \/ phase = Reset /\ (state = "scheduled" \/ (state = "active" /\ objection = "none"))

Request ==
  /\ mon # "start"
  /\ resets < MaxResets
  /\ resets' = resets + 1
  /\ DomainJump
  /\ UNCHANGED <<phase, state, por, monVars, flagVars, loopVars>>

\* Mutant: the key is not taken
DoHwResetNoTry ==
  /\ Request
  /\ rst' = TRUE
  /\ missed' = ~Heard
  /\ UNCHANGED rst_sm

DoHwReset ==
  /\ Request
  /\ rst_sm > 0
  /\ rst_sm' = rst_sm - 1
  /\ rst' = TRUE
  /\ missed' = ~Heard

DoSwReset ==
  /\ Request
  /\ UNCHANGED <<rst, rst_sm, missed>>

(***************************************************************************)
(* smtdv_reset_monitor::run_phase                                          *)
(***************************************************************************)
MonitorStart ==
  /\ mon = "start"
  /\ mon' = IF rst THEN "wait_pwrst" ELSE "armed"
  /\ UNCHANGED <<lineVars, objection, phaseVars, flagVars, loopVars, resets>>

MonitorEdge ==
  /\ mon = "edge"
  /\ mon' = "wait_pwrst"
  /\ DomainJump
  /\ UNCHANGED <<lineVars, objection, phase, state, flagVars, loopVars, resets>>

-----------------------------------------------------------------------------
(***************************************************************************)
(* smtdv_component::phase_started and phase_ended                          *)
(***************************************************************************)
\* Mutant: resetn is not cleared
StartResetKeeps ==
  /\ took_time' = FALSE
  /\ objection' = "none"
  /\ UNCHANGED <<resetn, loop>>

\* phase_started(reset): @(negedge resetn) of the run_phase loop fires
StartReset ==
  /\ took_time' = FALSE
  /\ resetn' = IF pwrst_done THEN FALSE ELSE resetn
  /\ loop' = IF resetn /\ pwrst_done /\ loop = "run" THEN "kill" ELSE loop
  /\ objection' = "none"

EndedReset ==
  /\ rst_typ' = IF ~pwrst_done
                  THEN IF took_time THEN "PWR_RST" ELSE rst_typ
                  ELSE IF took_time THEN "HW_RST" ELSE "SW_RST"
  /\ UNCHANGED <<resetn, pwrst_done>>

\* Mutant: the reset type is not looked at
EndedPostResetAlways ==
  /\ resetn' = TRUE
  /\ pwrst_done' = (pwrst_done \/ rst_typ = "PWR_RST")
  /\ rst_typ' = "NOT_VALID"

\* Mutant: only the power-on reset releases the component
EndedPostResetOnce ==
  /\ resetn' = (resetn \/ rst_typ = "PWR_RST")
  /\ pwrst_done' = (pwrst_done \/ rst_typ = "PWR_RST")
  /\ rst_typ' = "NOT_VALID"

EndedPostReset ==
  /\ resetn' = (resetn \/ rst_typ # "NOT_VALID")
  /\ pwrst_done' = (pwrst_done \/ rst_typ = "PWR_RST")
  /\ rst_typ' = "NOT_VALID"

EndedOther == UNCHANGED <<rst_typ, resetn, pwrst_done>>

\* @(posedge pwrst_done) of the reset monitor, a component as the others
PowerOnSeen ==
  mon' = IF pwrst_done' /\ ~pwrst_done /\ mon = "wait_pwrst" THEN "done" ELSE mon

(***************************************************************************)
(* uvm_phase::execute_phase for the phases of the domain                   *)
(***************************************************************************)
\* run_phase starts with pre_reset, so the monitor is under way before the reset
StartPhase ==
  /\ state = "scheduled"
  /\ state' = "active"
  /\ \/ /\ phase = Reset /\ mon # "start"
        /\ StartReset
     \/ /\ phase # Reset
        /\ UNCHANGED <<objection, took_time, resetn, loop>>
  /\ UNCHANGED <<lineVars, mon, phase, jump, pwrst_done, rst_typ, has_finalize, running, resets>>

\* smtdv_reset_monitor::reset_phase keeps the phase going while rst is asserted
ResetPhase ==
  /\ phase = Reset /\ state = "active"
  /\ objection = "none"
  /\ objection' = IF rst THEN "raised" ELSE "dropped"
  /\ UNCHANGED <<lineVars, mon, phaseVars, flagVars, loopVars, resets>>

\* No objection is left.  The last phase goes on as long as run_phase, its sibling,
\* in which the tests run their sequences.
EndPhase ==
  /\ state = "active" /\ ~jump[phase]
  /\ phase # Last
  /\ state' = "ended"
  /\ \/ phase = Reset /\ objection = "dropped" /\ EndedReset
     \/ phase = PostReset /\ EndedPostReset
     \/ phase \notin {Reset, PostReset} /\ EndedOther
  /\ PowerOnSeen
  /\ UNCHANGED <<lineVars, objection, phase, jump, took_time, loopVars, resets>>

\* DONE, and the successor is put into the hopper
NextPhase ==
  /\ state = "ended"
  /\ phase' = phase + 1
  /\ state' = "scheduled"
  /\ UNCHANGED <<lineVars, monVars, jump, flagVars, loopVars, resets>>

\* The engine waits for #0 before it calls phase_ended, so the monitor's edge of the
\* same instant is served first
JumpEnds ==
  /\ state = "active" /\ jump[phase]
  /\ mon # "edge"
  /\ state' = "jumping"
  /\ \/ phase = PostReset /\ EndedPostReset
     \/ phase # PostReset /\ EndedOther
  /\ PowerOnSeen
  /\ UNCHANGED <<lineVars, objection, phase, jump, took_time, loopVars, resets>>

\* The flags of the phase are cleared and the reset phase is put into the hopper
JumpStarts ==
  /\ state = "jumping"
  /\ jump' = [jump EXCEPT ![phase] = FALSE]
  /\ phase' = Reset
  /\ state' = "scheduled"
  /\ UNCHANGED <<lineVars, monVars, flagVars, loopVars, resets>>

-----------------------------------------------------------------------------
(***************************************************************************)
(* run_phase of the component: reset_driver, reset_monitor or              *)
(* reset_scoreboard; wait(resetn); the threads of its handlers; at the     *)
(* falling edge of resetn, disable fork.                                   *)
(***************************************************************************)
\* Mutant: the reset task does not reset the handlers
LoopResetKeeps ==
  /\ loop = "reset"
  /\ loop' = "wait"
  /\ UNCHANGED <<lineVars, monVars, phaseVars, flagVars, has_finalize, running, resets>>

LoopReset ==
  /\ loop = "reset"
  /\ has_finalize' = [t \in Thread |-> has_finalize[t] /\ t \notin Cleared]
  /\ loop' = "wait"
  /\ UNCHANGED <<lineVars, monVars, phaseVars, flagVars, running, resets>>

\* smtdv_thread_handler::run
LoopRun ==
  /\ loop = "wait"
  /\ resetn
  /\ running' = [t \in Thread |-> IF has_finalize[t] THEN running[t] ELSE running[t] + 1]
  /\ has_finalize' = [t \in Thread |-> TRUE]
  /\ loop' = "run"
  /\ UNCHANGED <<lineVars, monVars, phaseVars, flagVars, resets>>

\* Mutant: disable fork is missing
LoopKillKeeps ==
  /\ loop = "kill"
  /\ loop' = "reset"
  /\ UNCHANGED <<lineVars, monVars, phaseVars, flagVars, has_finalize, running, resets>>

LoopKill ==
  /\ loop = "kill"
  /\ running' = [t \in Thread |-> 0]
  /\ loop' = "reset"
  /\ UNCHANGED <<lineVars, monVars, phaseVars, flagVars, has_finalize, resets>>

Line == PowerOnAssert \/ PowerOnRelease \/ UserRelease
Phases == StartPhase \/ ResetPhase \/ EndPhase \/ NextPhase \/ JumpEnds \/ JumpStarts
Monitor == MonitorStart \/ MonitorEdge
Loop == LoopReset \/ LoopRun \/ LoopKill
Requests == DoHwReset \/ DoSwReset

Next == Line \/ Phases \/ Monitor \/ Loop \/ Requests

(***************************************************************************)
(* The delays of the interface elapse, the phase engine makes progress and *)
(* a runnable process runs.  Users need not request anything.              *)
(***************************************************************************)
Fairness == WF_vars(Line) /\ WF_vars(Phases) /\ WF_vars(Monitor) /\ WF_vars(Loop)

Spec == Init /\ [][Next]_vars /\ Fairness

-----------------------------------------------------------------------------
\* Every variable has its type
TypeOK ==
  /\ rst \in BOOLEAN /\ rst_sm \in 0..1 /\ missed \in BOOLEAN
  /\ por \in {"before", "asserted", "done"}
  /\ mon \in {"start", "armed", "edge", "wait_pwrst", "done"}
  /\ objection \in {"none", "raised", "dropped"}
  /\ phase \in 0..Last /\ state \in State
  /\ jump \in [0..Last -> BOOLEAN]
  /\ took_time \in BOOLEAN /\ pwrst_done \in BOOLEAN /\ resetn \in BOOLEAN
  /\ rst_typ \in RstType
  /\ loop \in {"reset", "wait", "run", "kill"}
  /\ has_finalize \in [Thread -> BOOLEAN]
  /\ running \in [Thread -> Nat]
  /\ resets \in 0..MaxResets

\* No traffic before the power-on reset: the threads of a component run only
\* after a reset phase that took time has ended, whatever is requested before.
NoTrafficBeforePowerOn ==
  (resetn \/ \E t \in Thread : running[t] > 0) => pwrst_done /\ por # "before"

\* A jump is on its way to the reset phase
JumpPending ==
  \/ state = "active" /\ jump[phase]
  \/ state = "jumping"
  \/ phase = Reset /\ state = "scheduled"

\* A component released from reset (resetn) sees the reset line asserted only for
\* the steps of the jump that the request makes, or if the request fell into one of
\* the moments in which a jump is lost and reset_phase has already looked.
HeldInReset == resetn /\ rst => missed \/ JumpPending

\* A reset phase takes time, and only such a one counts as the power-on reset, when
\* the line was asserted before
PowerOnOrder ==
  /\ rst \/ rst_sm > 0 \/ took_time \/ objection = "raised" => por # "before"
  /\ pwrst_done \/ rst_typ # "NOT_VALID" => por # "before"
  /\ ~pwrst_done => rst_typ \in {"NOT_VALID", "PWR_RST"}

\* The handler never runs a thread twice: disable fork has ended the processes
\* of the last run before a reset task clears has_finalize.
OneProcessPerThread == \A t \in Thread : running[t] <= 1

\* After the falling edge of resetn is served no process of the component is left
QuietInReset == loop \in {"reset", "wait"} => \A t \in Thread : running[t] = 0

\* "start to spawn all threads": every registered thread runs after each reset
AllThreadsRun == loop = "run" => \A t \in Thread : running[t] = 1

\* A reset task that resets every handler leaves no thread marked as finalized
Unmarked ==
  Cleared = Thread /\ loop = "wait" => \A t \in Thread : ~has_finalize[t]

\* The key is out while the line is asserted and until the power-on reset is over
KeyHeld == rst \/ por # "done" => rst_sm = 0

\* The last phase ends only in a jump
LastStays == state = "ended" => phase # Last

\* The phases from pre_reset to post_reset, but for a reset phase not yet started
InReset ==
  \/ phase = PreReset
  \/ phase = Reset /\ state # "scheduled"
  \/ phase = PostReset /\ state \in {"scheduled", "active"}

\* reset_phase has looked at the line and the component is not yet released
Looked ==
  \/ phase = Reset /\ (state = "ended" \/ (state = "active" /\ objection = "dropped"))
  \/ phase = PostReset /\ state \in {"scheduled", "active"}

\* From pre_reset to the end of post_reset the component is in reset.  The line that
\* reset_phase found released is asserted again only by a request, which makes its
\* jump or is missed.
HeldLow ==
  /\ InReset => ~resetn
  /\ Looked /\ rst => missed \/ (state = "active" /\ jump[phase])
  /\ ~jump[Reset]
  /\ state = "jumping" => phase # Reset

\* The inductive invariant behind the safety properties
IInv ==
  /\ TypeOK /\ KeyHeld /\ LastStays /\ PowerOnOrder /\ NoTrafficBeforePowerOn
  /\ HeldLow /\ HeldInReset
  /\ QuietInReset /\ OneProcessPerThread /\ Unmarked
  /\ Cleared = Thread => AllThreadsRun

\* A reset ends: the component always gets out of reset again and its loop runs
LeavesReset == []<>(resetn /\ loop = "run")
=============================================================================
