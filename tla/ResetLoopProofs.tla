-------------------------- MODULE ResetLoopProofs --------------------------
(***************************************************************************)
(* Proofs about ResetLoop, for every set of threads and any number of      *)
(* requested resets.                                                       *)
(***************************************************************************)
EXTENDS ResetLoop, TLAPS

\* A jump requested of the domain touches only the flag of the phase under way, and
\* never that of the reset phase
LEMMA DomainJumpLemma ==
  ASSUME TypeOK, DomainJump
  PROVE  /\ jump' \in [0..Last -> BOOLEAN]
         /\ \A p \in 0..Last : jump[p] => jump'[p]
         /\ jump'[phase] <=> jump[phase] \/ (phase # Reset /\ state \in {"active", "ended"})
         /\ jump'[Reset] <=> jump[Reset]
<1>1. Reset \in 0..Last /\ phase \in 0..Last
  BY LastAssumption DEF Reset, TypeOK
<1>. QED BY <1>1 DEF DomainJump, TypeOK

\* Every step keeps the types
LEMMA TypeStep == TypeOK /\ KeyHeld /\ LastStays /\ [Next]_vars => TypeOK'
<1>. SUFFICES ASSUME TypeOK, KeyHeld, LastStays, [Next]_vars PROVE TypeOK'
  OBVIOUS
<1>. USE DEF TypeOK, State, lineVars, monVars, phaseVars, flagVars, loopVars
<1>1. CASE UNCHANGED vars
  BY <1>1 DEF vars
<1>2. CASE Line
  <2>1. CASE PowerOnAssert
    BY <2>1 DEF PowerOnAssert
  <2>2. CASE PowerOnRelease \/ UserRelease
    <3>1. Deassert /\ rst_sm = 0 /\ por' \in {"before", "asserted", "done"}
      BY <2>2, Zenon DEF PowerOnRelease, UserRelease, KeyHeld
    <3>2. rst_sm' \in 0..1 /\ objection' \in {"none", "raised", "dropped"}
      BY <3>1 DEF Deassert
    <3>3. rst' \in BOOLEAN /\ missed' \in BOOLEAN /\ took_time' \in BOOLEAN
      BY <3>1, Zenon DEF Deassert
    <3>. QED BY <3>1, <3>2, <3>3 DEF Deassert
  <2>. QED BY <1>2, <2>1, <2>2 DEF Line
<1>3. CASE Requests
  <2>1. Request
    BY <1>3 DEF Requests, DoHwReset, DoSwReset
  <2>2. resets' \in 0..MaxResets
    BY <2>1, MaxResetsAssumption DEF Request
  <2>3. jump' \in [0..Last -> BOOLEAN]
    BY <2>1, DomainJumpLemma DEF Request
  <2>4. rst' \in BOOLEAN /\ rst_sm' \in 0..1 /\ missed' \in BOOLEAN
    <3>1. rst_sm' \in 0..1
      BY <1>3 DEF Requests, DoHwReset, DoSwReset
    <3>2. rst' \in BOOLEAN /\ missed' \in BOOLEAN
      BY <1>3, Zenon DEF Requests, DoHwReset, DoSwReset
    <3>. QED BY <3>1, <3>2
  <2>. QED BY <2>1, <2>2, <2>3, <2>4 DEF Request
<1>4. CASE Monitor
  <2>1. CASE MonitorStart
    BY <2>1 DEF MonitorStart
  <2>2. CASE MonitorEdge
    <3>1. jump' \in [0..Last -> BOOLEAN]
      BY <2>2, DomainJumpLemma DEF MonitorEdge
    <3>. QED BY <2>2, <3>1 DEF MonitorEdge
  <2>. QED BY <1>4, <2>1, <2>2 DEF Monitor
<1>5. CASE StartPhase
  <2>1. objection' \in {"none", "raised", "dropped"} /\ loop' \in {"reset", "wait", "run", "kill"}
    BY <1>5 DEF StartPhase, StartReset
  <2>2. took_time' \in BOOLEAN /\ resetn' \in BOOLEAN
    BY <1>5, Zenon DEF StartPhase, StartReset
  <2>. QED BY <1>5, <2>1, <2>2 DEF StartPhase
<1>6. CASE ResetPhase
  BY <1>6 DEF ResetPhase
<1>7. CASE EndPhase \/ JumpEnds
  <2>1. rst_typ' \in RstType /\ resetn' \in BOOLEAN /\ pwrst_done' \in BOOLEAN
    BY <1>7 DEF EndPhase, JumpEnds, EndedReset, EndedPostReset, EndedOther, RstType
  <2>2. mon' \in {"start", "armed", "edge", "wait_pwrst", "done"}
    BY <1>7 DEF EndPhase, JumpEnds, PowerOnSeen
  <2>. QED BY <1>7, <2>1, <2>2 DEF EndPhase, JumpEnds
<1>8. CASE NextPhase
  <2>1. phase' \in 0..Last
    BY <1>8, LastAssumption DEF NextPhase, LastStays
  <2>. QED BY <1>8, <2>1 DEF NextPhase
<1>9. CASE JumpStarts
  <2>1. jump' \in [0..Last -> BOOLEAN] /\ phase' \in 0..Last
    BY <1>9, LastAssumption DEF JumpStarts, Reset
  <2>. QED BY <1>9, <2>1 DEF JumpStarts
<1>10. CASE Loop
  <2>1. /\ has_finalize' \in [Thread -> BOOLEAN] /\ running' \in [Thread -> Nat]
        /\ loop' \in {"reset", "wait", "run", "kill"}
    <3>1. CASE LoopReset
      BY <3>1 DEF LoopReset
    <3>2. CASE LoopRun
      <4>1. \A t \in Thread : (IF has_finalize[t] THEN running[t] ELSE running[t] + 1) \in Nat
        OBVIOUS
      <4>. QED BY <3>2, <4>1 DEF LoopRun
    <3>3. CASE LoopKill
      BY <3>3 DEF LoopKill
    <3>. QED BY <1>10, <3>1, <3>2, <3>3 DEF Loop
  <2>. QED BY <1>10, <2>1 DEF Loop, LoopReset, LoopRun, LoopKill
<1>. QED
  BY <1>1, <1>2, <1>3, <1>4, <1>5, <1>6, <1>7, <1>8, <1>9, <1>10 DEF Next, Phases

\* Every step keeps the key of the interface and the last phase where they are
LEMMA KeyStep == TypeOK /\ KeyHeld /\ LastStays /\ [Next]_vars => KeyHeld' /\ LastStays'
<1>. SUFFICES ASSUME TypeOK, KeyHeld, LastStays, [Next]_vars PROVE KeyHeld' /\ LastStays'
  OBVIOUS
<1>. USE DEF KeyHeld, LastStays, lineVars, monVars, phaseVars, flagVars, loopVars
<1>1. CASE UNCHANGED vars
  BY <1>1 DEF vars
<1>2. CASE Line
  BY <1>2 DEF Line, PowerOnAssert, PowerOnRelease, UserRelease, Deassert, TypeOK
<1>3. CASE Requests
  BY <1>3 DEF Requests, DoHwReset, DoSwReset, Request, TypeOK
<1>4. CASE Monitor
  BY <1>4 DEF Monitor, MonitorStart, MonitorEdge
<1>5. CASE Phases
  BY <1>5 DEF Phases, StartPhase, ResetPhase, EndPhase, NextPhase, JumpEnds, JumpStarts
<1>6. CASE Loop
  BY <1>6 DEF Loop, LoopReset, LoopRun, LoopKill
<1>. QED BY <1>1, <1>2, <1>3, <1>4, <1>5, <1>6 DEF Next

\* Every step keeps the order of the power-on reset: the line is asserted, a reset
\* phase takes time, resetn rises, the threads run
LEMMA PowerOnStep ==
  TypeOK /\ KeyHeld /\ PowerOnOrder /\ NoTrafficBeforePowerOn /\ [Next]_vars
    => PowerOnOrder' /\ NoTrafficBeforePowerOn'
<1>. SUFFICES ASSUME TypeOK, KeyHeld, PowerOnOrder, NoTrafficBeforePowerOn, [Next]_vars
              PROVE  PowerOnOrder' /\ NoTrafficBeforePowerOn'
  OBVIOUS
<1>. USE DEF PowerOnOrder, NoTrafficBeforePowerOn, lineVars, monVars, phaseVars, flagVars,
             loopVars
<1>1. CASE UNCHANGED vars
  BY <1>1 DEF vars
<1>2. CASE Line
  BY <1>2 DEF Line, PowerOnAssert, PowerOnRelease, UserRelease, Deassert
<1>3. CASE Requests
  BY <1>3 DEF Requests, DoHwReset, DoSwReset, Request, TypeOK
<1>4. CASE Monitor
  BY <1>4 DEF Monitor, MonitorStart, MonitorEdge
<1>5. CASE StartPhase
  <2>1. /\ UNCHANGED <<rst, rst_sm, por, pwrst_done, rst_typ, running>>
        /\ objection' = "raised" => objection = "raised"
    BY <1>5 DEF StartPhase, StartReset
  <2>2. (took_time' => took_time) /\ (resetn' => resetn)
    <3>1. CASE StartReset
      BY <3>1, Zenon DEF StartReset
    <3>2. CASE UNCHANGED <<objection, took_time, resetn, loop>>
      BY <3>2
    <3>. QED BY <1>5, <3>1, <3>2, Zenon DEF StartPhase
  <2>. QED BY <2>1, <2>2
<1>6. CASE ResetPhase
  BY <1>6 DEF ResetPhase
<1>7. CASE EndPhase
  <2>1. CASE EndedReset
    BY <1>7, <2>1 DEF EndPhase, EndedReset
  <2>2. CASE EndedPostReset
    BY <1>7, <2>2 DEF EndPhase, EndedPostReset
  <2>3. CASE EndedOther
    BY <1>7, <2>3 DEF EndPhase, EndedOther
  <2>. QED BY <1>7, <2>1, <2>2, <2>3 DEF EndPhase
<1>8. CASE JumpEnds
  <2>1. CASE EndedPostReset
    BY <1>8, <2>1 DEF JumpEnds, EndedPostReset
  <2>2. CASE EndedOther
    BY <1>8, <2>2 DEF JumpEnds, EndedOther
  <2>. QED BY <1>8, <2>1, <2>2 DEF JumpEnds
<1>9. CASE NextPhase \/ JumpStarts
  BY <1>9 DEF NextPhase, JumpStarts
<1>10. CASE Loop
  BY <1>10 DEF Loop, LoopReset, LoopRun, LoopKill, TypeOK
<1>. QED
  BY <1>1, <1>2, <1>3, <1>4, <1>5, <1>6, <1>7, <1>8, <1>9, <1>10 DEF Next, Phases

\* Every step keeps a component in reset while the line is asserted, up to a jump or to
\* a request that is missed
LEMMA HeldStep ==
  /\ TypeOK /\ PowerOnOrder /\ NoTrafficBeforePowerOn /\ HeldLow /\ HeldInReset
  /\ [Next]_vars
  => HeldLow' /\ HeldInReset'
<1>. SUFFICES ASSUME TypeOK, PowerOnOrder, NoTrafficBeforePowerOn, HeldLow, HeldInReset,
                     [Next]_vars
              PROVE  HeldLow' /\ HeldInReset'
  OBVIOUS
<1>. USE LastAssumption
     DEF HeldLow, HeldInReset, JumpPending, InReset, Looked, PreReset, Reset, PostReset,
         lineVars, monVars, phaseVars, flagVars
<1>1. CASE UNCHANGED vars
  BY <1>1 DEF vars
<1>2. CASE PowerOnAssert
  <2>1. ~resetn
    BY <1>2 DEF PowerOnAssert, NoTrafficBeforePowerOn
  <2>2. ~Looked
    BY <1>2 DEF PowerOnAssert, Settled
  <2>. QED BY <1>2, <2>1, <2>2 DEF PowerOnAssert
<1>3. CASE PowerOnRelease \/ UserRelease
  BY <1>3 DEF PowerOnRelease, UserRelease, Deassert
<1>4. CASE Requests
  <2>1. Request /\ UNCHANGED <<phase, state, objection, resetn>>
    BY <1>4 DEF Requests, DoHwReset, DoSwReset, Request
  <2>2. /\ \A p \in 0..Last : jump[p] => jump'[p]
        /\ jump'[phase] <=> jump[phase] \/ (phase # Reset /\ state \in {"active", "ended"})
        /\ jump'[Reset] <=> jump[Reset]
    BY <2>1, DomainJumpLemma, Zenon DEF Request
  <2>3. CASE DoHwReset
    <3>1. rst' /\ (missed' <=> ~Heard)
      BY <2>3, Zenon DEF DoHwReset
    <3>2. Looked' => missed' \/ (state' = "active" /\ jump'[phase])
      BY <2>1, <2>2, <3>1 DEF Heard
    <3>3. resetn' => missed' \/ JumpPending'
      BY <2>1, <2>2, <3>1 DEF Heard
    <3>. QED BY <2>1, <2>2, <3>2, <3>3
  <2>4. CASE DoSwReset
    BY <2>1, <2>2, <2>4 DEF DoSwReset
  <2>. QED BY <1>4, <2>3, <2>4 DEF Requests
<1>5. CASE MonitorEdge
  <2>1. /\ jump'[phase] <=> jump[phase] \/ (phase # Reset /\ state \in {"active", "ended"})
        /\ jump'[Reset] <=> jump[Reset]
    BY <1>5, DomainJumpLemma, Zenon DEF MonitorEdge
  <2>. QED BY <1>5, <2>1 DEF MonitorEdge
<1>6. CASE MonitorStart
  BY <1>6 DEF MonitorStart
<1>7. CASE StartPhase
  <2>1. CASE phase = Reset
    <3>1. ~resetn' /\ objection' = "none"
      BY <1>7, <2>1 DEF StartPhase, StartReset, NoTrafficBeforePowerOn
    <3>. QED BY <1>7, <2>1, <3>1 DEF StartPhase
  <2>2. CASE phase # Reset
    BY <1>7, <2>2 DEF StartPhase
  <2>. QED BY <2>1, <2>2
<1>8. CASE ResetPhase
  BY <1>8 DEF ResetPhase
<1>9. CASE EndPhase
  <2>1. CASE phase = Reset
    BY <1>9, <2>1 DEF EndPhase, EndedReset
  <2>2. CASE phase = PostReset
    BY <1>9, <2>2 DEF EndPhase, EndedPostReset
  <2>3. CASE phase \notin {Reset, PostReset}
    BY <1>9, <2>3 DEF EndPhase, EndedOther
  <2>. QED BY <2>1, <2>2, <2>3
<1>10. CASE NextPhase
  <2>1. phase \in 0..Last /\ phase' = phase + 1 /\ state' = "scheduled" /\ state = "ended"
    BY <1>10 DEF NextPhase, TypeOK
  <2>2. UNCHANGED <<rst, missed, resetn, objection, jump>>
    BY <1>10 DEF NextPhase
  <2>3. InReset' => InReset
    BY <2>1
  <2>4. Looked' => Looked
    BY <2>1, <2>2
  <2>. QED BY <2>1, <2>2, <2>3, <2>4
<1>11. CASE JumpEnds
  <2>1. state' = "jumping" /\ phase' = phase /\ jump' = jump /\ phase # Reset
    BY <1>11 DEF JumpEnds
  <2>2. phase = PreReset => ~resetn'
    BY <1>11 DEF JumpEnds, EndedOther
  <2>. QED BY <2>1, <2>2
<1>12. CASE JumpStarts
  <2>1. phase' = Reset /\ state' = "scheduled" /\ ~jump'[Reset]
    BY <1>12 DEF JumpStarts, TypeOK
  <2>. QED BY <2>1
<1>13. CASE Loop
  BY <1>13 DEF Loop, LoopReset, LoopRun, LoopKill
<1>. QED
  BY <1>1, <1>2, <1>3, <1>4, <1>5, <1>6, <1>7, <1>8, <1>9, <1>10, <1>11, <1>12, <1>13
  DEF Next, Line, Phases, Monitor

\* Every step keeps the threads and the loop in step: none runs in reset, and the
\* loop starts each at most once, all of them if all its handlers are reset
LEMMA ThreadStep ==
  /\ TypeOK /\ QuietInReset /\ OneProcessPerThread /\ Unmarked
  /\ Cleared = Thread => AllThreadsRun
  /\ [Next]_vars
  => /\ QuietInReset' /\ OneProcessPerThread' /\ Unmarked'
     /\ Cleared = Thread => AllThreadsRun'
<1>. SUFFICES ASSUME TypeOK, QuietInReset, OneProcessPerThread, Unmarked,
                     Cleared = Thread => AllThreadsRun, [Next]_vars
              PROVE  /\ QuietInReset' /\ OneProcessPerThread' /\ Unmarked'
                     /\ Cleared = Thread => AllThreadsRun'
  OBVIOUS
<1>. USE DEF TypeOK, QuietInReset, OneProcessPerThread, Unmarked, AllThreadsRun, loopVars
<1>1. CASE UNCHANGED loopVars
  BY <1>1
<1>2. CASE StartPhase
  <2>1. /\ UNCHANGED <<has_finalize, running>>
        /\ loop' = loop \/ (loop = "run" /\ loop' = "kill")
    BY <1>2 DEF StartPhase, StartReset
  <2>. QED BY <2>1
<1>3. CASE LoopReset
  BY <1>3 DEF LoopReset
<1>4. CASE LoopRun
  BY <1>4 DEF LoopRun
<1>5. CASE LoopKill
  BY <1>5 DEF LoopKill
<1>. QED
  BY <1>1, <1>2, <1>3, <1>4, <1>5
  DEF Next, Line, Phases, Monitor, Loop, Requests, vars, PowerOnAssert, PowerOnRelease,
      UserRelease, Deassert, DoHwReset, DoSwReset, Request, MonitorStart, MonitorEdge,
      ResetPhase, EndPhase, NextPhase, JumpEnds, JumpStarts

\* IInv is an invariant
THEOREM ResetInvariant == Spec => []IInv
<1>1. Init => IInv
  <2>. SUFFICES ASSUME Init PROVE IInv
    OBVIOUS
  <2>1. TypeOK
    <3>1. has_finalize \in [Thread -> BOOLEAN] /\ running \in [Thread -> Nat]
      BY DEF Init
    <3>2. resets \in 0..MaxResets
      BY MaxResetsAssumption DEF Init
    <3>3. phase \in 0..Last /\ jump \in [0..Last -> BOOLEAN]
      BY LastAssumption DEF Init, PreReset
    <3>4. /\ rst \in BOOLEAN /\ missed \in BOOLEAN /\ took_time \in BOOLEAN
          /\ pwrst_done \in BOOLEAN /\ resetn \in BOOLEAN
      BY Zenon DEF Init
    <3>5. rst_sm \in 0..1
      BY DEF Init
    <3>. QED BY <3>1, <3>2, <3>3, <3>4, <3>5 DEF Init, TypeOK, RstType, State
  <2>2. KeyHeld /\ LastStays /\ PowerOnOrder /\ NoTrafficBeforePowerOn
    BY DEF Init, KeyHeld, LastStays, PowerOnOrder, NoTrafficBeforePowerOn
  <2>3. QuietInReset /\ OneProcessPerThread /\ Unmarked /\ AllThreadsRun
    BY DEF Init, QuietInReset, OneProcessPerThread, Unmarked, AllThreadsRun
  <2>4. HeldLow /\ HeldInReset
    BY LastAssumption
    DEF Init, HeldLow, HeldInReset, JumpPending, InReset, Looked, PreReset, Reset, PostReset
  <2>. QED BY <2>1, <2>2, <2>3, <2>4 DEF IInv
<1>2. IInv /\ [Next]_vars => IInv'
  BY TypeStep, KeyStep, PowerOnStep, HeldStep, ThreadStep DEF IInv
<1>. QED BY <1>1, <1>2, PTL DEF Spec

\* The variables of the reset protocol have their types
THEOREM ResetTypeCorrect == Spec => []TypeOK
<1>1. IInv => TypeOK
  BY DEF IInv
<1>. QED BY <1>1, ResetInvariant, PTL

\* No thread of a component runs before the power-on reset, whatever resets are
\* requested and whenever the line is asserted
THEOREM ResetNoTraffic == Spec => []NoTrafficBeforePowerOn
<1>1. IInv => NoTrafficBeforePowerOn
  BY DEF IInv
<1>. QED BY <1>1, ResetInvariant, PTL

\* A released component sees the line asserted only until the jump of the request, or
\* if the request is one of those whose jump the domain drops
THEOREM ResetHeldInReset == Spec => []HeldInReset
<1>1. IInv => HeldInReset
  BY DEF IInv
<1>. QED BY <1>1, ResetInvariant, PTL

\* No sequence of resets makes two processes execute the same thread
THEOREM ResetOneProcess == Spec => []OneProcessPerThread
<1>1. IInv => OneProcessPerThread
  BY DEF IInv
<1>. QED BY <1>1, ResetInvariant, PTL

\* A component whose reset task resets all its handlers runs all its threads after
\* every reset; smtdv_scoreboard is one
THEOREM ResetAllThreadsRun == Cleared = Thread => (Spec => []AllThreadsRun)
<1>. SUFFICES ASSUME Cleared = Thread PROVE Spec => []AllThreadsRun
  OBVIOUS
<1>1. IInv => AllThreadsRun
  BY DEF IInv
<1>. QED BY <1>1, ResetInvariant, PTL
=============================================================================
