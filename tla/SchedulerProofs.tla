-------------------------- MODULE SchedulerProofs --------------------------
(***************************************************************************)
(* Theorems about the cron scheduler for every set of entries, schedules   *)
(* and timeouts.                                                           *)
(***************************************************************************)
EXTENDS Scheduler, WellFoundedInduction, TLAPS

(* A set of times that is not empty has an earliest one. *)
LEMMA EarliestTime ==
  ASSUME NEW T, T \subseteq Nat, T # {}
  PROVE  \E t \in T : \A u \in T : t <= u
  <1> DEFINE R == OpToRel(<, Nat)
  <1>1. IsWellFoundedOn(R, Nat)
    BY NatLessThanWellFounded
  <1> HIDE DEF R
  <1>2. PICK t \in T : \A u \in T : ~(<<u, t>> \in R)
    BY <1>1, WFMin
  <1>3. ASSUME NEW u \in T PROVE t <= u
    <2>1. t \in Nat /\ u \in Nat
      OBVIOUS
    <2>2. ~(<<u, t>> \in R)
      BY <1>2
    <2>3. ~(u < t)
      BY <2>1, <2>2 DEF R, OpToRel
    <2>4. QED BY <2>1, <2>3
  <1>4. QED BY <1>3

(* The next tick is a time, or there is none. *)
LEMMA NextTickType ==
  ASSUME NEW e \in Entries, NEW from \in Nat
  PROVE  next_tick(e, from) \in Nat \cup {Never}
  <1> DEFINE later == {t \in Calendar[e] : t > from}
  <1>1. later \subseteq Nat /\ Period[e] \in Nat
    BY SchedulerAssumption
  <1>2. ASSUME later # {}
        PROVE  (CHOOSE t \in later : \A u \in later : t <= u) \in Nat
    BY <1>1, <1>2, EarliestTime
  <1>3. QED
    BY <1>1, <1>2 DEF next_tick

(* The inductive invariant. *)
Inv == TypeOK /\ Armed /\ FlagInv /\ DoneInv

LEMMA InvInit == Init => Inv
  <1>1. SUFFICES ASSUME Init PROVE Inv
    OBVIOUS
  <1>2. \A e \in Entries : next_tick(e, 0) \in Nat \cup {Never}
    BY NextTickType
  <1>3. TypeOK
    BY <1>1, <1>2 DEF Init, TypeOK
  <1>4. Armed /\ FlagInv /\ DoneInv
    BY <1>1 DEF Init, Armed, FlagInv, NoOverlap, DoneInv
  <1>5. QED BY <1>3, <1>4 DEF Inv

LEMMA TypeStep == TypeOK /\ Armed /\ [Next]_vars => TypeOK'
  <1>1. SUFFICES ASSUME TypeOK, Armed, [Next]_vars PROVE TypeOK'
    OBVIOUS
  <1>2. \A e \in Entries : next_tick(e, now) \in Nat \cup {Never}
    BY <1>1, NextTickType DEF TypeOK
  <1>3. ASSUME NEW e \in Entries, SkipTick(e) PROVE TypeOK'
    BY <1>1, <1>2, <1>3 DEF TypeOK, SkipTick, Rearm
  <1>4. ASSUME NEW e \in Entries, RunTick(e) PROVE TypeOK'
    <2>1. loop[e].next \in Nat
      BY <1>1, <1>4 DEF RunTick, Awake, TypeOK, Armed
    <2>2. [tick |-> loop[e].next, deadline |-> now + Timeout[e]] \in Handler
      BY <1>1, <2>1, SchedulerAssumption DEF TypeOK, Handler
    <2>3. QED
      BY <1>1, <1>2, <1>4, <2>2 DEF TypeOK, RunTick, Rearm
  <1>5. ASSUME NEW e \in Entries, Break(e) \/ Drained(e) PROVE TypeOK'
    BY <1>1, <1>5 DEF TypeOK, Break, Drained
  <1>6. ASSUME NEW e \in Entries, NEW h \in handlers[e],
               HandlerEnds(e, h) \/ HandlerPanics(e, h)
        PROVE  TypeOK'
    BY <1>1, <1>6 DEF TypeOK, HandlerEnds, HandlerPanics
  <1>7. CASE Shutdown \/ ShutdownReturns \/ Tick
    BY <1>1, <1>7 DEF TypeOK, Shutdown, ShutdownReturns, Tick
  <1>8. CASE UNCHANGED vars
    BY <1>1, <1>8 DEF TypeOK, vars
  <1>9. QED
    BY <1>1, <1>3, <1>4, <1>5, <1>6, <1>7, <1>8 DEF Next, Loop

LEMMA InvStep == Inv /\ [Next]_vars => Inv'
  <1>1. SUFFICES ASSUME Inv, [Next]_vars PROVE Inv'
    OBVIOUS
  <1>2. TypeOK'
    BY <1>1, TypeStep DEF Inv
  <1>3. TypeOK /\ Armed /\ FlagInv /\ DoneInv
    BY <1>1 DEF Inv
  <1>4. ASSUME NEW e \in Entries, SkipTick(e)
        PROVE  Armed' /\ FlagInv' /\ DoneInv'
    BY <1>3, <1>4 DEF SkipTick, Rearm, Awake, TypeOK, Armed, FlagInv, NoOverlap, DoneInv
  <1>5. ASSUME NEW e \in Entries, RunTick(e)
        PROVE  Armed' /\ FlagInv' /\ DoneInv'
    <2>1. handlers[e] = {}
      BY <1>3, <1>5 DEF RunTick, FlagInv
    <2>2. FlagInv'
      BY <1>3, <1>5, <2>1 DEF RunTick, TypeOK, FlagInv, NoOverlap
    <2>3. Armed' /\ DoneInv'
      BY <1>3, <1>5 DEF RunTick, Rearm, TypeOK, Armed, DoneInv
    <2>4. QED BY <2>2, <2>3
  <1>6. ASSUME NEW e \in Entries, Break(e) \/ Drained(e)
        PROVE  Armed' /\ FlagInv' /\ DoneInv'
    BY <1>3, <1>6, SMTT(30) DEF Break, Drained, TypeOK, Armed, FlagInv, NoOverlap, DoneInv
  <1>7. ASSUME NEW e \in Entries, NEW h \in handlers[e], HandlerEnds(e, h)
        PROVE  Armed' /\ FlagInv' /\ DoneInv'
    <2>1. handlers'[e] = {}
      BY <1>3, <1>7 DEF HandlerEnds, TypeOK, FlagInv, NoOverlap
    <2>2. FlagInv'
      BY <1>3, <1>7, <2>1 DEF HandlerEnds, TypeOK, FlagInv, NoOverlap
    <2>3. Armed' /\ DoneInv'
      BY <1>3, <1>7 DEF HandlerEnds, TypeOK, Armed, DoneInv
    <2>4. QED BY <2>2, <2>3
  <1>8. ASSUME NEW e \in Entries, NEW h \in handlers[e], HandlerPanics(e, h)
        PROVE  Armed' /\ FlagInv' /\ DoneInv'
    BY <1>3, <1>8 DEF HandlerPanics, TypeOK, Armed, FlagInv, NoOverlap, DoneInv
  <1>9. CASE Shutdown \/ ShutdownReturns \/ Tick \/ UNCHANGED vars
    BY <1>2, <1>3, <1>9
    DEF Inv, Shutdown, ShutdownReturns, Tick, vars, Armed, FlagInv, NoOverlap, DoneInv
  <1>10. QED
    BY <1>1, <1>2, <1>4, <1>5, <1>6, <1>7, <1>8, <1>9 DEF Inv, Next, Loop

(* The state of the scheduler is always of its type. *)
THEOREM TypeCorrect == Spec => []TypeOK
  <1>1. Inv => TypeOK
    BY DEF Inv
  <1>2. QED BY <1>1, InvInit, InvStep, PTL DEF Spec

(* Whatever its schedule and its timeout, an entry never runs twice at a   *)
(* time.                                                                   *)
THEOREM NeverOverlapping == Spec => []NoOverlap
  <1>1. Inv => NoOverlap
    BY DEF Inv, FlagInv
  <1>2. QED BY <1>1, InvInit, InvStep, PTL DEF Spec

(* A shutdown that returns before its grace period left no handler         *)
(* running, for any number of entries.                                     *)
THEOREM ShutdownLeavesNothing == Spec => ShutdownDrains
  <1>1. ASSUME Inv, [Next]_vars, mode = "stopping", mode' = "stopped",
               now < since + Grace, NEW e \in Entries
        PROVE  handlers[e] = {}
    <2>1. ShutdownReturns
      BY <1>1 DEF Next, vars, Loop, SkipTick, RunTick, Break, Drained, HandlerEnds,
                  HandlerPanics, Shutdown, Tick
    <2>2. ~(now >= since + Grace)
      BY <1>1, SchedulerAssumption DEF Inv, TypeOK
    <2>3. loop[e].pc = "done"
      BY <2>1, <2>2 DEF ShutdownReturns
    <2>4. QED
      BY <1>1, <2>3 DEF Inv, DoneInv
  <1>2. Inv /\ [Next]_vars =>
          [mode = "stopping" /\ mode' = "stopped" /\ now < since + Grace
             => \A e \in Entries : handlers[e] = {}]_vars
    BY <1>1
  <1>3. QED
    BY <1>2, InvInit, InvStep, PTL DEF Spec, ShutdownDrains
=============================================================================
