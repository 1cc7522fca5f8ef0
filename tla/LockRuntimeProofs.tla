-------------------------- MODULE LockRuntimeProofs --------------------------
(***************************************************************************)
(* The nested locks follow one order, so there is no circular wait; and     *)
(* with more than three workers the execution actor always has a thread.    *)
(*                                                                         *)
(* Both follow from LockInv: a task holds only mutexes its program has      *)
(* taken before the position it is at.                                      *)
(***************************************************************************)
EXTENDS LockRuntime, FiniteSetTheorems, TLAPS

\* The order in which nested locks are taken.
Rank(m) ==
  CASE m = "funding" -> 1
    [] m = "filters" -> 2
    [] m = "account" -> 3
    [] m = "config" -> 4

\* The mutexes program p has taken before position i.
Taken(p, i) == {m \in Mutex : \E j \in 1..(i - 1) : p[j] = Take(m)}

LockOp == {"take", "touch"}

\* A program is a sequence of well-formed operations, and only the last ends it.
WellFormed(p) ==
  /\ Len(p) \in Nat \ {0}
  /\ \A i \in 1..Len(p) :
       /\ p[i][1] = "done" <=> i = Len(p)
       /\ p[i][1] \in LockOp => p[i][2] \in Mutex
       /\ p[i][1] = "take" => p[i] = Take(p[i][2])

\* A program locks in rank order.
Ordered(p) ==
  \A i \in 1..Len(p) :
    p[i][1] \in LockOp => \A m \in Taken(p, i) : Rank(m) < Rank(p[i][2])

\* A task holds only what its program has taken before.
LockInv == \A m \in Mutex : holder[m] \in Task => m \in Taken(program[holder[m]], at[holder[m]])

-----------------------------------------------------------------------------
(* The programs. *)

\* What the operations of a program are.
LEMMA Ops ==
  /\ \A m : Take(m)[1] = "take" /\ Take(m)[2] = m /\ Touch(m)[1] = "touch" /\ Touch(m)[2] = m
  /\ MayLeave[1] = "leave" /\ Await[1] = "await" /\ Order[1] = "order"
  /\ Send[1] = "send" /\ Receive[1] = "receive" /\ Done[1] = "done"
BY DEF Take, Touch, MayLeave, Await, Order, Send, Receive, Done

\* Every program locks in rank order.
LEMMA AllOrdered == \A p \in Program : Ordered(p)
<1>1. Ordered(DetectSharps)
  BY Ops DEF DetectSharps, Ordered, Taken, LockOp, Mutex, Rank
<1>2. Ordered(HandleCommand) /\ Ordered(Authenticate) /\ Ordered(HandleListenerAlert)
  BY Ops DEF HandleCommand, Authenticate, HandleListenerAlert, Ordered, Taken, LockOp, Mutex, Rank
<1>3. Ordered(Interval)
  BY Ops DEF Interval, Ordered, Taken, LockOp, Mutex, Rank
<1>4. Ordered(Run) /\ Ordered(RunPrivate)
  BY Ops DEF Run, RunPrivate, Ordered, Taken, LockOp, Mutex, Rank
<1>5. Ordered(Status) /\ Ordered(Callback)
  BY Ops DEF Status, Callback, Ordered, Taken, LockOp, Mutex, Rank
<1>6. Ordered(Execute)
  BY Ops DEF Execute, Ordered, Taken, LockOp, Mutex, Rank
<1>7. QED
  BY <1>1, <1>2, <1>3, <1>4, <1>5, <1>6 DEF Program

\* Every program is well formed.
LEMMA AllWellFormed == \A p \in Program : WellFormed(p)
<1>1. WellFormed(DetectSharps)
  BY Ops DEF DetectSharps, WellFormed, LockOp, Mutex
<1>2. WellFormed(HandleCommand) /\ WellFormed(Authenticate) /\ WellFormed(HandleListenerAlert)
  BY Ops DEF HandleCommand, Authenticate, HandleListenerAlert, WellFormed, LockOp, Mutex
<1>3. WellFormed(Interval)
  BY Ops DEF Interval, WellFormed, LockOp, Mutex
<1>4. WellFormed(Run) /\ WellFormed(RunPrivate)
  BY Ops DEF Run, RunPrivate, WellFormed, LockOp, Mutex
<1>5. WellFormed(Status) /\ WellFormed(Callback)
  BY Ops DEF Status, Callback, WellFormed, LockOp, Mutex
<1>6. WellFormed(Execute)
  BY Ops DEF Execute, WellFormed, LockOp, Mutex
<1>7. QED
  BY <1>1, <1>2, <1>3, <1>4, <1>5, <1>6 DEF Program

\* A program that has moved on has taken no less.
LEMMA TakenGrows ==
  ASSUME NEW p, NEW i \in Nat, NEW k \in Nat, i <= k
  PROVE  Taken(p, i) \subseteq Taken(p, k)
BY DEF Taken

\* The config is never held at the send, and the actor locks nothing else.
LEMMA SendHolds ==
  /\ \A p \in Program : \A i \in 1..Len(p) : p[i][1] = "send" => "config" \notin Taken(p, i)
  /\ \A i \in 1..Len(Execute) : Execute[i][1] \in LockOp => Execute[i][2] = "config"
<1> DEFINE Free(p) == \A i \in 1..Len(p) : p[i][1] = "send" => "config" \notin Taken(p, i)
<1>1. Free(DetectSharps)
  BY Ops DEF DetectSharps, Taken
<1>2. Free(HandleCommand) /\ Free(Authenticate) /\ Free(HandleListenerAlert) /\ Free(Interval)
  BY Ops DEF HandleCommand, Authenticate, HandleListenerAlert, Interval
<1>3. Free(Run) /\ Free(RunPrivate) /\ Free(Status) /\ Free(Callback)
  BY Ops DEF Run, RunPrivate, Status, Callback
<1>4. Free(Execute)
  BY Ops DEF Execute
<1>5. \A i \in 1..Len(Execute) : Execute[i][1] \in LockOp => Execute[i][2] = "config"
  BY Ops DEF Execute, LockOp
<1> HIDE DEF Free
<1>6. \A p \in Program : Free(p)
  BY <1>1, <1>2, <1>3, <1>4 DEF Program
<1>7. QED
  BY <1>5, <1>6 DEF Free

LEMMA ProgramsAre == \A t \in Task : ProgramsOf(t) \subseteq Program /\ ProgramsOf(t) # {}
BY DEF ProgramsOf, Program, Task, Pooled

-----------------------------------------------------------------------------
(* Types. *)

LEMMA InitTyped == Init => TypeOK
<1> SUFFICES ASSUME Init PROVE TypeOK
  OBVIOUS
<1>1. \A t \in Task : 1 \in 1..Len(program[t])
  BY AllWellFormed, ProgramsAre DEF Init, WellFormed
<1>2. holder \in [Mutex -> Task \cup {NoTask}]
  BY DEF Init
<1>3. QED
  BY <1>1, <1>2, RuntimeAssumption DEF Init, TypeOK

\* A step of one position keeps inside the program.
LEMMA AdvanceTyped ==
  ASSUME TypeOK, NEW t \in Task, Op(t)[1] # "done", Advance(t), program' = program
  PROVE  /\ at' \in [Task -> Nat]
         /\ \A u \in Task : at'[u] \in 1..Len(program'[u])
<1>1. WellFormed(program[t]) /\ at[t] \in 1..Len(program[t]) /\ at[t] \in Nat
  BY AllWellFormed, ProgramsAre DEF TypeOK
<1>2. at[t] + 1 \in 1..Len(program[t])
  BY <1>1 DEF WellFormed, Op
<1>3. QED
  BY <1>1, <1>2 DEF TypeOK, Advance

LEMMA StepTyped == TypeOK /\ [Next]_vars => TypeOK'
<1> SUFFICES ASSUME TypeOK, [Next]_vars PROVE TypeOK'
  OBVIOUS
<1>1. CASE UNCHANGED vars
  BY <1>1 DEF vars, TypeOK
<1>2. ASSUME NEW t \in Task, TakeLock(t) PROVE TypeOK'
  <2>1. Op(t)[2] \in Mutex /\ Op(t)[1] # "done"
    BY <1>2, AllWellFormed, ProgramsAre DEF TakeLock, TypeOK, WellFormed, Op, LockOp
  <2>2. holder' \in [Mutex -> Task \cup {NoTask}]
    BY <1>2, <2>1 DEF TakeLock, TypeOK
  <2>3. QED
    BY <1>2, <2>1, <2>2, AdvanceTyped DEF TakeLock, TypeOK
<1>3. ASSUME NEW t \in Task, TouchLock(t) PROVE TypeOK'
  BY <1>3, AdvanceTyped DEF TouchLock, TypeOK
<1>4. ASSUME NEW t \in Task, Test(t) PROVE TypeOK'
  <2>1. CASE at' = [at EXCEPT ![t] = @ + 1]
    BY <1>4, <2>1, AdvanceTyped DEF Test, TypeOK, Advance
  <2>2. CASE at' = [at EXCEPT ![t] = Len(program[t])]
    <3>1. Len(program[t]) \in 1..Len(program[t]) /\ Len(program[t]) \in Nat
      BY AllWellFormed, ProgramsAre DEF TypeOK, WellFormed
    <3>2. QED
      BY <1>4, <2>2, <3>1 DEF Test, TypeOK
  <2>3. QED
    BY <1>4, <2>1, <2>2 DEF Test
<1>5. ASSUME NEW t \in Task, Resume(t) PROVE TypeOK'
  BY <1>5, AdvanceTyped DEF Resume, TypeOK
<1>6. ASSUME NEW t \in Task, SendOpp(t) PROVE TypeOK'
  <2>1. queue' \in 0..EXEC_CAP
    BY <1>6, RuntimeAssumption DEF SendOpp, TypeOK
  <2>2. QED
    BY <1>6, <2>1, AdvanceTyped DEF SendOpp, TypeOK
<1>7. ASSUME NEW t \in Task, ReceiveOpp(t) PROVE TypeOK'
  <2>1. queue' \in 0..EXEC_CAP
    BY <1>7, RuntimeAssumption DEF ReceiveOpp, TypeOK
  <2>2. QED
    BY <1>7, <2>1, AdvanceTyped DEF ReceiveOpp, TypeOK
<1>8. ASSUME NEW t \in Task, Finish(t) PROVE TypeOK'
  <2>1. PICK p \in ProgramsOf(t) : program' = [program EXCEPT ![t] = p]
    BY <1>8 DEF Finish
  <2>2. p \in Program /\ 1 \in 1..Len(p)
    BY ProgramsAre, AllWellFormed DEF WellFormed
  <2>3. program' \in [Task -> Program] /\ \A u \in Task : program'[u] \in ProgramsOf(u)
    BY <2>1, <2>2 DEF TypeOK
  <2>4. at' \in [Task -> Nat] /\ \A u \in Task : at'[u] \in 1..Len(program'[u])
    BY <1>8, <2>1, <2>2 DEF Finish, TypeOK
  <2>5. holder' \in [Mutex -> Task \cup {NoTask}]
    BY <1>8 DEF Finish, TypeOK
  <2>6. QED
    BY <1>8, <2>3, <2>4, <2>5 DEF Finish, TypeOK
<1>9. QED
  BY <1>1, <1>2, <1>3, <1>4, <1>5, <1>6, <1>7, <1>8 DEF Next

\* Every variable keeps its type, and the exec channel its capacity.
THEOREM TypeCorrect == Spec => []TypeOK
BY InitTyped, StepTyped, PTL DEF Spec

-----------------------------------------------------------------------------
(* What is held has been taken. *)

LEMMA InitHolds == Init => LockInv
BY DEF Init, LockInv, Task, Pooled, NoTask

\* A step of one position that changes no holder keeps what is held taken.
LEMMA AdvanceHolds ==
  ASSUME TypeOK, LockInv, NEW t \in Task, holder' = holder, program' = program,
         \A u \in Task : at'[u] \in Nat /\ at[u] <= at'[u]
  PROVE  LockInv'
<1> SUFFICES ASSUME NEW m \in Mutex, holder[m] \in Task
             PROVE  m \in Taken(program[holder[m]], at'[holder[m]])
  BY DEF LockInv
<1>1. m \in Taken(program[holder[m]], at[holder[m]])
  BY DEF LockInv
<1>2. QED
  BY <1>1, TakenGrows DEF TypeOK

LEMMA StepHolds == TypeOK /\ LockInv /\ [Next]_vars => LockInv'
<1> SUFFICES ASSUME TypeOK, LockInv, [Next]_vars PROVE LockInv'
  OBVIOUS
<1>0. \A t \in Task : at[t] \in Nat
  BY DEF TypeOK
<1>1. CASE UNCHANGED vars
  BY <1>1 DEF vars, LockInv, Taken
<1>2. ASSUME NEW t \in Task, TakeLock(t) PROVE LockInv'
  <2> DEFINE mine == Op(t)[2]
  <2>1. program[t] \in Program /\ at[t] \in 1..Len(program[t]) /\ Len(program[t]) \in Nat
    BY ProgramsAre, AllWellFormed DEF TypeOK, WellFormed
  <2>2. Op(t) = Take(mine) /\ mine \in Mutex
    BY <1>2, <2>1, AllWellFormed DEF TakeLock, WellFormed, Op, LockOp
  <2>3. \A u \in Task : at'[u] \in Nat /\ at[u] <= at'[u]
    BY <1>2, <1>0 DEF TakeLock, Advance, TypeOK
  <2>4. at'[t] = at[t] + 1
    BY <1>2 DEF TakeLock, Advance, TypeOK
  <2>5. mine \in Taken(program[t], at'[t])
    BY <2>1, <2>2, <2>4, <1>0 DEF Taken, Op
  <2>6. holder' = [holder EXCEPT ![mine] = t] /\ program' = program
    BY <1>2 DEF TakeLock
  <2> HIDE DEF mine
  <2>7. ASSUME NEW m \in Mutex, holder'[m] \in Task
        PROVE  m \in Taken(program'[holder'[m]], at'[holder'[m]])
    <3>1. CASE m = mine
      BY <3>1, <2>2, <2>5, <2>6 DEF TypeOK
    <3>2. CASE m # mine
      <4>1. holder'[m] = holder[m]
        BY <3>2, <2>6, <2>2 DEF TypeOK
      <4>2. m \in Taken(program[holder[m]], at[holder[m]])
        BY <4>1, <2>7 DEF LockInv
      <4>3. QED
        BY <4>1, <4>2, <2>3, <2>6, <2>7, <1>0, TakenGrows
    <3>3. QED
      BY <3>1, <3>2
  <2>8. QED
    BY <2>7 DEF LockInv
<1>3. ASSUME NEW t \in Task, holder' = holder, program' = program, Advance(t) PROVE LockInv'
  <2>1. \A u \in Task : at'[u] \in Nat /\ at[u] <= at'[u]
    BY <1>3, <1>0 DEF Advance, TypeOK
  <2>2. QED
    BY <1>3, <2>1, AdvanceHolds
<1>4. ASSUME NEW t \in Task, Test(t) PROVE LockInv'
  <2>1. CASE at' = [at EXCEPT ![t] = @ + 1]
    BY <1>4, <2>1, <1>3 DEF Test, Advance
  <2>2. CASE at' = [at EXCEPT ![t] = Len(program[t])]
    <3>1. at[t] <= Len(program[t]) /\ Len(program[t]) \in Nat
      BY ProgramsAre, AllWellFormed DEF TypeOK, WellFormed
    <3>2. \A u \in Task : at'[u] \in Nat /\ at[u] <= at'[u]
      BY <2>2, <3>1, <1>0 DEF TypeOK
    <3>3. QED
      BY <1>4, <3>2, AdvanceHolds DEF Test
  <2>3. QED
    BY <1>4, <2>1, <2>2 DEF Test
<1>5. ASSUME NEW t \in Task, Finish(t) PROVE LockInv'
  <2> SUFFICES ASSUME NEW m \in Mutex, holder'[m] \in Task
               PROVE  m \in Taken(program'[holder'[m]], at'[holder'[m]])
    BY DEF LockInv
  <2>1. holder'[m] = holder[m] /\ holder[m] # t
    BY <1>5 DEF Finish, Task, Pooled, NoTask
  <2>2. program'[holder[m]] = program[holder[m]] /\ at'[holder[m]] = at[holder[m]]
    BY <1>5, <2>1 DEF Finish, TypeOK
  <2>3. QED
    BY <2>1, <2>2 DEF LockInv
<1>6. QED
  BY <1>1, <1>2, <1>3, <1>4, <1>5 DEF Next, TouchLock, Resume, SendOpp, ReceiveOpp

\* LockInv is an invariant.
THEOREM HeldIsTaken == Spec => []LockInv
BY InitHolds, StepHolds, TypeCorrect, PTL DEF Spec

-----------------------------------------------------------------------------
(* No circular wait. *)

\* Who waits for a mutex that somebody else waiting holds, waits for a lower one.
LEMMA WaitsDescend ==
  ASSUME TypeOK, LockInv, NEW t \in Task, NEW u \in Task, NEW v \in Task,
         Blocked(t, u), Blocked(u, v)
  PROVE  /\ Op(t)[2] \in Mutex /\ Op(u)[2] \in Mutex
         /\ Rank(Op(t)[2]) < Rank(Op(u)[2])
<1>1. \A x \in Task : program[x] \in Program /\ at[x] \in 1..Len(program[x])
  BY ProgramsAre DEF TypeOK
<1>2. Op(t)[2] \in Mutex /\ Op(u)[2] \in Mutex
  BY <1>1, AllWellFormed DEF Blocked, Op, WellFormed, LockOp
<1>3. Op(t)[2] \in Taken(program[u], at[u])
  BY <1>2 DEF Blocked, LockInv
<1>4. QED
  BY <1>1, <1>2, <1>3, AllOrdered DEF Blocked, Op, Ordered, LockOp

LEMMA NoCycle == TypeOK /\ LockInv => NoCircularWait
<1> SUFFICES ASSUME TypeOK, LockInv, NEW S \in SUBSET Task, S # {},
                    \A t \in S : \E u \in S : Blocked(t, u)
             PROVE  FALSE
  BY DEF NoCircularWait
<1> DEFINE R(t) == Rank(Op(t)[2])
<1>1. \A t \in S : R(t) \in 1..4 /\ \E u \in S : R(t) < R(u)
  BY WaitsDescend DEF Mutex, Rank
<1> HIDE DEF R
<1>2. \A t \in S : R(t) # 4
  BY <1>1
<1>3. \A t \in S : R(t) # 3
  BY <1>1, <1>2
<1>4. \A t \in S : R(t) # 2
  BY <1>1, <1>2, <1>3
<1>5. QED
  BY <1>1, <1>2, <1>3, <1>4

\* No set of tasks ever waits for each other's mutexes.
THEOREM NoDeadlyEmbrace == Spec => []NoCircularWait
BY TypeCorrect, HeldIsTaken, NoCycle, PTL

-----------------------------------------------------------------------------
(* A thread for the execution actor. *)

LEMMA RoomForActor ==
  ASSUME TypeOK, LockInv, WORKERS > 3
  PROVE  ActorCanRun
<1> SUFFICES ASSUME Op("aggregator")[1] = "send"
             PROVE  /\ ~Blocked("executor", "aggregator")
                    /\ Cardinality({t \in Pooled : Blocked(t, "aggregator")}) < WORKERS
  BY DEF ActorCanRun
<1>1. "aggregator" \in Task /\ "executor" \in Task
  BY DEF Task, Pooled
<1>2. ~Blocked("executor", "aggregator")
  <2> SUFFICES ASSUME Blocked("executor", "aggregator") PROVE FALSE
    OBVIOUS
  <2>1. program["executor"] = Execute /\ at["executor"] \in 1..Len(Execute)
    BY <1>1 DEF TypeOK, ProgramsOf
  <2>2. Op("executor")[2] = "config"
    BY <2>1, SendHolds DEF Blocked, Op, LockOp
  <2>3. "config" \in Taken(program["aggregator"], at["aggregator"])
    BY <1>1, <2>2 DEF Blocked, LockInv, Mutex
  <2>4. program["aggregator"] \in Program /\ at["aggregator"] \in 1..Len(program["aggregator"])
    BY <1>1, ProgramsAre DEF TypeOK
  <2>5. QED
    BY <2>3, <2>4, SendHolds DEF Op
<1>3. {t \in Pooled : Blocked(t, "aggregator")} \subseteq {"poller", "private", "notifier"}
  BY <1>2 DEF Pooled
<1>4. /\ IsFiniteSet({"poller", "private", "notifier"})
      /\ Cardinality({"poller", "private", "notifier"}) = 3
  <2>1. IsFiniteSet({"poller"}) /\ Cardinality({"poller"}) = 1
    BY FS_Singleton
  <2>2. IsFiniteSet({"poller"} \cup {"private"}) /\ Cardinality({"poller"} \cup {"private"}) = 2
    BY <2>1, FS_AddElement
  <2>3. {"poller"} \cup {"private"} \cup {"notifier"} = {"poller", "private", "notifier"}
    OBVIOUS
  <2>4. QED
    BY <2>2, <2>3, FS_AddElement
<1>5. Cardinality({t \in Pooled : Blocked(t, "aggregator")}) \in Nat
      /\ Cardinality({t \in Pooled : Blocked(t, "aggregator")}) <= 3
  BY <1>3, <1>4, FS_Subset, FS_CardinalityType
<1>6. QED
  BY <1>2, <1>5, RuntimeAssumption

\* On a machine with more than three CPUs the tasks that wait for the mutexes
\* detect_sharps holds across its send leave the execution actor a thread.
THEOREM ActorHasThread ==
  ASSUME WORKERS > 3
  PROVE  Spec => []ActorCanRun
<1>1. TypeOK /\ LockInv => ActorCanRun
  BY RoomForActor
<1>2. QED
  BY <1>1, TypeCorrect, HeldIsTaken, PTL

=============================================================================
