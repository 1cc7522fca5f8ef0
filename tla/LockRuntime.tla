----------------------------- MODULE LockRuntime -----------------------------
(***************************************************************************)
(* The bot's tasks, the std mutexes they share and the threads they run on. *)
(*                                                                         *)
(* The aggregator runs on the main thread; the pollers, the Telegram        *)
(* listener and the execution actor are tokio tasks, which need one of      *)
(* WORKERS threads from the end of one await to the beginning of the next.  *)
(* A task that waits for a std mutex keeps its thread.  detect_sharps       *)
(* awaits room in the exec channel while it holds three of them.            *)
(*                                                                         *)
(* A task is the sequence of what it does to locks, channel and scheduler;  *)
(* the data it works on is left out, so each test of the code may go either *)
(* way.  A mutex that is locked and unlocked with no blocking in between is *)
(* one step; those only ever locked that way (secrets, states, logs, the    *)
(* last advice) can block nobody for long and are left out.                 *)
(***************************************************************************)
EXTENDS Naturals, Sequences, FiniteSets

CONSTANTS
  WORKERS,   \* worker threads of the runtime: the CPUs of the machine
  EXEC_CAP   \* capacity of the exec channel (100)

ASSUME RuntimeAssumption == WORKERS \in Nat \ {0} /\ EXEC_CAP \in Nat \ {0}

Mutex == {"funding", "filters", "account", "config"}
Pooled == {"poller", "private", "notifier", "executor"}
Task == Pooled \cup {"aggregator"}
NoTask == "none"

-----------------------------------------------------------------------------
(* The programs. *)

Take(m) == <<"take", m>>      \* lock, held to the end of the program
Touch(m) == <<"touch", m>>    \* lock, use, unlock
MayLeave == <<"leave", "">>   \* an early return is possible here
Await == <<"await", "">>      \* a timer, a reply or an update
Order == <<"order", "">>      \* the reply to orders
Send == <<"send", "">>        \* exec_tx.send(opp).await
Receive == <<"receive", "">>  \* rx.recv().await
Done == <<"done", "">>        \* the guards are dropped

\* Mutation of DetectSharps: the config guard of validate lives on.
DetectKeepsConfig ==
  << Touch("config"), MayLeave, Touch("config"), MayLeave, Touch("account"), MayLeave,
     Take("funding"), Touch("account"), Take("filters"), Take("account"),
     MayLeave, Take("config"), MayLeave, Send, Done >>

\* Aggregator::detect_sharps: blacklist; threshold; equity; then the locks
\* that are held during validate, which reads the config, and during send.
DetectSharps ==
  << Touch("config"), MayLeave, Touch("config"), MayLeave, Touch("account"), MayLeave,
     Take("funding"), Touch("account"), Take("filters"), Take("account"),
     MayLeave, Touch("config"), MayLeave, Send, Done >>

\* Aggregator::handle_command: the config is changed and saved, then published;
\* or a login is answered.
HandleCommand == << Touch("config"), Touch("config"), Await, Done >>
Authenticate == << Touch("config"), Await, Done >>

\* Aggregator::handle_listener_alert: the alert published, the symbol fetched,
\* the fees, the opportunity published.
HandleListenerAlert ==
  << Await, MayLeave, Await, MayLeave, Touch("config"), MayLeave, Await, Done >>

\* The interval of Aggregator::run: print_arbitrage_matrix, check_rebalancing,
\* broadcast_tickers, broadcast_state, broadcast_config.
Interval ==
  << Touch("config"), Touch("account"), Touch("filters"), Touch("account"),
     Await, Touch("account"), Await, Touch("config"), Await, Done >>

\* Mutation of Run: the filters are locked first.
RunFiltersFirst == << Await, Take("filters"), Take("funding"), Done >>

\* DataPoller::run: the requests, then both maps are replaced under two locks.
Run == << Await, Take("funding"), Take("filters"), Done >>

\* Mutation of RunPrivate: the lock is taken before the requests.
RunPrivateLockFirst == << Take("account"), Await, Touch("config"), Done >>

\* DataPoller::fetch_private_data: the account state is replaced under its
\* lock, with a copy of the config.
RunPrivate == << Await, Take("account"), Touch("config"), Done >>

\* TelegramNotifier: an update is /status, or the confirmation of a transfer.
Status == << Await, Touch("account"), Await, Done >>
Callback == << Await, Touch("config"), Await, Done >>

\* ExecutionActor::run and execute_opportunity: the flag, the refusals, the
\* credentials of the two orders, and those of the reversal.
Execute ==
  << Receive, Touch("config"), MayLeave, Touch("config"), Order,
     MayLeave, Touch("config"), Order, Done >>

Program == { DetectSharps, HandleCommand, Authenticate, HandleListenerAlert, Interval,
             Run, RunPrivate, Status, Callback, Execute }

ProgramsOf(t) ==
  CASE t = "aggregator" -> {DetectSharps, HandleCommand, Authenticate, HandleListenerAlert, Interval}
    [] t = "poller" -> {Run}
    [] t = "private" -> {RunPrivate}
    [] t = "notifier" -> {Status, Callback}
    [] t = "executor" -> {Execute}

-----------------------------------------------------------------------------
VARIABLES
  program,   \* program[t]: the program task t is in
  at,        \* at[t]: its position
  holder,    \* holder[m]: the task that holds mutex m, or NoTask
  queue      \* number of opportunities in the exec channel

vars == <<program, at, holder, queue>>

Op(t) == program[t][at[t]]

Init ==
  /\ program \in [Task -> Program]
  /\ \A t \in Task : program[t] \in ProgramsOf(t)
  /\ at = [t \in Task |-> 1]
  /\ holder = [m \in Mutex |-> NoTask]
  /\ queue = 0

\* The task is between two awaits: if it is one of the runtime's, it keeps a
\* worker thread, blocked or not.
Between(t) == Op(t)[1] \in {"take", "touch", "leave", "done"}
Busy == {t \in Pooled : Between(t)}

\* A thread for task t to go on after an await; the aggregator has its own.
MayRun(t) == t \in Pooled => Cardinality(Busy) < WORKERS

Advance(t) == at' = [at EXCEPT ![t] = @ + 1]

\* Mutex::lock on a mutex whose guard lives on.
TakeLock(t) ==
  /\ Op(t)[1] = "take"
  /\ holder[Op(t)[2]] = NoTask
  /\ holder' = [holder EXCEPT ![Op(t)[2]] = t]
  /\ Advance(t)
  /\ UNCHANGED <<program, queue>>

\* Mutex::lock on a mutex whose guard is dropped at once.
TouchLock(t) ==
  /\ Op(t)[1] = "touch"
  /\ holder[Op(t)[2]] = NoTask
  /\ Advance(t)
  /\ UNCHANGED <<program, holder, queue>>

\* Either way of a test.
Test(t) ==
  /\ Op(t)[1] = "leave"
  /\ at' \in {[at EXCEPT ![t] = @ + 1], [at EXCEPT ![t] = Len(program[t])]}
  /\ UNCHANGED <<program, holder, queue>>

\* What the task awaits has come.
Resume(t) ==
  /\ Op(t)[1] \in {"await", "order"}
  /\ MayRun(t)
  /\ Advance(t)
  /\ UNCHANGED <<program, holder, queue>>

\* Mutation of SendOpp: an unbounded channel.
SendUnbounded(t) ==
  /\ Op(t)[1] = "send"
  /\ queue' = queue + 1
  /\ Advance(t)
  /\ UNCHANGED <<program, holder>>

\* There is room in the channel.
SendOpp(t) ==
  /\ Op(t)[1] = "send"
  /\ queue < EXEC_CAP
  /\ queue' = queue + 1
  /\ Advance(t)
  /\ UNCHANGED <<program, holder>>

\* There is an opportunity in the channel.
ReceiveOpp(t) ==
  /\ Op(t)[1] = "receive"
  /\ queue > 0
  /\ MayRun(t)
  /\ queue' = queue - 1
  /\ Advance(t)
  /\ UNCHANGED <<program, holder>>

\* The guards go out of scope; the task's loop comes round.
Finish(t) ==
  /\ Op(t)[1] = "done"
  /\ holder' = [m \in Mutex |-> IF holder[m] = t THEN NoTask ELSE holder[m]]
  /\ \E p \in ProgramsOf(t) : program' = [program EXCEPT ![t] = p]
  /\ at' = [at EXCEPT ![t] = 1]
  /\ UNCHANGED queue

Scheduled(t) == TouchLock(t) \/ TakeLock(t) \/ Test(t) \/ SendOpp(t) \/ ReceiveOpp(t) \/ Finish(t)

Next ==
  \/ \E t \in Task : TakeLock(t)
  \/ \E t \in Task : TouchLock(t)
  \/ \E t \in Task : Test(t)
  \/ \E t \in Task : Resume(t)
  \/ \E t \in Task : SendOpp(t)
  \/ \E t \in Task : ReceiveOpp(t)
  \/ \E t \in Task : Finish(t)

Spec == Init /\ [][Next]_vars

\* A free worker takes a task that can go on, and a thread that waits for a
\* mutex is not passed over for ever.  Nothing is assumed of what is awaited.
FairSpec == Spec /\ \A t \in Task : SF_vars(Scheduled(t))

-----------------------------------------------------------------------------
(* Properties. *)

\* Every variable holds a value of its type.
TypeOK ==
  /\ program \in [Task -> Program]
  /\ at \in [Task -> Nat]
  /\ \A t \in Task : program[t] \in ProgramsOf(t) /\ at[t] \in 1..Len(program[t])
  /\ holder \in [Mutex -> Task \cup {NoTask}]
  /\ queue \in 0..EXEC_CAP

\* Task t waits for a mutex that task u holds.
Blocked(t, u) == Op(t)[1] \in {"take", "touch"} /\ holder[Op(t)[2]] = u

\* No set of tasks waits for each other's mutexes: the nested locks of
\* detect_sharps, DataPoller::run and fetch_private_data follow one order.
NoCircularWait ==
  \A S \in SUBSET Task : S # {} => \E t \in S : \A u \in S : ~Blocked(t, u)

\* "Run Execution Actor (Background Thread)" (main.rs:150): the actor can
\* make room whenever the aggregator waits for it.  It does not wait for one
\* of the aggregator's mutexes itself, and the tasks that do leave it a thread.
ActorCanRun ==
  (Op("aggregator")[1] = "send" /\ queue = EXEC_CAP) =>
    /\ ~Blocked("executor", "aggregator")
    /\ Cardinality({t \in Pooled : Blocked(t, "aggregator")}) < WORKERS

\* The aggregator gets back to its select loop, provided orders are answered
\* and the broker takes what is published.
Answered ==
  /\ []<>(Op("executor")[1] # "order")
  /\ []<>(Op("aggregator")[1] # "await")
AggregatorReturns == Answered => []<>(at["aggregator"] = 1)

=============================================================================
