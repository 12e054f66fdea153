------------------------- MODULE RequestBatchProofs -------------------------
(***************************************************************************)
(* Theorems about RequestBatch, for every number of requests, retries and  *)
(* calls, every strategy and every moment of cancel().                     *)
(***************************************************************************)
EXTENDS RequestBatch, DataLemmas, TLAPS

TaskStates == {"none", "check", "send", "sending", "delay", "ready"}

-----------------------------------------------------------------------------
(* What each task may still send.                                          *)

Typed ==
    /\ started \in Nat
    /\ tries \in [Slots -> 0 .. MaxRetries]
    /\ sends \in [Slots -> Nat] /\ late \in [Slots -> Nat]
    /\ task \in [Slots -> TaskStates]

NotStarted == \A k \in Slots : k > started => task[k] = "none"

\* A request that is not under way has been sent once for each retry, one
\* that is has been sent once more; a task that waits has a retry left.
Spent(k) ==
    /\ sends[k] <= MaxRetries + 1
    /\ task[k] \in {"none", "check", "send"} => sends[k] <= tries[k]
    /\ task[k] \in {"sending", "delay"} => sends[k] <= tries[k] + 1
    /\ task[k] = "delay" => tries[k] < MaxRetries

CountInv == Typed /\ NotStarted /\ \A k \in Slots : Spent(k)

LEMMA CountInvInit == Init => CountInv
<1> SUFFICES ASSUME Init PROVE CountInv
  OBVIOUS
<1>1. Typed
  BY RequestBatchAssumption DEF Init, Typed, TaskStates
<1>2. NotStarted
  BY DEF Init, NotStarted
<1>3. ASSUME NEW k \in Slots PROVE Spent(k)
  BY <1>3, RequestBatchAssumption DEF Init, Spent
<1>4. QED
  BY <1>1, <1>2, <1>3 DEF CountInv

LEMMA CountInvFrame ==
    CountInv /\ UNCHANGED <<started, tries, sends, late, task>> => CountInv'
BY DEF CountInv, Typed, NotStarted, Spent

\* The tasks of a new call.
LEMMA CountInvFresh ==
    EnterExecuteFull => CountInv'
<1> SUFFICES ASSUME EnterExecuteFull PROVE CountInv'
  OBVIOUS
<1>1. /\ started' = 0 /\ task' = [k \in Slots |-> "none"]
      /\ tries' = [k \in Slots |-> 0] /\ sends' = [k \in Slots |-> 0]
      /\ late' = [k \in Slots |-> 0]
  BY DEF EnterExecuteFull, FreshTasks
<1>2. Typed' /\ NotStarted'
  BY <1>1, RequestBatchAssumption DEF Typed, NotStarted, TaskStates
<1>3. ASSUME NEW k \in Slots PROVE Spent(k)'
  BY <1>1, RequestBatchAssumption DEF Spent
<1>4. QED
  BY <1>2, <1>3 DEF CountInv

\* A step of a task that leaves it in state s.
Moves(k, s) == task' = [task EXCEPT ![k] = s] /\ s \in TaskStates \ {"none"}

LEMMA CountInvMove ==
    ASSUME CountInv, NEW k \in Slots, NEW s, Moves(k, s), task[k] # "none",
           started' = started, Spent(k)',
           tries' \in [Slots -> 0 .. MaxRetries],
           sends' \in [Slots -> Nat], late' \in [Slots -> Nat],
           \A j \in Slots : j # k => tries'[j] = tries[j] /\ sends'[j] = sends[j]
    PROVE  CountInv'
<1>1. task' \in [Slots -> TaskStates] /\ \A j \in Slots : j # k => task'[j] = task[j]
  BY DEF CountInv, Typed, Moves
<1>2. Typed' /\ NotStarted'
  BY <1>1 DEF CountInv, Typed, NotStarted
<1>3. ASSUME NEW j \in Slots PROVE Spent(j)'
  BY <1>1, <1>3 DEF CountInv, Spent
<1>4. QED
  BY <1>2, <1>3 DEF CountInv

LEMMA CountInvTask ==
    ASSUME CountInv, NEW k \in Slots, Task(k) PROVE CountInv'
<1>0. /\ started' = started /\ Spent(k)
      /\ tries \in [Slots -> 0 .. MaxRetries] /\ tries[k] \in 0 .. MaxRetries
      /\ sends \in [Slots -> Nat] /\ late \in [Slots -> Nat] /\ task \in [Slots -> TaskStates]
      /\ sends[k] \in Nat /\ MaxRetries \in Nat
  BY RequestBatchAssumption
  DEF CountInv, Typed, Task, Check, Send, Response, Retry, loop
<1>1. CASE Check(k)
  <2>1. PICK s \in {"ready", "send"} : task' = [task EXCEPT ![k] = s]
    BY <1>1 DEF Check
  <2>2. Moves(k, s) /\ task'[k] = s /\ task[k] = "check"
    BY <1>0, <1>1, <2>1 DEF Moves, TaskStates, Check
  <2>3. UNCHANGED <<tries, sends, late>>
    BY <1>1 DEF Check
  <2>4. Spent(k)'
    BY <1>0, <2>2, <2>3 DEF Spent
  <2>5. QED
    BY <1>0, <2>2, <2>3, <2>4, CountInvMove
<1>2. CASE Send(k)
  <2>1. Moves(k, "sending") /\ task'[k] = "sending" /\ task[k] = "send"
    BY <1>0, <1>2 DEF Moves, TaskStates, Send
  <2>2. /\ sends' = [sends EXCEPT ![k] = OneMore(@)] /\ UNCHANGED tries
        /\ late' = [late EXCEPT ![k] = OneMore(@)] \/ UNCHANGED late
    BY <1>2 DEF Send
  <2>3. \A n \in Nat : OneMore(n) \in Nat /\ OneMore(n) <= n + 1
    BY <1>0 DEF OneMore
  <2>4. sends' \in [Slots -> Nat] /\ late' \in [Slots -> Nat]
    BY <1>0, <2>2, <2>3
  <2>5. sends'[k] <= sends[k] + 1 /\ \A j \in Slots : j # k => sends'[j] = sends[j]
    BY <1>0, <2>2, <2>3
  <2>6. Spent(k)'
    BY <1>0, <2>1, <2>2, <2>4, <2>5 DEF Spent
  <2>7. QED
    BY <1>0, <2>1, <2>2, <2>4, <2>5, <2>6, CountInvMove
<1>3. CASE Response(k)
  <2>1. PICK s \in {"ready", "delay"} :
           /\ task' = [task EXCEPT ![k] = s] /\ (s = "delay" => ~LastTry(k))
    BY <1>3 DEF Response
  <2>2. Moves(k, s) /\ task'[k] = s /\ task[k] = "sending"
    BY <1>0, <1>3, <2>1 DEF Moves, TaskStates, Response
  <2>3. UNCHANGED <<tries, sends, late>>
    BY <1>3 DEF Response
  <2>4. Spent(k)'
    BY <1>0, <2>1, <2>2, <2>3 DEF Spent, LastTry
  <2>5. QED
    BY <1>0, <2>2, <2>3, <2>4, CountInvMove
<1>4. CASE Retry(k)
  <2>1. PICK s \in {"ready", "check"} : task' = [task EXCEPT ![k] = s]
    BY <1>4 DEF Retry, Again
  <2>2. Moves(k, s) /\ task'[k] = s /\ task[k] = "delay"
    BY <1>0, <1>4, <2>1 DEF Moves, TaskStates, Retry
  <2>3. tries' = [tries EXCEPT ![k] = @ + 1] /\ UNCHANGED <<sends, late>>
    BY <1>4 DEF Retry
  <2>4. tries[k] + 1 \in 0 .. MaxRetries
    BY <1>0, <2>2 DEF Spent
  <2>5. /\ tries' \in [Slots -> 0 .. MaxRetries] /\ tries'[k] = tries[k] + 1
        /\ \A j \in Slots : j # k => tries'[j] = tries[j]
    BY <1>0, <2>3, <2>4
  <2>6. Spent(k)'
    BY <1>0, <2>2, <2>3, <2>5 DEF Spent
  <2>7. QED
    BY <1>0, <2>2, <2>3, <2>5, <2>6, CountInvMove
<1>5. QED
  BY <1>1, <1>2, <1>3, <1>4 DEF Task

LEMMA CountInvLaunch == CountInv /\ Launch => CountInv'
<1> SUFFICES ASSUME CountInv, Launch PROVE CountInv'
  OBVIOUS
<1>1. /\ started' = started + 1 /\ task' = [task EXCEPT ![started + 1] = "check"]
      /\ UNCHANGED <<tries, sends, late>>
  BY DEF Launch
<1>2. Typed'
  <2>1. \A s : [task EXCEPT ![s] = "check"] \in [Slots -> TaskStates]
    BY DEF CountInv, Typed, TaskStates
  <2>2. QED
    BY <1>1, <2>1 DEF CountInv, Typed
<1>3. ASSUME NEW k \in Slots
      PROVE  task'[k] = task[k] \/ (task[k] = "none" /\ task'[k] = "check" /\ k = started + 1)
  BY <1>1, <1>3 DEF CountInv, Typed, NotStarted, Slots
<1>4. NotStarted'
  BY <1>1, <1>3 DEF CountInv, Typed, NotStarted, Slots
<1>5. ASSUME NEW k \in Slots PROVE Spent(k)'
  BY <1>1, <1>3, <1>5 DEF CountInv, Spent
<1>6. QED
  BY <1>2, <1>4, <1>5 DEF CountInv

LEMMA CountInvStep == CountInv /\ [Next]_vars => CountInv'
<1> SUFFICES ASSUME CountInv, [Next]_vars PROVE CountInv'
  OBVIOUS
<1>1. CASE UNCHANGED vars
  BY <1>1, CountInvFrame DEF vars, loop, tasks
<1>2. CASE Execute
  BY <1>2, CountInvFresh DEF Execute
<1>3. CASE RetryFailed
  BY <1>3, CountInvFresh, CountInvFrame DEF RetryFailed, tasks
<1>4. CASE Cancel
  BY <1>4, CountInvFrame DEF Cancel, loop
<1>5. CASE Launch
  BY <1>5, CountInvLaunch
<1>6. CASE StopLaunching \/ Poll \/ PollDone \/ Collect \/ Collected \/ Leave
  BY <1>6, CountInvFrame
  DEF StopLaunching, Poll, PollDone, Collect, Collected, Leave, loop, tasks
<1>7. CASE \E k \in Slots : Task(k)
  BY <1>7, CountInvTask
<1>8. QED
  BY <1>1, <1>2, <1>3, <1>4, <1>5, <1>6, <1>7 DEF Next, ExecuteFull

LEMMA CountInvAlways == Spec => []CountInv
BY CountInvInit, CountInvStep, PTL DEF Spec

(* A request is sent MaxRetries times more at most: RetryCount counts what *)
(* has been sent in every state of the task.                               *)
THEOREM SpecRetriesBounded == Spec => []RetriesBounded
<1>1. CountInv => RetriesBounded
  BY DEF CountInv, Spent, RetriesBounded
<1>2. QED
  BY <1>1, CountInvAlways, PTL

-----------------------------------------------------------------------------
(* What is sent after the call has been told to stop.                      *)

Flags == cancelled \in [{"batch", "retry"} -> BOOLEAN]

\* The flag is set from cancel(), or the failure that stops the batch, to
\* the end of execute.
Flagged == phase = "first" /\ stopping => cancelled["batch"]

\* What a task sends after that is the last it sends.
LateOnce(k) ==
    late[k] = 0 \/ (stopping /\ late[k] = 1 /\ task[k] \notin {"check", "send"})

StopInv == Flags /\ Flagged /\ (phase = "first" => \A k \in Slots : LateOnce(k))

LEMMA StopInvInit == Init => StopInv
BY DEF Init, StopInv, Flags, Flagged

LEMMA StopInvFrame ==
    StopInv /\ UNCHANGED <<phase, cancelled, stopping, late, task>> => StopInv'
BY DEF StopInv, Flags, Flagged, LateOnce

\* Outside of execute there is nothing to keep but the flags.
LEMMA StopInvOther == Flags' /\ phase' # "first" => StopInv'
BY DEF StopInv, Flagged

LEMMA StopInvCall ==
    ASSUME StopInv, Execute \/ RetryFailed PROVE StopInv'
<1>1. CASE Execute
  <2>1. Flags'
    BY <1>1 DEF Execute, StopInv, Flags
  <2>2. ~stopping' /\ \A k \in Slots : late'[k] = 0
    BY <1>1 DEF Execute, EnterExecuteFull, FreshTasks
  <2>3. QED
    BY <2>1, <2>2 DEF StopInv, Flagged, LateOnce
<1>2. CASE RetryFailed /\ phase' = "retry"
  <2>1. Flags'
    BY <1>2 DEF RetryFailed, StopInv, Flags
  <2>2. QED
    BY <1>2, <2>1, StopInvOther
<1>3. CASE RetryFailed /\ phase' # "retry"
  BY <1>3, StopInvFrame DEF RetryFailed, tasks
<1>4. QED
  BY <1>1, <1>2, <1>3

\* The flag of the call is set.
LEMMA StopInvSet ==
    ASSUME StopInv, UNCHANGED <<phase, late, task>>, stopping' = TRUE,
           NEW b \in {"batch", "retry"}, phase = "first" => b = "batch",
           cancelled' = [cancelled EXCEPT ![b] = TRUE]
    PROVE  StopInv'
<1>1. Flags'
  BY DEF StopInv, Flags
<1>2. phase = "first" => cancelled'["batch"]
  BY DEF StopInv, Flags
<1>3. QED
  BY <1>1, <1>2 DEF StopInv, Flagged, LateOnce

\* A step of a task that sends nothing and does not clear it to send.
LEMMA StopInvMove ==
    ASSUME StopInv, CountInv, NEW k \in Slots, NEW s,
           task' = [task EXCEPT ![k] = s],
           phase = "first" /\ stopping /\ late[k] = 1 => s \notin {"check", "send"},
           UNCHANGED <<phase, cancelled, stopping, late>>
    PROVE  StopInv'
<1>1. \A j \in Slots : task'[j] = IF j = k THEN s ELSE task[j]
  BY DEF CountInv, Typed
<1>2. QED
  BY <1>1 DEF StopInv, Flags, Flagged, LateOnce

LEMMA StopInvTask ==
    ASSUME StopInv, CountInv, NEW k \in Slots, Task(k) PROVE StopInv'
<1>1. CASE Check(k)
  <2>1. phase = "first" => late[k] = 0
    BY <1>1 DEF StopInv, LateOnce, Check
  <2>2. UNCHANGED <<phase, cancelled, stopping, late>>
    BY <1>1 DEF Check, batch
  <2>3. PICK s \in {"ready", "send"} : task' = [task EXCEPT ![k] = s]
    BY <1>1 DEF Check
  <2>4. ~(phase = "first" /\ stopping /\ late[k] = 1)
    BY <2>1
  <2>5. QED
    BY <2>2, <2>3, <2>4, StopInvMove
<1>2. CASE Send(k)
  <2>1. task' = [task EXCEPT ![k] = "sending"] /\ UNCHANGED <<phase, cancelled, stopping>>
    BY <1>2 DEF Send, batch
  <2>2. CASE UNCHANGED late
    BY <2>1, <2>2, StopInvMove
  <2>3. CASE stopping /\ late' = [late EXCEPT ![k] = OneMore(@)]
    <3>1. late \in [Slots -> Nat] /\ task \in [Slots -> TaskStates] /\ MaxRetries \in Nat
      BY RequestBatchAssumption DEF CountInv, Typed
    <3>2. /\ task'[k] = "sending" /\ late'[k] = OneMore(late[k])
          /\ \A j \in Slots : j # k => task'[j] = task[j] /\ late'[j] = late[j]
      BY <2>1, <2>3, <3>1
    <3>3. phase = "first" => late[k] = 0
      BY <1>2 DEF StopInv, LateOnce, Send
    <3>4. OneMore(0) = 1
      BY <3>1 DEF OneMore
    <3>5. ASSUME phase = "first", NEW j \in Slots PROVE LateOnce(j)'
      BY <2>1, <2>3, <3>2, <3>3, <3>4, <3>5 DEF StopInv, LateOnce
    <3>6. QED
      BY <2>1, <3>5 DEF StopInv, Flags, Flagged
  <2>4. QED
    BY <1>2, <2>2, <2>3 DEF Send
<1>3. CASE Response(k)
  <2>1. PICK s \in {"ready", "delay"} : task' = [task EXCEPT ![k] = s]
    BY <1>3 DEF Response
  <2>2. UNCHANGED <<phase, cancelled, stopping, late>>
    BY <1>3 DEF Response, batch
  <2>3. QED
    BY <2>1, <2>2, StopInvMove
<1>4. CASE Retry(k)
  <2>1. phase = "first" /\ stopping => Again(k) = "ready"
    BY DEF StopInv, Flagged, Again, Own
  <2>2. task' = [task EXCEPT ![k] = Again(k)] /\ UNCHANGED <<phase, cancelled, stopping, late>>
    BY <1>4 DEF Retry, batch
  <2>3. QED
    BY <2>1, <2>2, StopInvMove
<1>5. QED
  BY <1>1, <1>2, <1>3, <1>4 DEF Task

\* No task is started once the flag is set.
LEMMA StopInvLaunch == StopInv /\ CountInv /\ Launch => StopInv'
<1> SUFFICES ASSUME StopInv, CountInv, Launch PROVE StopInv'
  OBVIOUS
<1>1. /\ ~cancelled[Own] /\ task' = [task EXCEPT ![started + 1] = "check"]
      /\ UNCHANGED <<phase, cancelled, stopping, late>>
  BY DEF Launch, batch
<1>2. phase = "first" => ~stopping /\ \A k \in Slots : late[k] = 0
  BY <1>1 DEF StopInv, Flagged, LateOnce, Own
<1>3. QED
  BY <1>1, <1>2 DEF StopInv, Flags, Flagged, LateOnce

LEMMA StopInvStep == StopInv /\ CountInv /\ [Next]_vars => StopInv'
<1> SUFFICES ASSUME StopInv, CountInv, [Next]_vars PROVE StopInv'
  OBVIOUS
<1>1. CASE UNCHANGED vars
  BY <1>1, StopInvFrame DEF vars, batch, tasks
<1>2. CASE Execute \/ RetryFailed
  BY <1>2, StopInvCall
<1>3. CASE Cancel
  BY <1>3, StopInvSet DEF Cancel, batch
<1>4. CASE Launch
  BY <1>4, StopInvLaunch
<1>5. CASE Poll
  <2>1. UNCHANGED <<phase, late, task>>
    BY <1>5 DEF Poll
  <2>2. CASE UNCHANGED <<cancelled, stopping>>
    BY <2>1, <2>2, StopInvFrame
  <2>3. CASE cancelled' = [cancelled EXCEPT ![Own] = TRUE] /\ stopping' = TRUE
    BY <2>1, <2>3, StopInvSet DEF Own
  <2>4. QED
    BY <1>5, <2>2, <2>3 DEF Poll, Throw
<1>6. CASE StopLaunching \/ PollDone \/ Collect \/ Collected
  BY <1>6, StopInvFrame
  DEF StopLaunching, PollDone, Collect, Collected, Throw, batch, tasks
<1>7. CASE Leave
  <2>1. phase' # "first" /\ UNCHANGED cancelled
    BY <1>7 DEF Leave
  <2>2. QED
    BY <2>1, StopInvOther DEF StopInv, Flags
<1>8. CASE \E k \in Slots : Task(k)
  BY <1>8, StopInvTask
<1>9. QED
  BY <1>1, <1>2, <1>3, <1>4, <1>5, <1>6, <1>7, <1>8 DEF Next, ExecuteFull

LEMMA StopInvAlways == Spec => []StopInv
BY StopInvInit, StopInvStep, CountInvAlways, PTL DEF Spec

(* After cancel(), or the failure that stops the batch, a task of execute  *)
(* sends at most the one request it had been cleared to send.              *)
THEOREM SpecCancelStopsExecute == Spec => []CancelStopsExecute
<1>1. StopInv => CancelStopsExecute
  BY DEF StopInv, LateOnce, CancelStopsExecute
<1>2. QED
  BY <1>1, StopInvAlways, PTL

-----------------------------------------------------------------------------
(* What execute returns.                                                   *)

Oks == ok \in [Slots -> BOOLEAN]

\* A result, whatever request it is of.
AnyResult == [id : Nat, req : Nat, ok : BOOLEAN]

Shape ==
    /\ phase \notin {"first", "retry"} => pc = "out"
    /\ phase = "first" =>
          /\ todo = [k \in Slots |-> k] /\ started <= N /\ pos \in Nat \ {0}
          /\ results \in Seq(AnyResult) /\ got \subseteq 1 .. started
          /\ got = {} => results = <<>>
          /\ pc \in {"poll", "collect"} => pos <= started + 1

\* The results collected so far are those of the first requests, in order.
InOrder ==
    /\ Len(results) = pos - 1
    /\ \A i \in 1 .. pos - 1 : i <= started /\ results[i] = ResultOf(i) /\ task[i] = "ready"

\* The collecting loop has them in order, or is about to throw: a future that
\* the polling loop has emptied lies ahead of it.
Collecting ==
    phase = "first" /\ pc = "collect" =>
        /\ InOrder \/ \E i \in got : pos <= i
        /\ started # N => cancelled["batch"]

AllDone ==
    /\ Len(results) = N
    /\ \A k \in Slots : results[k].req = k /\ results[k].ok /\ ok[k] /\ task[k] = "ready"

HasFailure == \E i \in DOMAIN results : ~results[i].ok

\* What was returned, from the end of the loops on.
Answered ==
    phase = "executed" \/ (phase = "first" /\ pc = "join") =>
        \/ ret = "true" /\ AllDone
        \/ ret = "true" /\ cancelled["batch"]
        \/ ret = "false" /\ HasFailure

AnswerInv == Oks /\ Shape /\ Collecting /\ Answered

LEMMA AnswerInvInit == Init => AnswerInv
<1> SUFFICES ASSUME Init PROVE AnswerInv
  OBVIOUS
<1>1. Oks
  BY DEF Init, Oks
<1>2. Shape /\ Collecting /\ Answered
  BY DEF Init, Shape, Collecting, Answered
<1>3. QED
  BY <1>1, <1>2 DEF AnswerInv

\* A step that leaves the results alone, and the tasks that are ready.
LEMMA AnswerInvFrame ==
    ASSUME AnswerInv, CountInv, Oks',
           UNCHANGED <<phase, results, todo, loop>>,
           \A i \in Slots : task[i] = "ready" => task'[i] = "ready" /\ ok'[i] = ok[i],
           cancelled["batch"] => cancelled'["batch"]
    PROVE  AnswerInv'
<1>1. Shape'
  BY DEF AnswerInv, Shape, loop
<1>2. phase = "first" /\ InOrder => InOrder'
  <2> SUFFICES ASSUME phase = "first", InOrder PROVE InOrder'
    OBVIOUS
  <2>1. \A i \in 1 .. pos - 1 : i \in Slots
    BY RequestBatchAssumption DEF AnswerInv, Shape, CountInv, Typed, InOrder, Slots
  <2>2. QED
    BY <2>1 DEF InOrder, ResultOf, loop
<1>3. AllDone => AllDone'
  BY DEF AllDone
<1>4. Collecting'
  BY <1>2 DEF AnswerInv, Collecting, loop
<1>5. Answered'
  BY <1>3 DEF AnswerInv, Answered, HasFailure, loop
<1>6. QED
  BY <1>1, <1>4, <1>5 DEF AnswerInv

LEMMA AnswerInvTask ==
    ASSUME AnswerInv, CountInv, NEW k \in Slots, Task(k) PROVE AnswerInv'
<1>1. UNCHANGED <<phase, results, todo, loop, cancelled>>
  BY DEF Task, Check, Send, Response, Retry, batch
<1>2. task[k] # "ready" /\ \A i \in Slots : i # k => task'[i] = task[i]
  BY DEF Task, Check, Send, Response, Retry, CountInv, Typed
<1>3. Oks' /\ \A i \in Slots : i # k => ok'[i] = ok[i]
  <2>1. CASE UNCHANGED ok
    BY <2>1 DEF AnswerInv, Oks
  <2>2. CASE \E b \in BOOLEAN : ok' = [ok EXCEPT ![k] = b]
    BY <2>2 DEF AnswerInv, Oks
  <2>3. QED
    BY <2>1, <2>2 DEF Task, Check, Send, Response, Retry
<1>4. QED
  BY <1>1, <1>2, <1>3, AnswerInvFrame

LEMMA AnswerInvCall ==
    ASSUME AnswerInv, CountInv, Execute \/ RetryFailed PROVE AnswerInv'
<1>1. CASE Execute
  <2>1. /\ phase' = "first" /\ todo' = [k \in Slots |-> k] /\ results' = <<>>
        /\ pc' = "launch" /\ started' = 0 /\ pos' = 1 /\ got' = {}
        /\ ok' = [k \in Slots |-> FALSE]
    BY <1>1 DEF Execute, EnterExecuteFull, FreshTasks
  <2>2. Shape'
    BY <2>1, RequestBatchAssumption DEF Shape
  <2>3. Oks' /\ Collecting' /\ Answered'
    BY <2>1 DEF Oks, Collecting, Answered
  <2>4. QED
    BY <2>2, <2>3 DEF AnswerInv
<1>2. CASE RetryFailed /\ phase' = "retry"
  <2>1. ok' = [k \in Slots |-> FALSE] \/ ok' = ok
    BY <1>2 DEF RetryFailed, EnterExecuteFull, FreshTasks, tasks
  <2>2. Oks'
    BY <2>1 DEF AnswerInv, Oks
  <2>3. Shape' /\ Collecting' /\ Answered'
    BY <1>2 DEF Shape, Collecting, Answered
  <2>4. QED
    BY <2>2, <2>3 DEF AnswerInv
<1>3. CASE RetryFailed /\ phase' # "retry"
  <2>1. /\ UNCHANGED <<phase, cancelled, results, todo, pc, started, pos, got, tasks>>
        /\ ret' = "true" /\ Idle /\ ~HasFailure
    BY <1>3 DEF RetryFailed, HasFailure
  <2>2. Oks' /\ Shape'
    BY <2>1 DEF AnswerInv, Oks, Shape, tasks, Idle
  <2>3. Collecting'
    BY <2>1 DEF Collecting, Idle
  <2>4. Answered'
    BY <2>1 DEF AnswerInv, Answered, AllDone, tasks, Idle
  <2>5. QED
    BY <2>2, <2>3, <2>4 DEF AnswerInv
<1>4. QED
  BY <1>1, <1>2, <1>3

\* While a retry runs nothing is said about its results.
LEMMA AnswerInvRetry ==
    ASSUME AnswerInv, phase = "retry", phase' \in {"retry", "retried"},
           phase' = "retried" => pc' = "out", ok' = ok
    PROVE  AnswerInv'
BY DEF AnswerInv, Oks, Shape, Collecting, Answered

LEMMA AnswerInvLaunch ==
    ASSUME AnswerInv, CountInv, phase = "first", Launch PROVE AnswerInv'
<1>1. /\ started < N /\ started' = started + 1 /\ pos' = 1
      /\ pc' \in {"launch", "poll"}
      /\ UNCHANGED <<phase, results, todo, got, ok>>
  BY RequestBatchAssumption DEF Launch, batch, AnswerInv, Shape, Slots
<1>2. Shape'
  BY <1>1, RequestBatchAssumption DEF AnswerInv, Shape, CountInv, Typed
<1>3. Oks' /\ Collecting' /\ Answered'
  BY <1>1 DEF AnswerInv, Oks, Collecting, Answered
<1>4. QED
  BY <1>2, <1>3 DEF AnswerInv

LEMMA AnswerInvStopLaunching ==
    ASSUME AnswerInv, CountInv, phase = "first", StopLaunching PROVE AnswerInv'
<1>1. /\ started = N \/ cancelled["batch"]
      /\ pos' = 1 /\ pc' = "collect"
      /\ UNCHANGED <<phase, results, todo, got, started, ok, cancelled, task>>
  BY RequestBatchAssumption
  DEF StopLaunching, batch, tasks, Own, AnswerInv, Shape, Slots
<1>2. Shape'
  BY <1>1 DEF AnswerInv, Shape, CountInv, Typed
<1>3. InOrder' \/ \E i \in got' : pos' <= i
  <2>1. CASE got = {}
    BY <1>1, <2>1 DEF AnswerInv, Shape, InOrder
  <2>2. CASE got # {}
    BY <1>1, <2>2 DEF AnswerInv, Shape, CountInv, Typed
  <2>3. QED
    BY <2>1, <2>2
<1>4. Collecting'
  BY <1>1, <1>3 DEF Collecting
<1>5. Oks' /\ Answered'
  BY <1>1 DEF AnswerInv, Oks, Answered
<1>6. QED
  BY <1>2, <1>4, <1>5 DEF AnswerInv

\* Taking the result of a future that is ready.
LEMMA TakeResult ==
    ASSUME AnswerInv, CountInv, phase = "first", UNCHANGED <<phase, todo, started, task, ok>>,
           pos \in 1 .. started, Take(pos)
    PROVE  /\ results' \in Seq(AnyResult) /\ Len(results') = Len(results) + 1
           /\ \A i \in 1 .. Len(results) : results'[i] = results[i]
           /\ results'[Len(results')] = ResultOf(pos)
           /\ got' # {} /\ got' \subseteq 1 .. started
<1>1. pos \in Slots /\ results \in Seq(AnyResult) /\ todo[pos] = pos
  BY RequestBatchAssumption DEF AnswerInv, Shape, CountInv, Typed, Slots
<1>2. ResultOf(pos) \in AnyResult
  <2>1. pos - 1 \in Nat /\ pos \in Nat
    BY <1>1, RequestBatchAssumption DEF Slots
  <2>2. ok[pos] \in BOOLEAN
    BY <1>1 DEF AnswerInv, Oks
  <2>3. QED
    BY <1>1, <2>1, <2>2 DEF ResultOf, AnyResult
<1>3. QED
  BY <1>1, <1>2 DEF Take, AnswerInv, Shape

LEMMA AnswerInvPoll ==
    ASSUME AnswerInv, CountInv, phase = "first", Poll PROVE AnswerInv'
<1>0. /\ pc = "poll" /\ pos \in 1 .. started /\ started \in Nat
      /\ UNCHANGED <<phase, todo, started, task, ok>>
  BY DEF Poll, AnswerInv, Shape, CountInv, Typed
<1>1. Oks'
  BY <1>0 DEF AnswerInv, Oks
<1>2. CASE pos \in got /\ Throw
  BY <1>0, <1>1, <1>2 DEF Throw, AnswerInv, Shape, Collecting, Answered
<1>3. CASE pos' = pos + 1 /\ UNCHANGED <<pc, got, results>>
  BY <1>0, <1>1, <1>3 DEF AnswerInv, Shape, Collecting, Answered
<1>4. CASE Take(pos) /\ pos' = pos + 1 /\ UNCHANGED pc
  BY <1>0, <1>1, <1>4, TakeResult DEF AnswerInv, Shape, Collecting, Answered
<1>5. CASE Take(pos) /\ ~ok[pos] /\ pc' = "join" /\ ret' = "false" /\ UNCHANGED pos
  <2>1. /\ Len(results') \in DOMAIN results'
        /\ results'[Len(results')] = ResultOf(pos)
    BY <1>0, <1>5, TakeResult DEF AnswerInv, Shape
  <2>2. HasFailure'
    BY <1>5, <2>1 DEF HasFailure, ResultOf
  <2>3. Answered'
    BY <1>5, <2>2 DEF Answered
  <2>4. Shape' /\ Collecting'
    BY <1>0, <1>5, TakeResult DEF AnswerInv, Shape, Collecting
  <2>5. QED
    BY <1>1, <2>3, <2>4 DEF AnswerInv
<1>6. QED
  BY <1>2, <1>3, <1>4, <1>5 DEF Poll

LEMMA AnswerInvPollDone ==
    ASSUME AnswerInv, CountInv, phase = "first", PollDone PROVE AnswerInv'
BY DEF PollDone, batch, tasks, AnswerInv, Oks, Shape, Collecting, Answered

LEMMA AnswerInvCollect ==
    ASSUME AnswerInv, CountInv, phase = "first", Collect PROVE AnswerInv'
<1>0. /\ pc = "collect" /\ pos \in 1 .. started /\ started \in Nat
      /\ UNCHANGED <<phase, todo, started, task, ok>>
  BY DEF Collect, AnswerInv, Shape, CountInv, Typed
<1>1. Oks'
  BY <1>0 DEF AnswerInv, Oks
<1>2. CASE pos \in got /\ Throw
  BY <1>0, <1>1, <1>2 DEF Throw, AnswerInv, Shape, Collecting, Answered
<1>3. CASE /\ pos \notin got /\ task[pos] = "ready"
           /\ Take(pos) /\ pos' = pos + 1 /\ UNCHANGED <<pc, cancelled>>
  <2>1. Shape'
    BY <1>0, <1>3, TakeResult DEF AnswerInv, Shape
  <2>2. ASSUME NEW i \in got, pos <= i PROVE i \in got' /\ pos' <= i
    BY <1>0, <1>3, <2>2 DEF Take, AnswerInv, Shape
  <2>3. InOrder => InOrder'
    <3> SUFFICES ASSUME InOrder PROVE InOrder'
      OBVIOUS
    <3>1. Len(results) = pos - 1 /\ Len(results') = pos
      BY <1>0, <1>3, TakeResult DEF InOrder
    <3>2. \A i \in 1 .. pos - 1 : results'[i] = results[i]
      BY <1>0, <1>3, <3>1, TakeResult
    <3>3. results'[pos] = ResultOf(pos)
      BY <1>0, <1>3, <3>1, TakeResult
    <3>4. \A i : ResultOf(i)' = ResultOf(i)
      BY <1>0 DEF ResultOf
    <3>5. QED
      BY <1>0, <1>3, <3>1, <3>2, <3>3, <3>4 DEF InOrder
  <2>4. Collecting'
    BY <1>0, <1>3, <2>2, <2>3 DEF AnswerInv, Collecting
  <2>5. Answered'
    BY <1>0, <1>3 DEF Answered
  <2>6. QED
    BY <1>1, <2>1, <2>4, <2>5 DEF AnswerInv
<1>4. QED
  BY <1>2, <1>3 DEF Collect

LEMMA AnswerInvCollected ==
    ASSUME AnswerInv, CountInv, phase = "first", Collected PROVE AnswerInv'
<1>0. /\ pc = "collect" /\ pos = started + 1 /\ pc' = "join" /\ ret' = AllSucceeded
      /\ UNCHANGED <<phase, todo, started, pos, got, results, cancelled, tasks>>
  BY DEF Collected, batch
<1>1. Oks' /\ Shape' /\ Collecting'
  BY <1>0 DEF AnswerInv, Oks, Shape, Collecting, tasks
<1>2. InOrder
  BY <1>0 DEF AnswerInv, Collecting, Shape, CountInv, Typed
<1>3. CASE \E i \in DOMAIN results : ~results[i].ok
  BY <1>0, <1>1, <1>3 DEF AllSucceeded, AnswerInv, Answered, HasFailure
<1>4. CASE (\A i \in DOMAIN results : results[i].ok) /\ started # N
  <2>1. started # N => cancelled["batch"]
    BY <1>0 DEF AnswerInv, Collecting
  <2>2. ret' = "true" /\ cancelled'["batch"]
    BY <1>0, <1>4, <2>1 DEF AllSucceeded
  <2>3. QED
    BY <1>1, <2>2 DEF AnswerInv, Answered
<1>5. CASE (\A i \in DOMAIN results : results[i].ok) /\ started = N
  <2>1. Len(results) = N /\ DOMAIN results = Slots
    BY <1>0, <1>2, <1>5, RequestBatchAssumption DEF InOrder, AnswerInv, Shape, Slots
  <2>2. \A k \in Slots : results[k] = ResultOf(k) /\ task[k] = "ready" /\ todo[k] = k
    BY <1>0, <1>2, <1>5, RequestBatchAssumption DEF InOrder, AnswerInv, Shape, Slots
  <2>3. ASSUME NEW k \in Slots PROVE results[k].req = k /\ results[k].ok /\ ok[k]
    <3>1. ResultOf(k).req = todo[k] /\ ResultOf(k).ok = ok[k]
      BY Zenon DEF ResultOf
    <3>2. results[k] = ResultOf(k) /\ todo[k] = k /\ results[k].ok
      BY <1>5, <2>1, <2>2, <2>3
    <3>3. QED
      BY <3>1, <3>2, Zenon
  <2>4. AllDone'
    BY <1>0, <2>1, <2>2, <2>3 DEF AllDone, tasks
  <2>5. ret' = "true"
    BY <1>0, <1>5 DEF AllSucceeded
  <2>6. QED
    BY <1>1, <2>4, <2>5 DEF AnswerInv, Answered
<1>6. QED
  BY <1>1, <1>3, <1>4, <1>5 DEF AnswerInv

LEMMA AnswerInvLeave ==
    ASSUME AnswerInv, phase = "first", Leave PROVE AnswerInv'
<1>1. /\ phase' = "executed" /\ pc = "join" /\ pc' = "out"
      /\ UNCHANGED <<results, cancelled, ret, tasks>>
  BY DEF Leave
<1>2. Oks' /\ Shape' /\ Collecting'
  BY <1>1 DEF AnswerInv, Oks, Shape, Collecting, tasks
<1>3. Answered'
  BY <1>1 DEF AnswerInv, Answered, AllDone, HasFailure, tasks
<1>4. QED
  BY <1>2, <1>3 DEF AnswerInv

LEMMA AnswerInvStep == AnswerInv /\ CountInv /\ [Next]_vars => AnswerInv'
<1> SUFFICES ASSUME AnswerInv, CountInv, [Next]_vars PROVE AnswerInv'
  OBVIOUS
<1>1. CASE UNCHANGED vars
  BY <1>1, AnswerInvFrame DEF vars, batch, tasks, AnswerInv, Oks
<1>2. CASE Execute \/ RetryFailed
  BY <1>2, AnswerInvCall
<1>3. CASE Cancel
  <2>1. cancelled'["batch"] \/ ~cancelled["batch"]
    BY <1>3 DEF Cancel, CountInv
  <2>2. QED
    BY <1>3, <2>1, AnswerInvFrame DEF Cancel, batch, AnswerInv, Oks
<1>4. CASE \E k \in Slots : Task(k)
  BY <1>4, AnswerInvTask
<1>5. CASE ExecuteFull /\ phase \notin {"first", "retry"}
  BY <1>5
  DEF AnswerInv, Shape, ExecuteFull, Launch, StopLaunching, Poll, PollDone,
      Collect, Collected, Leave
<1>6. CASE ExecuteFull /\ phase = "retry"
  <2>1. ok' = ok
    BY <1>6 DEF ExecuteFull, Launch, StopLaunching, Poll, PollDone, Collect,
                Collected, Leave, tasks
  <2>2. phase' = "retry" \/ (phase' = "retried" /\ pc' = "out")
    BY <1>6 DEF ExecuteFull, Launch, StopLaunching, Poll, PollDone, Collect,
                Collected, Leave, batch
  <2>3. QED
    BY <1>6, <2>1, <2>2, AnswerInvRetry
<1>7. CASE ExecuteFull /\ phase = "first"
  BY <1>7, AnswerInvLaunch, AnswerInvStopLaunching, AnswerInvPoll, AnswerInvPollDone,
     AnswerInvCollect, AnswerInvCollected, AnswerInvLeave DEF ExecuteFull
<1>8. QED
  BY <1>1, <1>2, <1>3, <1>4, <1>5, <1>6, <1>7 DEF Next

LEMMA AnswerInvAlways == Spec => []AnswerInv
BY AnswerInvInit, AnswerInvStep, CountInvAlways, PTL DEF Spec

(* If nobody cancels, execute returns true only when each request has a    *)
(* result of its own that succeeded: the collecting loop has emptied every *)
(* future in order, because it throws at one the polling loop has emptied. *)
THEOREM SpecTrueUnlessCancelled == Spec => []TrueUnlessCancelled
<1>1. AnswerInv => TrueUnlessCancelled
  BY DEF AnswerInv, Answered, AllDone, TrueUnlessCancelled
<1>2. QED
  BY <1>1, AnswerInvAlways, PTL

(* When execute returns false, Results has a result that failed.           *)
THEOREM SpecFalseHasFailure == Spec => []FalseHasFailure
<1>1. AnswerInv => FalseHasFailure
  BY DEF AnswerInv, Answered, HasFailure, FalseHasFailure
<1>2. QED
  BY <1>1, AnswerInvAlways, PTL

-----------------------------------------------------------------------------
(* The types.                                                              *)

Phases == {"new", "first", "executed", "retry", "retried"}
Places == {"out", "launch", "poll", "collect", "join", "thrown"}

Control ==
    /\ strategy \in Strategies /\ phase \in Phases /\ calls \in 0 .. MaxCalls
    /\ cancelled \in [{"batch", "retry"} -> BOOLEAN]
    /\ pc \in Places /\ ret \in {"none", "true", "false"}
    /\ ok \in [Slots -> BOOLEAN] /\ stopping \in BOOLEAN

\* As many results as futures that were emptied: what retryFailed sends again
\* is no longer than the batch.
Held ==
    /\ results \in Seq(Result) /\ kept \in Seq(Result) /\ todo \in Seq(Slots)
    /\ Len(results) <= N /\ Len(kept) <= N /\ Len(todo) <= N
    /\ started \in 0 .. Len(todo) /\ pos \in 1 .. N + 1 /\ got \subseteq Slots
    /\ pc # "out" => Len(results) = Cardinality(got)

LateIsSent == \A k \in Slots : late[k] <= sends[k]

TypeInv == Control /\ Held /\ LateIsSent

\* A step that moves pos within its bounds and leaves the results alone.
LEMMA HeldFrame ==
    ASSUME Held, UNCHANGED <<results, kept, todo, started, got>>, pos' \in 1 .. N + 1,
           pc' # "out" => pc # "out"
    PROVE  Held'
BY DEF Held

LEMMA TodoIsShort ==
    ASSUME Held PROVE Len(todo) \in Nat /\ started \in 0 .. N /\ N \in Nat
BY RequestBatchAssumption DEF Held

LEMMA TypeInvInit == Init => TypeInv
<1> SUFFICES ASSUME Init PROVE TypeInv
  OBVIOUS
<1>1. Control
  <2>1. calls \in 0 .. MaxCalls
    BY RequestBatchAssumption DEF Init
  <2>2. ok \in [Slots -> BOOLEAN] /\ cancelled \in [{"batch", "retry"} -> BOOLEAN]
    BY DEF Init
  <2>. QED BY <2>1, <2>2 DEF Init, Control, Phases, Places
<1>2. Held
  BY RequestBatchAssumption DEF Init, Held
<1>3. LateIsSent
  BY DEF Init, LateIsSent
<1>. QED BY <1>1, <1>2, <1>3 DEF TypeInv

\* A new call: nothing has been collected.
LEMMA HeldFresh ==
    ASSUME EnterExecuteFull, todo' \in Seq(Slots), Len(todo') <= N,
           kept' \in Seq(Result), Len(kept') <= N
    PROVE  Held' /\ LateIsSent' /\ ok' \in [Slots -> BOOLEAN] /\ stopping' \in BOOLEAN
<1>1. /\ results' = <<>> /\ started' = 0 /\ pos' = 1 /\ got' = {}
      /\ sends' = [k \in Slots |-> 0] /\ late' = [k \in Slots |-> 0]
      /\ ok' = [k \in Slots |-> FALSE] /\ stopping' = FALSE
  BY DEF EnterExecuteFull, FreshTasks
<1>2. Cardinality(got') = 0
  BY <1>1, FS_EmptySet
<1>3. Held'
  BY <1>1, <1>2, RequestBatchAssumption DEF Held
<1>4. ok' \in [Slots -> BOOLEAN] /\ stopping' \in BOOLEAN
  BY <1>1
<1>5. LateIsSent'
  BY <1>1 DEF LateIsSent
<1>. QED BY <1>3, <1>4, <1>5

LEMMA TypeInvExecute == ASSUME TypeInv, Execute PROVE TypeInv'
<1>1. todo' \in Seq(Slots) /\ Len(todo') = N
  <2>1. todo' \in [1 .. N -> Slots] /\ N \in Nat
    BY RequestBatchAssumption DEF Execute, Slots
  <2>. QED BY <2>1, FunctionSeq
<1>2. Held' /\ LateIsSent' /\ ok' \in [Slots -> BOOLEAN] /\ stopping' \in BOOLEAN
  <2>1. N \in Nat /\ Len(todo') <= N
    BY <1>1, RequestBatchAssumption
  <2>. QED BY <1>1, <2>1, HeldFresh DEF Execute, TypeInv, Held
<1>3. Control'
  BY <1>2, RequestBatchAssumption DEF Execute, EnterExecuteFull, TypeInv, Control, Phases, Places
<1>. QED BY <1>2, <1>3 DEF TypeInv

\* The results that failed are results of the batch, and no more than these.
LEMMA FailedIs ==
    ASSUME Held PROVE Failed \in Seq(Result) /\ Len(Failed) <= N
<1> DEFINE each == [i \in DOMAIN results |-> IF results[i].ok THEN <<>> ELSE <<results[i]>>]
<1>1. /\ results \in Seq(Result) /\ Len(results) \in Nat /\ DOMAIN results = 1 .. Len(results)
      /\ Len(results) <= N /\ N \in Nat
  BY RequestBatchAssumption DEF Held
<1>2. \A i \in DOMAIN results : each[i] \in Seq(Result) /\ Len(each[i]) <= 1
  BY <1>1
<1>3. each \in [1 .. Len(results) -> Seq(Result)]
  BY <1>1, <1>2
<1> HIDE DEF each
<1>4. each \in Seq(Seq(Result)) /\ Len(each) = Len(results)
  BY <1>1, <1>3, FunctionSeq
<1>5. FlattenSeq(each) \in Seq(Result) /\ Len(FlattenSeq(each)) <= Len(each)
  BY <1>1, <1>2, <1>4, FlattenType, FlattenShort
<1>6. Failed = FlattenSeq(each)
  BY DEF Failed, each
<1>7. \A n \in Nat : n <= Len(results) => n <= N
  BY <1>1
<1>. QED BY <1>4, <1>5, <1>6, <1>7

LEMMA TypeInvRetryFailed == ASSUME TypeInv, RetryFailed PROVE TypeInv'
<1>1. CASE phase' = "retry" /\ EnterExecuteFull /\ kept' = results
           /\ todo' = [i \in 1 .. Len(Failed) |-> Failed[i].id + 1]
           /\ cancelled' = [cancelled EXCEPT !["retry"] = FALSE]
  <2>1. Failed \in Seq(Result) /\ Len(Failed) <= N
    BY FailedIs DEF TypeInv
  <2>2. \A r \in Result : r.id + 1 \in Slots
    BY RequestBatchAssumption DEF Result, Slots
  <2>3. todo' \in [1 .. Len(Failed) -> Slots] /\ Len(Failed) \in Nat
    BY <1>1, <2>1, <2>2
  <2>4. todo' \in Seq(Slots) /\ Len(todo') = Len(Failed)
    BY <2>3, FunctionSeq
  <2>5. Held' /\ LateIsSent' /\ ok' \in [Slots -> BOOLEAN] /\ stopping' \in BOOLEAN
    BY <1>1, <2>1, <2>4, HeldFresh DEF TypeInv, Held
  <2>6. calls' \in 0 .. MaxCalls /\ UNCHANGED strategy
    BY RequestBatchAssumption DEF RetryFailed, TypeInv, Control
  <2>7. Control'
    BY <1>1, <2>5, <2>6 DEF EnterExecuteFull, TypeInv, Control, Phases, Places
  <2>. QED BY <2>5, <2>7 DEF TypeInv
<1>2. CASE ret' = "true" /\ UNCHANGED <<phase, cancelled, results, kept, todo, pc, started,
                                        pos, got, tasks>>
  <2>1. calls' \in 0 .. MaxCalls /\ UNCHANGED strategy
    BY RequestBatchAssumption DEF RetryFailed, TypeInv, Control
  <2>2. Control'
    BY <1>2, <2>1 DEF TypeInv, Control, tasks
  <2>3. Held'
    BY <1>2 DEF TypeInv, Held
  <2>. QED BY <1>2, <2>2, <2>3 DEF TypeInv, LateIsSent, tasks
<1>. QED BY <1>1, <1>2 DEF RetryFailed

LEMMA TypeInvTask ==
    ASSUME TypeInv, CountInv, NEW k \in Slots, Task(k) PROVE TypeInv'
<1>1. UNCHANGED <<batch, cancelled, loop, stopping>>
  BY DEF Task, Check, Send, Response, Retry
<1>2. Held'
  BY <1>1 DEF TypeInv, Held, batch, loop
<1>3. ok' \in [Slots -> BOOLEAN]
  <2>1. CASE UNCHANGED ok
    BY <2>1 DEF TypeInv, Control
  <2>2. CASE \E b \in BOOLEAN : ok' = [ok EXCEPT ![k] = b]
    BY <2>2 DEF TypeInv, Control
  <2>. QED BY <2>1, <2>2 DEF Task, Check, Send, Response, Retry
<1>4. Control'
  BY <1>1, <1>3 DEF TypeInv, Control, batch, loop
<1>5. LateIsSent'
  <2>1. sends \in [Slots -> Nat] /\ late \in [Slots -> Nat] /\ MaxRetries \in Nat
    BY RequestBatchAssumption DEF CountInv, Typed
  <2>2. CASE UNCHANGED <<sends, late>>
    BY <2>2 DEF TypeInv, LateIsSent
  <2>3. CASE sends' = [sends EXCEPT ![k] = OneMore(@)] /\ (late' = [late EXCEPT ![k] = OneMore(@)] \/ UNCHANGED late)
    <3>1. \A m \in Nat, n \in Nat : m <= n => m <= OneMore(n) /\ OneMore(m) <= OneMore(n)
      BY <2>1 DEF OneMore
    <3>. QED BY <2>1, <2>3, <3>1 DEF TypeInv, LateIsSent
  <2>. QED BY <2>2, <2>3 DEF Task, Check, Send, Response, Retry
<1>. QED BY <1>2, <1>4, <1>5 DEF TypeInv

\* A result is taken of a future that has not been emptied.
LEMMA HeldTake ==
    ASSUME Control, Held, pc # "out", pos \notin got, pos <= started, Take(pos),
           UNCHANGED <<kept, todo, started>>, pos' \in {pos, pos + 1}
    PROVE  Held'
<1>1. /\ pos \in Slots /\ pos \in 1 .. Len(todo) /\ pos + 1 \in 1 .. N + 1 /\ pos \in 1 .. N + 1
      /\ N \in Nat
  BY RequestBatchAssumption DEF Held, Slots
<1>2. ResultOf(pos) \in Result
  <2>1. pos - 1 \in 0 .. N - 1 /\ todo[pos] \in Slots /\ ok[pos] \in BOOLEAN
    BY <1>1 DEF Control, Held, Slots
  <2>. QED BY <2>1 DEF ResultOf, Result
<1>3. results' \in Seq(Result) /\ Len(results') = Len(results) + 1
  BY <1>2 DEF Take, Held
<1>4. got' = got \cup {pos} /\ got' \subseteq Slots
  BY <1>1 DEF Take, Held
<1>5. IsFiniteSet(Slots) /\ Cardinality(Slots) = N
  BY RequestBatchAssumption, FS_Interval DEF Slots
<1>6. IsFiniteSet(got) /\ Cardinality(got') <= N
  BY <1>4, <1>5, FS_Subset DEF Held
<1>7. Cardinality(got') = Cardinality(got) + 1
  BY <1>4, <1>6, FS_AddElement
<1>8. Len(results) = Cardinality(got)
  BY DEF Held
<1>9. Len(results') = Cardinality(got') /\ Len(results') <= N
  BY <1>3, <1>6, <1>7, <1>8
<1>. QED BY <1>1, <1>3, <1>4, <1>9 DEF Held

LEMMA TypeInvLoop ==
    ASSUME TypeInv, Poll \/ Collect PROVE TypeInv'
<1>0. /\ Control /\ Held /\ LateIsSent /\ pos <= started /\ pc # "out"
      /\ UNCHANGED <<strategy, phase, calls, kept, todo, started, ok, sends, late>>
  BY DEF TypeInv, Poll, Collect
<1>1. started \in 0 .. N /\ N \in Nat /\ pos \in Nat
  BY <1>0, TodoIsShort DEF Held
<1>2. Held'
  <2>1. CASE Throw
    BY <1>0, <2>1 DEF Throw, Held
  <2>2. CASE pos' = pos + 1 /\ UNCHANGED <<pc, got, results>>
    <3>1. pos' \in 1 .. N + 1
      BY <1>0, <1>1, <2>2 DEF Held
    <3>. QED BY <1>0, <2>2, <3>1, HeldFrame
  <2>3. CASE pos \notin got /\ Take(pos) /\ pos' \in {pos, pos + 1}
    BY <1>0, <2>3, HeldTake
  <2>. QED BY <2>1, <2>2, <2>3 DEF Poll, Collect
<1>3. Control'
  <2>1. pc' \in Places /\ ret' \in {"none", "true", "false"}
    BY <1>0 DEF Control, Poll, Collect, Throw, Places
  <2>2. cancelled' \in [{"batch", "retry"} -> BOOLEAN] /\ stopping' \in BOOLEAN
    <3>1. CASE UNCHANGED <<cancelled, stopping>>
      BY <1>0, <3>1 DEF Control
    <3>2. CASE cancelled' = [cancelled EXCEPT ![Own] = TRUE] /\ stopping' = TRUE
      BY <1>0, <3>2 DEF Control
    <3>. QED BY <3>1, <3>2 DEF Poll, Collect, Throw
  <2>. QED BY <1>0, <2>1, <2>2 DEF Control
<1>4. LateIsSent'
  BY <1>0 DEF LateIsSent
<1>. QED BY <1>2, <1>3, <1>4 DEF TypeInv

\* The results of the second batch are results; there are as many as before.
LEMMA TypeInvLeave == ASSUME TypeInv, Leave PROVE TypeInv'
<1>0. Held
  BY DEF TypeInv
<1>1. results' \in Seq(Result) /\ Len(results') <= N
  <2>1. CASE results' = Merged
    <3> DEFINE Place(i) == CHOOSE j \in DOMAIN results : results[j].id = i - 1
    <3>1. \A i \in 1 .. Len(kept) :
             (\E j \in DOMAIN results : results[j].id = i - 1) => Place(i) \in DOMAIN results
      OBVIOUS
    <3>2. \A i \in 1 .. Len(kept) : kept[i] \in Result
      BY <1>0 DEF Held
    <3>3. \A j \in DOMAIN results : results[j] \in Result
      BY <1>0 DEF Held
    <3>4. Merged = [i \in 1 .. Len(kept) |->
                      IF \E j \in DOMAIN results : results[j].id = i - 1
                      THEN results[Place(i)] ELSE kept[i]]
      BY DEF Merged
    <3> HIDE DEF Place
    <3>5. Merged \in [1 .. Len(kept) -> Result] /\ Len(kept) \in Nat
      BY <1>0, <3>1, <3>2, <3>3, <3>4 DEF Held
    <3>6. Merged \in Seq(Result) /\ Len(Merged) = Len(kept)
      BY <3>5, FunctionSeq
    <3>. QED BY <1>0, <2>1, <3>6 DEF Held
  <2>2. CASE UNCHANGED results
    BY <1>0, <2>2 DEF Held
  <2>. QED BY <2>1, <2>2 DEF Leave
<1>2. Held'
  BY <1>0, <1>1 DEF Leave, Held
<1>3. Control' /\ LateIsSent'
  BY DEF Leave, TypeInv, Control, LateIsSent, tasks, Phases, Places
<1>. QED BY <1>2, <1>3 DEF TypeInv

LEMMA TypeInvStep == ASSUME TypeInv, CountInv, [Next]_vars PROVE TypeInv'
<1>1. CASE UNCHANGED vars
  BY <1>1 DEF vars, batch, loop, tasks, TypeInv, Control, Held, LateIsSent
<1>2. CASE Cancel
  <2>1. UNCHANGED <<batch, loop, ok, sends, late>>
    BY <1>2 DEF Cancel
  <2>2. Control'
    BY <1>2, <2>1 DEF Cancel, TypeInv, Control, batch, loop
  <2>3. Held' /\ LateIsSent'
    BY <2>1 DEF TypeInv, Held, LateIsSent, batch, loop
  <2>. QED BY <2>2, <2>3 DEF TypeInv
<1>3. CASE Launch
  <2>1. started' = started + 1 /\ started < Len(todo) /\ pos' = 1 /\ pc' \in {"poll", "launch"}
        /\ UNCHANGED <<batch, cancelled, got, ret, ok, sends, stopping, late>> /\ pc # "out"
    BY <1>3 DEF Launch
  <2>2. Held'
    <3>1. started' \in 0 .. Len(todo) /\ pos' \in 1 .. N + 1
      BY <2>1, RequestBatchAssumption DEF TypeInv, Held
    <3>. QED BY <2>1, <3>1 DEF TypeInv, Held, batch
  <2>3. Control' /\ LateIsSent'
    BY <2>1 DEF TypeInv, Control, LateIsSent, batch, Places
  <2>. QED BY <2>2, <2>3 DEF TypeInv
<1>4. CASE StopLaunching \/ PollDone \/ Collected
  <2>1. /\ UNCHANGED <<batch, started, got, cancelled, ok, sends, stopping, late>>
        /\ pos' \in 1 .. N + 1 /\ pc # "out" /\ pc' \in Places
        /\ ret' \in {ret, "true", "false"}
    BY <1>4, RequestBatchAssumption
    DEF StopLaunching, PollDone, Collected, TypeInv, Held, tasks, Places, AllSucceeded
  <2>2. Held'
    BY <2>1, HeldFrame DEF TypeInv, batch
  <2>3. Control' /\ LateIsSent'
    BY <2>1 DEF TypeInv, Control, LateIsSent, batch
  <2>. QED BY <2>2, <2>3 DEF TypeInv
<1>. QED
  BY <1>1, <1>2, <1>3, <1>4, TypeInvExecute, TypeInvRetryFailed, TypeInvTask, TypeInvLoop,
     TypeInvLeave DEF Next, ExecuteFull

(* Every variable keeps its type.  The results fit the batch however often *)
(* it is retried: a call collects each future at most once, and what       *)
(* retryFailed sends again is a part of what was collected before.         *)
THEOREM TypeCorrect == Spec => []TypeOK
<1>1. ASSUME TypeInv, CountInv PROVE TypeOK
  <2>1. sends \in [Slots -> 0 .. MaxRetries + 1] /\ late \in [Slots -> 0 .. MaxRetries + 1]
    <3>1. \A k \in Slots : sends[k] \in 0 .. MaxRetries + 1 /\ late[k] \in 0 .. MaxRetries + 1
      BY <1>1, RequestBatchAssumption DEF TypeInv, LateIsSent, CountInv, Typed, Spent
    <3>. QED BY <1>1, <3>1 DEF CountInv, Typed
  <2>2. started \in 0 .. N
    BY <1>1, TodoIsShort DEF TypeInv
  <2>. QED
    BY <1>1, <2>1, <2>2
    DEF TypeOK, TypeInv, Control, Held, CountInv, Typed, Phases, Places, TaskStates
<1>. QED BY <1>1, TypeInvInit, TypeInvStep, CountInvAlways, PTL DEF Spec

=============================================================================
