---------------------------- MODULE RequestBatch ----------------------------
(***************************************************************************)
(* RequestBatch of blocktype/AI/ConcurrentRequest.cpp: executeFull starts  *)
(* one task per request, a task retries its request, cancel() may come     *)
(* from another thread, and retryFailed runs a second batch of what failed *)
(* and merges its results.                                                 *)
(*                                                                         *)
(* The batch holds N requests and is not changed while it is used.  The    *)
(* local Manager of executeFull counts nothing, so its slot test is always *)
(* passed and is left out, as are the delays and the callbacks.            *)
(***************************************************************************)
EXTENDS Naturals, SequencesExt

CONSTANTS
    N,            \* Requests.size()
    MaxRetries,   \* Config.MaxRetries
    MaxCalls      \* bound: calls of execute and retryFailed

ASSUME RequestBatchAssumption ==
    /\ N \in Nat \ {0}
    /\ MaxRetries \in Nat
    /\ MaxCalls \in Nat

VARIABLES
    strategy,    \* Config.ErrorStrategy; executeFull tests for StopOnFailure
    phase,       \* which call the batch is in, or came back from
    calls,       \* calls made so far
    cancelled,   \* the flags Cancelled of the batch and of the RetryBatch
    results,     \* Results of the batch whose executeFull runs or ran
    kept,        \* Results of the batch while its RetryBatch runs
    todo,        \* Requests of the batch whose executeFull runs or ran
    pc,          \* where executeFull is
    started,     \* Futures.size()
    pos,         \* position of the polling or collecting loop
    got,         \* the futures get() was called on
    ret,         \* the value returned by the last call
    task,        \* where each task is
    ok,          \* Result.Success of each task
    tries,       \* RetryCount of each task
    sends,       \* history: requests sent by each task
    stopping,    \* history: the flag was set during this call
    late         \* history: requests sent by each task since then

batch == <<strategy, phase, calls, results, kept, todo>>
loop == <<pc, started, pos, got, ret>>
tasks == <<task, ok, tries, sends, stopping, late>>
vars == <<batch, cancelled, loop, tasks>>

Slots == 1 .. N
Strategies == {"Continue", "StopOnFailure", "RetryFailed"}
Idle == phase \in {"new", "executed", "retried"}
Own == IF phase = "retry" THEN "retry" ELSE "batch"

FreshTasks ==
    /\ task' = [k \in Slots |-> "none"] /\ ok' = [k \in Slots |-> FALSE]
    /\ tries' = [k \in Slots |-> 0]
    /\ sends' = [k \in Slots |-> 0]
    /\ stopping' = FALSE /\ late' = [k \in Slots |-> 0]

Init ==
    /\ strategy \in Strategies
    /\ phase = "new" /\ calls = 0
    /\ cancelled = [b \in {"batch", "retry"} |-> FALSE]
    /\ results = <<>> /\ kept = <<>> /\ todo = <<>>
    /\ pc = "out" /\ started = 0 /\ pos = 1 /\ got = {} /\ ret = "none"
    /\ task = [k \in Slots |-> "none"] /\ ok = [k \in Slots |-> FALSE]
    /\ tries = [k \in Slots |-> 0]
    /\ sends = [k \in Slots |-> 0]
    /\ stopping = FALSE /\ late = [k \in Slots |-> 0]

-----------------------------------------------------------------------------
(* The calls.                                                              *)
EnterExecuteFull ==
    /\ results' = <<>>
    /\ pc' = "launch" /\ started' = 0 /\ pos' = 1 /\ got' = {} /\ ret' = "none"
    /\ FreshTasks

Execute ==
    /\ Idle /\ calls < MaxCalls
    /\ phase' = "first" /\ calls' = calls + 1
    /\ todo' = [k \in Slots |-> k]
    /\ cancelled' = [cancelled EXCEPT !["batch"] = FALSE]
    /\ EnterExecuteFull
    /\ UNCHANGED <<strategy, kept>>

Failed == FlattenSeq([i \in DOMAIN results |->
                        IF results[i].ok THEN <<>> ELSE <<results[i]>>])

RetryFailed ==
    /\ Idle /\ phase # "new" /\ calls < MaxCalls
    /\ calls' = calls + 1 /\ UNCHANGED strategy
    /\ IF \A i \in DOMAIN results : results[i].ok
       THEN /\ ret' = "true"
            /\ UNCHANGED <<phase, cancelled, results, kept, todo, pc, started,
                           pos, got, tasks>>
       ELSE /\ phase' = "retry" /\ kept' = results
            /\ todo' = [i \in 1 .. Len(Failed) |-> Failed[i].id + 1]
            /\ cancelled' = [cancelled EXCEPT !["retry"] = FALSE]
            /\ EnterExecuteFull

Cancel ==
    /\ cancelled' = [cancelled EXCEPT !["batch"] = TRUE]
    /\ stopping' = TRUE
    /\ UNCHANGED <<batch, loop, task, ok, tries, sends, late>>

-----------------------------------------------------------------------------
(* A task: executeWithRetry.                                               *)
Check(k) ==
    /\ task[k] = "check"
    /\ task' = [task EXCEPT ![k] = IF cancelled[Own] THEN "ready" ELSE "send"]
    /\ UNCHANGED <<batch, cancelled, loop, ok, tries, sends, stopping, late>>

\* The history counters stop at MaxRetries + 2, one more than they may reach.
OneMore(n) == IF n < MaxRetries + 2 THEN n + 1 ELSE n

Send(k) ==
    /\ task[k] = "send"
    /\ task' = [task EXCEPT ![k] = "sending"]
    /\ sends' = [sends EXCEPT ![k] = OneMore(@)]
    /\ late' = IF stopping THEN [late EXCEPT ![k] = OneMore(@)] ELSE late
    /\ UNCHANGED <<batch, cancelled, loop, ok, tries, stopping>>

\* A faulty variant: one retry too many.
LastTryOffByOne(k) == tries[k] > MaxRetries

LastTry(k) == tries[k] >= MaxRetries

Response(k) ==
    /\ task[k] = "sending"
    /\ \E b \in BOOLEAN :
          /\ ok' = [ok EXCEPT ![k] = b]
          /\ task' = [task EXCEPT ![k] = IF b \/ LastTry(k) THEN "ready" ELSE "delay"]
    /\ UNCHANGED <<batch, cancelled, loop, tries, sends, stopping, late>>

\* A faulty variant: a retry does not look at the flag.
AgainAlways(k) == "send"

Again(k) ==
    IF tries[k] + 1 <= MaxRetries /\ ~cancelled[Own] THEN "check" ELSE "ready"

\* A faulty variant: the retries are not counted.
RetryUncounted(k) ==
    /\ task[k] = "delay"
    /\ task' = [task EXCEPT ![k] = Again(k)]
    /\ UNCHANGED <<batch, cancelled, loop, ok, tries, sends, stopping, late>>

Retry(k) ==
    /\ task[k] = "delay"
    /\ tries' = [tries EXCEPT ![k] = @ + 1]
    /\ task' = [task EXCEPT ![k] = Again(k)]
    /\ UNCHANGED <<batch, cancelled, loop, ok, sends, stopping, late>>

Task(k) == Check(k) \/ Send(k) \/ Response(k) \/ Retry(k)

-----------------------------------------------------------------------------
(* executeFull.                                                            *)
Launch ==
    /\ pc = "launch" /\ started < Len(todo) /\ ~cancelled[Own]
    /\ started' = started + 1
    /\ task' = [task EXCEPT ![started + 1] = "check"]
    /\ pc' = IF strategy = "StopOnFailure" THEN "poll" ELSE "launch"
    /\ pos' = 1
    /\ UNCHANGED <<batch, cancelled, got, ret, ok, tries, sends, stopping, late>>

\* All requests are started, or the batch is cancelled.
StopLaunching ==
    /\ pc = "launch" /\ (started = Len(todo) \/ cancelled[Own])
    /\ pc' = "collect" /\ pos' = 1
    /\ UNCHANGED <<batch, cancelled, started, got, ret, tasks>>

ResultOf(k) == [id |-> k - 1, req |-> todo[k], ok |-> ok[k]]

\* A faulty variant: a result that failed is not kept.
TakeSuccess(k) ==
    /\ got' = got \cup {k}
    /\ results' = IF ok[k] THEN Append(results, ResultOf(k)) ELSE results

Take(k) == got' = got \cup {k} /\ results' = Append(results, ResultOf(k))

\* wait_for or get on a future that get() has emptied throws future_error.
Throw == pc' = "thrown" /\ UNCHANGED <<pos, got, results, ret, cancelled, stopping>>

Poll ==
    /\ pc = "poll" /\ pos <= started
    /\ \/ pos \in got /\ Throw
       \/ pos \notin got /\ task[pos] # "ready" /\ pos' = pos + 1
          /\ UNCHANGED <<pc, got, results, ret, cancelled, stopping>>
       \/ pos \notin got /\ task[pos] = "ready" /\ Take(pos)
          /\ IF ok[pos]
             THEN pos' = pos + 1 /\ UNCHANGED <<pc, ret, cancelled, stopping>>
             ELSE /\ cancelled' = [cancelled EXCEPT ![Own] = TRUE]
                  /\ stopping' = TRUE
                  /\ pc' = "join" /\ ret' = "false" /\ UNCHANGED pos
    /\ UNCHANGED <<strategy, phase, calls, kept, todo, started, task, ok, tries, sends, late>>

PollDone ==
    /\ pc = "poll" /\ pos = started + 1
    /\ pc' = "launch"
    /\ UNCHANGED <<batch, cancelled, started, pos, got, ret, tasks>>

Collect ==
    /\ pc = "collect" /\ pos <= started
    /\ \/ pos \in got /\ Throw
       \/ pos \notin got /\ task[pos] = "ready" /\ Take(pos) /\ pos' = pos + 1
          /\ UNCHANGED <<pc, ret, cancelled, stopping>>
    /\ UNCHANGED <<strategy, phase, calls, kept, todo, started, task, ok, tries, sends, late>>

\* A faulty variant: only the last result is looked at.
LastSucceeded == IF results = <<>> \/ results[Len(results)].ok THEN "true" ELSE "false"

AllSucceeded == IF \A i \in DOMAIN results : results[i].ok THEN "true" ELSE "false"

Collected ==
    /\ pc = "collect" /\ pos = started + 1
    /\ pc' = "join" /\ ret' = AllSucceeded
    /\ UNCHANGED <<batch, cancelled, started, pos, got, tasks>>

\* retryFailed stores each result at the index it has in the RetryBatch.
Merged ==
    [i \in 1 .. Len(kept) |->
        IF \E j \in DOMAIN results : results[j].id = i - 1
        THEN results[CHOOSE j \in DOMAIN results : results[j].id = i - 1]
        ELSE kept[i]]

\* The futures are destroyed, which waits for the tasks.
Leave ==
    /\ pc = "join" /\ \A k \in 1 .. started : task[k] = "ready"
    /\ pc' = "out"
    /\ IF phase = "retry"
       THEN phase' = "retried" /\ results' = Merged
       ELSE phase' = "executed" /\ UNCHANGED results
    /\ UNCHANGED <<strategy, calls, kept, todo, cancelled, started, pos, got, ret, tasks>>

ExecuteFull ==
    \/ Launch \/ StopLaunching \/ Poll \/ PollDone
    \/ Collect \/ Collected \/ Leave

Next ==
    \/ Execute \/ RetryFailed \/ Cancel
    \/ ExecuteFull
    \/ \E k \in Slots : Task(k)

(* The threads of the batch go on; nobody has to call it or cancel it.     *)
Fairness ==
    /\ WF_vars(ExecuteFull)
    /\ \A k \in Slots : WF_vars(Task(k))

Spec == Init /\ [][Next]_vars /\ Fairness

-----------------------------------------------------------------------------
(* Properties.                                                             *)
Result == [id : 0 .. N - 1, req : Slots, ok : BOOLEAN]

\* The type invariant.
TypeOK ==
    /\ strategy \in Strategies
    /\ phase \in {"new", "first", "executed", "retry", "retried"}
    /\ calls \in 0 .. MaxCalls
    /\ cancelled \in [{"batch", "retry"} -> BOOLEAN]
    /\ results \in Seq(Result) /\ kept \in Seq(Result)
    /\ todo \in Seq(Slots) /\ Len(todo) <= N
    /\ pc \in {"out", "launch", "poll", "collect", "join", "thrown"}
    /\ started \in 0 .. N /\ pos \in 1 .. N + 1 /\ got \subseteq Slots
    /\ ret \in {"none", "true", "false"}
    /\ task \in [Slots -> {"none", "check", "send", "sending", "delay", "ready"}]
    /\ ok \in [Slots -> BOOLEAN]
    /\ tries \in [Slots -> 0 .. MaxRetries]
    /\ stopping \in BOOLEAN
    /\ sends \in [Slots -> 0 .. MaxRetries + 1]
    /\ late \in [Slots -> 0 .. MaxRetries + 1]

(* A request is sent MaxRetries times more at most, whatever the answers   *)
(* and whenever cancel() comes.                                            *)
RetriesBounded == \A k \in Slots : sends[k] <= MaxRetries + 1

(* While execute runs, each task sends at most one more request after      *)
(* cancel() or after the failure that stops the batch: the one it had      *)
(* already been cleared to send.                                           *)
CancelStopsExecute == phase = "first" => \A k \in Slots : late[k] <= 1

(* If nobody cancels, execute returns true only when each of the N         *)
(* requests has a result of its own that succeeded.                        *)
TrueUnlessCancelled ==
    phase = "executed" /\ ret = "true" /\ ~cancelled["batch"] =>
        /\ Len(results) = N
        /\ \A k \in Slots : results[k].req = k /\ results[k].ok /\ ok[k]

(* When execute returns false a result that failed is in Results, so that  *)
(* retryFailed has something to retry.                                     *)
FalseHasFailure ==
    phase = "executed" /\ ret = "false" => \E i \in DOMAIN results : ~results[i].ok

\* A call comes to its end, cancelled or not: it returns or it throws.
EveryCallEnds == ~Idle ~> Idle \/ pc = "thrown"

-----------------------------------------------------------------------------
(* What the header says and the code does not do.                          *)

\* retryFailed updates the result of the request it retried.
RetryUpdatesItsOwn ==
    phase = "retried" => \A i \in DOMAIN results : results[i].req = i

=============================================================================
