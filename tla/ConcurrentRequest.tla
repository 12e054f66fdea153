------------------------- MODULE ConcurrentRequest -------------------------
(***************************************************************************)
(* ConcurrentRequestManager of blocktype/AI/ConcurrentRequest.cpp: callers *)
(* of sendConcurrentWithProgress share one manager, each request runs in a *)
(* task of std::async, and another thread may be in waitForAll.            *)
(*                                                                         *)
(* ActiveRequests is atomic, everything else a caller touches is its own.  *)
(* A step of a caller is the code between two accesses to the counter or   *)
(* to a future.  A request is answered in finite time (HTTPClient bounds   *)
(* it); the 10 ms sleeps of the waiting loops are left out.                *)
(***************************************************************************)
EXTENDS Integers, Sequences, FiniteSets

CONSTANTS
    Callers,         \* threads in sendConcurrentWithProgress
    Size,            \* Requests.size() of each caller's call
    MaxConcurrent    \* Config.MaxConcurrentRequests

ASSUME ConcurrentRequestAssumption ==
    /\ IsFiniteSet(Callers)
    /\ Size \in [Callers -> Nat]
    /\ MaxConcurrent \in Nat \ {0}

VARIABLES
    failFast,   \* Config.FailFast, the same for the life of the manager
    active,     \* ActiveRequests
    task,       \* the state of each request's task
    ok,         \* Result.Success of the requests that were answered
    pc,         \* where each caller is
    started,    \* Futures.size(), the loop variable of the launching loop
    pos,        \* position of the polling or collecting loop in Futures
    got,        \* the futures get() was called on
    results,    \* Results
    waiter      \* where the thread in waitForAll is

callerVars == <<pc, started, pos, got, results>>
vars == <<failFast, active, task, ok, callerVars, waiter>>

Ids(c) == 0 .. Size[c] - 1
Tasks == UNION {{c} \X Ids(c) : c \in Callers}

Init ==
    /\ failFast \in BOOLEAN
    /\ active = 0
    /\ task = [t \in Tasks |-> "none"]
    /\ ok = [t \in Tasks |-> FALSE]
    /\ pc = [c \in Callers |-> "slot"]
    /\ started = [c \in Callers |-> 0]
    /\ pos = [c \in Callers |-> 0]
    /\ got = {}
    /\ results = [c \in Callers |-> <<>>]
    /\ waiter = "idle"

-----------------------------------------------------------------------------
(* The task of a request: sendSingle's lambda.                             *)
Send(t) ==
    /\ task[t] = "launched"
    /\ task' = [task EXCEPT ![t] = "sending"]
    /\ active' = active + 1
    /\ UNCHANGED <<failFast, ok, callerVars, waiter>>

\* A faulty variant: a failure decrements the counter on its own path too.
AnswerTwice(t) ==
    /\ task[t] = "sending"
    /\ task' = [task EXCEPT ![t] = "answered"]
    /\ \E b \in BOOLEAN : /\ ok' = [ok EXCEPT ![t] = b]
                          /\ active' = active - (IF b THEN 1 ELSE 2)
    /\ UNCHANGED <<failFast, callerVars, waiter>>

\* A faulty variant: the counter is not decremented when the request fails.
AnswerLeaks(t) ==
    /\ task[t] = "sending"
    /\ task' = [task EXCEPT ![t] = "answered"]
    /\ \E b \in BOOLEAN : /\ ok' = [ok EXCEPT ![t] = b]
                          /\ active' = IF b THEN active - 1 ELSE active
    /\ UNCHANGED <<failFast, callerVars, waiter>>

Answer(t) ==
    /\ task[t] = "sending"
    /\ task' = [task EXCEPT ![t] = "answered"]
    /\ \E b \in BOOLEAN : ok' = [ok EXCEPT ![t] = b]
    /\ active' = active - 1
    /\ UNCHANGED <<failFast, callerVars, waiter>>

\* The lambda returns and its future becomes ready.
Return(t) ==
    /\ task[t] = "answered"
    /\ task' = [task EXCEPT ![t] = "ready"]
    /\ UNCHANGED <<failFast, active, ok, callerVars, waiter>>

-----------------------------------------------------------------------------
(* A caller of sendConcurrentWithProgress.                                 *)
Goto(c, l) == pc' = [pc EXCEPT ![c] = l]
MoveTo(c, p) == pos' = [pos EXCEPT ![c] = p]

\* The launching loop waits for a free slot, then starts the next request.
FindSlot(c) ==
    /\ pc[c] = "slot" /\ started[c] < Size[c]
    /\ active < MaxConcurrent
    /\ Goto(c, "launch")
    /\ UNCHANGED <<failFast, active, task, ok, started, pos, got, results, waiter>>

Launch(c) ==
    /\ pc[c] = "launch"
    /\ task' = [task EXCEPT ![<<c, started[c]>>] = "launched"]
    /\ started' = [started EXCEPT ![c] = @ + 1]
    /\ MoveTo(c, 0)
    /\ Goto(c, IF failFast THEN "poll" ELSE "slot")
    /\ UNCHANGED <<failFast, active, ok, got, results, waiter>>

\* All requests are started: on to the collecting loop.
Launched(c) ==
    /\ pc[c] = "slot" /\ started[c] = Size[c]
    /\ MoveTo(c, 0) /\ Goto(c, "collect")
    /\ UNCHANGED <<failFast, active, task, ok, started, got, results, waiter>>

\* wait_for or get on a future that get() has emptied throws future_error.
Throw(c) ==
    /\ Goto(c, "thrown")
    /\ UNCHANGED <<pos, got, results>>

\* A faulty variant: the last result replaces the one before it.
TakeOver(c, f) ==
    /\ got' = got \cup {f}
    /\ results' = [results EXCEPT ![c] = <<[id |-> f[2], ok |-> ok[f]]>>]

Take(c, f) ==
    /\ got' = got \cup {f}
    /\ results' = [results EXCEPT ![c] = Append(@, [id |-> f[2], ok |-> ok[f]])]

\* A faulty variant: any answer ends a FailFast call.
EndsAtAnswer(f) == TRUE

EndsCall(f) == ~ok[f]

\* The FailFast loop looks at every future started so far.
Poll(c) ==
    LET f == <<c, pos[c]>> IN
    /\ pc[c] = "poll" /\ pos[c] < started[c]
    /\ \/ f \in got /\ Throw(c)
       \/ f \notin got /\ task[f] # "ready"
          /\ MoveTo(c, pos[c] + 1) /\ UNCHANGED <<pc, got, results>>
       \/ f \notin got /\ task[f] = "ready" /\ Take(c, f)
          /\ IF EndsCall(f) THEN Goto(c, "join") /\ UNCHANGED pos
             ELSE MoveTo(c, pos[c] + 1) /\ UNCHANGED pc
    /\ UNCHANGED <<failFast, active, task, ok, started, waiter>>

PollDone(c) ==
    /\ pc[c] = "poll" /\ pos[c] = started[c]
    /\ Goto(c, "slot")
    /\ UNCHANGED <<failFast, active, task, ok, started, pos, got, results, waiter>>

\* The collecting loop waits for each future in turn.
Collect(c) ==
    LET f == <<c, pos[c]>> IN
    /\ pc[c] = "collect" /\ pos[c] < Size[c]
    /\ \/ f \in got /\ Throw(c)
       \/ f \notin got /\ task[f] = "ready"
          /\ Take(c, f) /\ MoveTo(c, pos[c] + 1) /\ UNCHANGED pc
    /\ UNCHANGED <<failFast, active, task, ok, started, waiter>>

Collected(c) ==
    /\ pc[c] = "collect" /\ pos[c] = Size[c]
    /\ Goto(c, "join")
    /\ UNCHANGED <<failFast, active, task, ok, started, pos, got, results, waiter>>

\* The destructor of a future of std::async waits for its task.
Joined(c) == \A i \in Ids(c) : task[<<c, i>>] \in {"none", "ready"}

ReturnResults(c) ==
    /\ pc[c] = "join" /\ Joined(c)
    /\ Goto(c, "returned")
    /\ UNCHANGED <<failFast, active, task, ok, started, pos, got, results, waiter>>

Caller(c) ==
    \/ FindSlot(c) \/ Launch(c) \/ Launched(c)
    \/ Poll(c) \/ PollDone(c) \/ Collect(c) \/ Collected(c) \/ ReturnResults(c)

-----------------------------------------------------------------------------
(* waitForAll.                                                             *)
WaitForAll ==
    /\ waiter = "idle"
    /\ waiter' = "waiting"
    /\ UNCHANGED <<failFast, active, task, ok, callerVars>>

NoneActive ==
    /\ waiter = "waiting" /\ active = 0
    /\ waiter' = "returned"
    /\ UNCHANGED <<failFast, active, task, ok, callerVars>>

Next ==
    \/ \E t \in Tasks : Send(t) \/ Answer(t) \/ Return(t)
    \/ \E c \in Callers : Caller(c)
    \/ WaitForAll \/ NoneActive

(* Every thread that can go on does; nothing makes waitForAll be called.   *)
Fairness ==
    /\ \A t \in Tasks : WF_vars(Send(t) \/ Answer(t) \/ Return(t))
    /\ \A c \in Callers : WF_vars(Caller(c))
    /\ WF_vars(NoneActive)

Spec == Init /\ [][Next]_vars /\ Fairness

-----------------------------------------------------------------------------
(* Properties.                                                             *)
Result == [id : Nat, ok : BOOLEAN]

\* A call ends with its results, or in an exception.
Ended(c) == pc[c] \in {"returned", "thrown"}

\* The type invariant.
TypeOK ==
    /\ failFast \in BOOLEAN
    /\ active \in 0 .. Cardinality(Tasks)
    /\ task \in [Tasks -> {"none", "launched", "sending", "answered", "ready"}]
    /\ ok \in [Tasks -> BOOLEAN]
    /\ pc \in [Callers -> {"slot", "launch", "poll", "collect", "join",
                           "returned", "thrown"}]
    /\ started \in [Callers -> Nat] /\ pos \in [Callers -> Nat]
    /\ \A c \in Callers : started[c] <= Size[c] /\ pos[c] <= Size[c]
    /\ got \subseteq Tasks
    /\ results \in [Callers -> Seq(Result)]
    /\ waiter \in {"idle", "waiting", "returned"}

(* ActiveRequests is the number of requests with the provider: a request   *)
(* that fails leaves it like one that succeeds, or the callers would wait  *)
(* for a slot for ever.                                                    *)
ActiveIsExact == active = Cardinality({t \in Tasks : task[t] = "sending"})

(* Without FailFast no future is asked twice, and a call returns a result  *)
(* for each request, in order, each with the outcome of its own request.   *)
ResultsInOrder ==
    \A c \in Callers : ~failFast /\ Ended(c) =>
        /\ pc[c] = "returned"
        /\ results[c] = [i \in 1 .. Size[c] |-> [id |-> i - 1, ok |-> ok[<<c, i - 1>>]]]

(* With FailFast a call that returns fewer results ends at a failure.      *)
ShortOnlyAfterFailure ==
    \A c \in Callers :
        pc[c] = "returned" /\ failFast /\ Len(results[c]) < Size[c] =>
            results[c] # <<>> /\ ~results[c][Len(results[c])].ok

(* Every call comes to its end and so does waitForAll: no caller waits for *)
(* a slot that is never given back.                                        *)
EveryCallEnds ==
    /\ \A c \in Callers : <>Ended(c)
    /\ waiter = "waiting" ~> waiter = "returned"
=============================================================================
