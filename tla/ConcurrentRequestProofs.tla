----------------------- MODULE ConcurrentRequestProofs ----------------------
(***************************************************************************)
(* Theorems about ConcurrentRequest, for every finite set of callers, any  *)
(* number of requests of each and any number of slots.                     *)
(***************************************************************************)
EXTENDS ConcurrentRequest, Functions, FiniteSetTheorems, TLAPS

-----------------------------------------------------------------------------
(* The tasks.                                                              *)

LEMMA TaskOf ==
    /\ \A c \in Callers, i \in Nat : i < Size[c] <=> <<c, i>> \in Tasks
    /\ \A t \in Tasks : t \in Callers \X Nat
BY ConcurrentRequestAssumption DEF Tasks, Ids

LEMMA TasksFinite == IsFiniteSet(Tasks)
<1> DEFINE Of(c) == {c} \X Ids(c)
           f == [c \in Callers |-> Of(c)]
           S == {Of(c) : c \in Callers}
<1>1. f \in Surjection(Callers, S)
  BY DEF Surjection
<1>2. IsFiniteSet(S)
  BY <1>1, FS_Surjection, ConcurrentRequestAssumption
<1>3. ASSUME NEW c \in Callers PROVE IsFiniteSet(Of(c))
  <2>1. IsFiniteSet(Ids(c))
    BY FS_Interval, ConcurrentRequestAssumption DEF Ids
  <2>2. IsFiniteSet({c})
    BY FS_Singleton
  <2>3. QED
    BY <2>1, <2>2, FS_Product
<1>4. \A T \in S : IsFiniteSet(T)
  BY <1>3
<1>5. IsFiniteSet(UNION S)
  BY <1>2, <1>4, FS_UNION
<1>6. QED
  BY <1>5 DEF Tasks

TaskStates == {"none", "launched", "sending", "answered", "ready"}
Places == {"slot", "launch", "poll", "collect", "join", "returned", "thrown"}

-----------------------------------------------------------------------------
(* The counter.                                                            *)

Sending == {t \in Tasks : task[t] = "sending"}

Tasked == task \in [Tasks -> TaskStates] /\ active = Cardinality(Sending)

\* The tasks a caller has not started are those beyond its count.
Positions ==
    /\ pc \in [Callers -> Places]
    /\ started \in [Callers -> Nat] /\ pos \in [Callers -> Nat]
    /\ \A c \in Callers :
          /\ started[c] <= Size[c] /\ pos[c] <= Size[c]
          /\ pc[c] = "launch" => started[c] < Size[c]
    /\ \A c \in Callers, i \in Nat :
          <<c, i>> \in Tasks /\ started[c] <= i => task[<<c, i>>] = "none"
    /\ got \subseteq Tasks

CountInv == Tasked /\ Positions

LEMMA SendingFinite == IsFiniteSet(Sending) /\ Cardinality(Sending) \in 0 .. Cardinality(Tasks)
<1>1. Sending \in SUBSET Tasks
  BY DEF Sending
<1>2. QED
  BY <1>1, TasksFinite, FS_Subset, FS_CardinalityType

LEMMA CountInvInit == Init => CountInv
<1> SUFFICES ASSUME Init PROVE CountInv
  OBVIOUS
<1>1. Sending = {}
  BY DEF Init, Sending
<1>2. Tasked
  BY <1>1, FS_EmptySet DEF Init, Tasked, TaskStates
<1>3. Positions
  BY TaskOf, ConcurrentRequestAssumption DEF Init, Positions, Places
<1>4. QED
  BY <1>2, <1>3 DEF CountInv

LEMMA CountInvFrame ==
    CountInv /\ UNCHANGED <<active, task, pc, started, pos, got>> => CountInv'
BY DEF CountInv, Tasked, Positions, Sending

\* A task that is launched changes its state, and its caller nothing.
LEMMA CountInvTask ==
    ASSUME CountInv, NEW t \in Tasks, Send(t) \/ Answer(t) \/ Return(t)
    PROVE  CountInv'
<1>0. /\ task[t] # "none" /\ \A u \in Tasks : u # t => task'[u] = task[u]
      /\ task' \in [Tasks -> TaskStates]
      /\ UNCHANGED <<pc, started, pos, got>>
  BY DEF CountInv, Tasked, TaskStates, Send, Answer, Return, callerVars
<1>1. Positions'
  BY <1>0 DEF CountInv, Positions
<1>2. CASE Send(t)
  <2>1. Sending' = Sending \cup {t} /\ t \notin Sending
    BY <1>2 DEF Sending, CountInv, Tasked, Send
  <2>2. active' = Cardinality(Sending')
    BY <1>2, <2>1, SendingFinite, FS_AddElement DEF CountInv, Tasked, Send
  <2>3. QED
    BY <1>0, <1>1, <2>2 DEF CountInv, Tasked
<1>3. CASE Answer(t)
  <2>1. Sending' = Sending \ {t} /\ t \in Sending
    BY <1>3 DEF Sending, CountInv, Tasked, Answer
  <2>2. active' = Cardinality(Sending')
    BY <1>3, <2>1, SendingFinite, FS_RemoveElement DEF CountInv, Tasked, Answer
  <2>3. QED
    BY <1>0, <1>1, <2>2 DEF CountInv, Tasked
<1>4. CASE Return(t)
  <2>1. Sending' = Sending
    BY <1>4 DEF Sending, CountInv, Tasked, Return
  <2>2. QED
    BY <1>0, <1>1, <1>4, <2>1 DEF CountInv, Tasked, Return
<1>5. QED
  BY <1>2, <1>3, <1>4

LEMMA CountInvLaunch ==
    ASSUME CountInv, NEW c \in Callers, Launch(c) PROVE CountInv'
<1> DEFINE t == <<c, started[c]>>
<1>1. /\ t \in Tasks /\ task[t] = "none"
      /\ task' = [task EXCEPT ![t] = "launched"]
      /\ started' = [started EXCEPT ![c] = @ + 1]
      /\ pos' = [pos EXCEPT ![c] = 0]
      /\ \E l \in {"poll", "slot"} : pc' = [pc EXCEPT ![c] = l]
      /\ UNCHANGED <<active, got>>
  <2>1. started[c] \in Nat /\ started[c] < Size[c]
    BY DEF CountInv, Positions, Launch
  <2>2. t \in Tasks /\ task[t] = "none"
    BY <2>1, TaskOf DEF CountInv, Positions
  <2>3. QED
    BY <2>2 DEF Launch, Goto, MoveTo
<1>2. task' \in [Tasks -> TaskStates] /\ Sending' = Sending
  BY <1>1 DEF CountInv, Tasked, TaskStates, Sending
<1>3. /\ started' \in [Callers -> Nat] /\ pos' \in [Callers -> Nat] /\ pc' \in [Callers -> Places]
      /\ \A d \in Callers : started'[d] = (IF d = c THEN started[d] + 1 ELSE started[d])
      /\ \A d \in Callers : pos'[d] = (IF d = c THEN 0 ELSE pos[d])
      /\ pc'[c] # "launch" /\ \A d \in Callers : d # c => pc'[d] = pc[d]
  BY <1>1 DEF CountInv, Positions, Places
<1>4. ASSUME NEW d \in Callers
      PROVE  /\ started'[d] <= Size[d] /\ pos'[d] <= Size[d]
             /\ pc'[d] = "launch" => started'[d] < Size[d]
  BY <1>3, ConcurrentRequestAssumption DEF CountInv, Positions, Launch
<1>5. ASSUME NEW d \in Callers, NEW i \in Nat, <<d, i>> \in Tasks, started'[d] <= i
      PROVE  task'[<<d, i>>] = "none"
  <2>1. started[d] <= i /\ <<d, i>> # t
    BY <1>3, <1>5 DEF CountInv, Positions
  <2>2. QED
    BY <1>1, <1>5, <2>1 DEF CountInv, Tasked, Positions
<1>6. Positions'
  BY <1>1, <1>3, <1>4, <1>5 DEF CountInv, Positions
<1>7. QED
  BY <1>1, <1>2, <1>6 DEF CountInv, Tasked

\* The other steps of a caller start nothing.
LEMMA CountInvCaller ==
    ASSUME CountInv, NEW c \in Callers, Caller(c), ~Launch(c) PROVE CountInv'
<1>1. UNCHANGED <<active, task, started>>
  BY DEF Caller, FindSlot, Launched, Poll, PollDone, Collect, Collected, ReturnResults
<1>2. /\ pc' \in [Callers -> Places]
      /\ \A d \in Callers : pc'[d] = "launch" => started[d] < Size[d]
  <2>1. CASE FindSlot(c)
    BY <2>1 DEF FindSlot, Goto, CountInv, Positions, Places
  <2>2. CASE Launched(c)
    BY <2>2 DEF Launched, Goto, CountInv, Positions, Places
  <2>3. CASE Poll(c)
    BY <2>3 DEF Poll, Throw, Goto, CountInv, Positions, Places
  <2>4. CASE PollDone(c)
    BY <2>4 DEF PollDone, Goto, CountInv, Positions, Places
  <2>5. CASE Collect(c)
    BY <2>5 DEF Collect, Throw, Goto, CountInv, Positions, Places
  <2>6. CASE Collected(c) \/ ReturnResults(c)
    BY <2>6 DEF Collected, ReturnResults, Goto, CountInv, Positions, Places
  <2>7. QED
    BY <2>1, <2>2, <2>3, <2>4, <2>5, <2>6 DEF Caller
<1>3. /\ pos' \in [Callers -> Nat] /\ \A d \in Callers : pos'[d] <= Size[d]
  <2>1. CASE pos' = pos
    BY <2>1 DEF CountInv, Positions
  <2>2. CASE pos' = [pos EXCEPT ![c] = 0]
    <3>1. pos \in [Callers -> Nat] /\ 0 <= Size[c] /\ \A d \in Callers : pos[d] <= Size[d]
      BY ConcurrentRequestAssumption DEF CountInv, Positions
    <3>2. QED
      BY <2>2, <3>1
  <2>3. CASE pos[c] < Size[c] /\ pos' = [pos EXCEPT ![c] = pos[c] + 1]
    <3>1. pos \in [Callers -> Nat] /\ Size[c] \in Nat /\ \A d \in Callers : pos[d] <= Size[d]
      BY ConcurrentRequestAssumption DEF CountInv, Positions
    <3>2. pos' \in [Callers -> Nat] /\ pos'[c] = pos[c] + 1
      BY <2>3, <3>1
    <3>3. pos'[c] <= Size[c]
      <4>1. pos[c] \in Nat /\ pos[c] < Size[c]
        BY <2>3, <3>1
      <4>2. QED
        BY <3>1, <3>2, <4>1
    <3>4. QED
      BY <2>3, <3>1, <3>2, <3>3
  <2>4. pos[c] < started[c] => pos[c] < Size[c]
    BY ConcurrentRequestAssumption DEF CountInv, Positions
  <2>5. Poll(c) => UNCHANGED pos \/ (pos[c] < started[c] /\ MoveTo(c, pos[c] + 1))
    BY DEF Poll, Throw
  <2>6. Collect(c) => UNCHANGED pos \/ (pos[c] < Size[c] /\ MoveTo(c, pos[c] + 1))
    BY DEF Collect, Throw
  <2>7. Launched(c) => MoveTo(c, 0)
    BY DEF Launched
  <2>8. UNCHANGED pos \/ Poll(c) \/ Collect(c) \/ Launched(c)
    BY DEF Caller, FindSlot, PollDone, Collected, ReturnResults
  <2>9. QED
    BY <2>1, <2>2, <2>3, <2>4, <2>5, <2>6, <2>7, <2>8 DEF MoveTo
<1>4. got' \subseteq Tasks
  <2>1. pos[c] < started[c] \/ pos[c] < Size[c] => <<c, pos[c]>> \in Tasks
    BY TaskOf, ConcurrentRequestAssumption DEF CountInv, Positions
  <2>2. QED
    BY <2>1
    DEF CountInv, Positions, Caller, FindSlot, Launched, Poll, PollDone, Collect, Collected,
        ReturnResults, Throw, Take
<1>5. QED
  BY <1>1, <1>2, <1>3, <1>4 DEF CountInv, Tasked, Positions, Sending

LEMMA CountInvStep == CountInv /\ [Next]_vars => CountInv'
<1> SUFFICES ASSUME CountInv, [Next]_vars PROVE CountInv'
  OBVIOUS
<1>1. CASE UNCHANGED vars \/ WaitForAll \/ NoneActive
  BY <1>1, CountInvFrame DEF vars, callerVars, WaitForAll, NoneActive
<1>2. QED
  BY <1>1, CountInvTask, CountInvLaunch, CountInvCaller DEF Next

LEMMA CountInvAlways == Spec => []CountInv
BY CountInvInit, CountInvStep, PTL DEF Spec

(* ActiveRequests is the number of requests with the provider, whatever    *)
(* the number of callers that share the manager.                           *)
THEOREM SpecActiveIsExact == Spec => []ActiveIsExact
<1>1. CountInv => ActiveIsExact
  BY DEF CountInv, Tasked, Sending, ActiveIsExact
<1>2. QED
  BY <1>1, CountInvAlways, PTL

-----------------------------------------------------------------------------
(* The results.                                                            *)

ResultOf(c, i) == [id |-> i, ok |-> ok[<<c, i>>]]

\* The first n requests are answered, and results are theirs.
InOrder(c, n) ==
    /\ Len(results[c]) = n
    /\ \A i \in 1 .. n : results[c][i] = ResultOf(c, i - 1) /\ task[<<c, i - 1>>] = "ready"

Untouched(c) == \A i \in Nat : <<c, i>> \notin got

EndsInFailure(c) ==
    results[c] # <<>> /\ results[c][Len(results[c])] \in [id : Nat, ok : {FALSE}]

\* The collecting loop has the results in order, or is about to throw at a
\* future that the FailFast loop has emptied; without FailFast there is none.
Outcome(c) ==
    /\ pc[c] \in {"slot", "launch", "poll"} /\ Untouched(c) => results[c] = <<>>
    /\ pc[c] = "collect" =>
          InOrder(c, pos[c]) \/ \E i \in Nat : <<c, i>> \in got /\ pos[c] <= i
    /\ pc[c] \in {"join", "returned"} =>
          InOrder(c, Size[c]) \/ (failFast /\ EndsInFailure(c))
    /\ ~failFast =>
          /\ pc[c] \notin {"poll", "thrown"}
          /\ pc[c] \in {"slot", "launch"} => Untouched(c)
          /\ \A i \in Nat : <<c, i>> \in got => i < pos[c]

Lists == results \in [Callers -> Seq(Result)]
Oks == ok \in [Tasks -> BOOLEAN]

OutcomeInv == Oks /\ Lists /\ \A c \in Callers : Outcome(c)

LEMMA OutcomeInvInit == Init => OutcomeInv
<1> SUFFICES ASSUME Init PROVE OutcomeInv
  OBVIOUS
<1>1. Oks
  BY DEF Init, Oks
<1>2. Lists
  BY DEF Init, Lists
<1>3. ASSUME NEW c \in Callers PROVE Outcome(c)
  BY <1>3 DEF Init, Outcome, Untouched
<1>4. QED
  BY <1>1, <1>2, <1>3 DEF OutcomeInv

\* What a step leaves of a caller it does not move.
LEMMA OutcomeFrame ==
    ASSUME CountInv, NEW c \in Callers, Outcome(c),
           failFast' = failFast, pc'[c] = pc[c], pos'[c] = pos[c], results'[c] = results[c],
           \A i \in Nat : <<c, i>> \in got' <=> <<c, i>> \in got,
           \A t \in Tasks : task[t] = "ready" => task'[t] = "ready" /\ ok'[t] = ok[t]
    PROVE  Outcome(c)'
<1>1. ASSUME NEW n \in Nat, n <= Size[c], InOrder(c, n) PROVE InOrder(c, n)'
  <2>1. ASSUME NEW i \in 1 .. n PROVE <<c, i - 1>> \in Tasks
    BY <1>1, TaskOf, ConcurrentRequestAssumption
  <2>2. QED
    BY <1>1, <2>1 DEF InOrder, ResultOf
<1>2. Untouched(c)' <=> Untouched(c)
  BY DEF Untouched
<1>3. EndsInFailure(c)' <=> EndsInFailure(c)
  BY DEF EndsInFailure
<1>4. pos[c] \in Nat /\ Size[c] \in Nat /\ pos[c] <= Size[c]
  BY ConcurrentRequestAssumption DEF CountInv, Positions
<1>5. (InOrder(c, pos[c]) => InOrder(c, pos[c])') /\ (InOrder(c, Size[c]) => InOrder(c, Size[c])')
  BY <1>1, <1>4
<1>6. QED
  BY <1>2, <1>3, <1>5 DEF Outcome

LEMMA OutcomeInvTask ==
    ASSUME CountInv, OutcomeInv, NEW t \in Tasks, Send(t) \/ Answer(t) \/ Return(t)
    PROVE  OutcomeInv'
<1>1. /\ task[t] # "ready" /\ \A u \in Tasks : u # t => task'[u] = task[u]
      /\ UNCHANGED <<failFast, callerVars>>
  BY DEF CountInv, Tasked, Send, Answer, Return
<1>2. Oks' /\ \A u \in Tasks : u # t => ok'[u] = ok[u]
  <2>1. CASE UNCHANGED ok
    BY <2>1 DEF OutcomeInv, Oks
  <2>2. CASE \E b \in BOOLEAN : ok' = [ok EXCEPT ![t] = b]
    BY <2>2 DEF OutcomeInv, Oks
  <2>3. QED
    BY <2>1, <2>2 DEF Send, Answer, Return
<1>3. ASSUME NEW c \in Callers PROVE Outcome(c)'
  BY <1>1, <1>2, <1>3, OutcomeFrame DEF OutcomeInv, callerVars
<1>4. Lists'
  BY <1>1 DEF OutcomeInv, Lists, callerVars
<1>5. QED
  BY <1>2, <1>3, <1>4 DEF OutcomeInv

\* A step of caller c that reaches no future, as far as c is concerned.
LEMMA OutcomeQuiet ==
    ASSUME CountInv, NEW c \in Callers, Outcome(c),
           FindSlot(c) \/ Launch(c) \/ Launched(c) \/ PollDone(c) \/ Collected(c)
             \/ ReturnResults(c)
    PROVE  Outcome(c)'
<1>0. /\ pc \in [Callers -> Places] /\ pos \in [Callers -> Nat] /\ started \in [Callers -> Nat]
      /\ Size[c] \in Nat
  BY ConcurrentRequestAssumption DEF CountInv, Positions
<1>1. UNCHANGED <<failFast, ok, got, results>>
  BY DEF FindSlot, Launch, Launched, PollDone, Collected, ReturnResults
<1>2. Untouched(c)' <=> Untouched(c)
  BY <1>1 DEF Untouched
<1>3. CASE FindSlot(c)
  <2>1. pc[c] = "slot" /\ pc'[c] = "launch" /\ pos' = pos
    BY <1>0, <1>3 DEF FindSlot, Goto
  <2>2. QED
    BY <1>1, <1>2, <2>1 DEF Outcome
<1>4. CASE Launch(c)
  <2>1. pc[c] = "launch" /\ pc'[c] = (IF failFast THEN "poll" ELSE "slot") /\ pos'[c] = 0
    BY <1>0, <1>4 DEF Launch, Goto, MoveTo
  <2>2. QED
    BY <1>1, <1>2, <2>1 DEF Outcome, Untouched
<1>5. CASE Launched(c)
  <2>1. pc[c] = "slot" /\ pc'[c] = "collect" /\ pos'[c] = 0
    BY <1>0, <1>5 DEF Launched, Goto, MoveTo
  <2>2. CASE Untouched(c)
    <3>1. Len(results'[c]) = 0
      BY <1>1, <2>1, <2>2 DEF Outcome
    <3>2. InOrder(c, 0)'
      BY <3>1 DEF InOrder
    <3>3. QED
      BY <1>1, <1>2, <2>1, <2>2, <3>2 DEF Outcome, Untouched
  <2>3. CASE ~Untouched(c)
    BY <1>1, <1>2, <2>1, <2>3 DEF Outcome, Untouched
  <2>4. QED
    BY <2>2, <2>3
<1>6. CASE PollDone(c)
  <2>1. pc[c] = "poll" /\ pc'[c] = "slot" /\ pos' = pos
    BY <1>0, <1>6 DEF PollDone, Goto
  <2>2. QED
    BY <1>1, <1>2, <2>1 DEF Outcome
<1>7. CASE Collected(c)
  <2>1. pc[c] = "collect" /\ pos[c] = Size[c] /\ pc'[c] = "join" /\ pos' = pos /\ task' = task
    BY <1>0, <1>7 DEF Collected, Goto
  <2>2. ~\E i \in Nat : <<c, i>> \in got /\ pos[c] <= i
    <3>1. \A i \in Nat : <<c, i>> \in got => i < Size[c]
      BY TaskOf DEF CountInv, Positions
    <3>2. pos[c] = Size[c] /\ Size[c] \in Nat
      BY <1>0, <2>1
    <3>3. ASSUME NEW i \in Nat, <<c, i>> \in got PROVE ~(pos[c] <= i)
      <4>1. i < Size[c]
        BY <3>1, <3>3
      <4>2. QED
        BY <3>2, <4>1
    <3>4. QED
      BY <3>3
  <2>3. InOrder(c, Size[c])'
    BY <1>1, <2>1, <2>2 DEF Outcome, InOrder, ResultOf
  <2>4. QED
    BY <1>1, <1>2, <2>1, <2>3 DEF Outcome
<1>8. CASE ReturnResults(c)
  <2>1. pc[c] = "join" /\ pc'[c] = "returned" /\ pos' = pos /\ task' = task
    BY <1>0, <1>8 DEF ReturnResults, Goto
  <2>2. InOrder(c, Size[c])' <=> InOrder(c, Size[c])
    BY <1>1, <2>1 DEF InOrder, ResultOf
  <2>3. EndsInFailure(c)' <=> EndsInFailure(c)
    BY <1>1 DEF EndsInFailure
  <2>4. QED
    BY <1>1, <1>2, <2>1, <2>2, <2>3 DEF Outcome
<1>9. QED
  BY <1>3, <1>4, <1>5, <1>6, <1>7, <1>8

LEMMA AppendFacts ==
    ASSUME NEW S, NEW s \in Seq(S), NEW e \in S
    PROVE  /\ Len(s) \in Nat /\ Len(Append(s, e)) = Len(s) + 1
           /\ \A i \in 1 .. Len(s) : Append(s, e)[i] = s[i]
           /\ Append(s, e)[Len(s) + 1] = e
           /\ Append(s, e) # <<>>
OBVIOUS

\* A result that is taken is the one after those in the list.
LEMMA TakeResult ==
    ASSUME CountInv, OutcomeInv, NEW c \in Callers, pos[c] < Size[c],
           UNCHANGED <<task, ok>>, Take(c, <<c, pos[c]>>)
    PROVE  /\ Lists'
           /\ \A d \in Callers : d # c => results'[d] = results[d]
           /\ Len(results[c]) \in Nat /\ Len(results'[c]) = Len(results[c]) + 1
           /\ \A i \in 1 .. Len(results[c]) : results'[c][i] = results[c][i]
           /\ results'[c][Len(results'[c])] = ResultOf(c, pos[c])
           /\ results'[c] # <<>>
           /\ got' = got \cup {<<c, pos[c]>>}
<1> DEFINE r == ResultOf(c, pos[c])
<1>1. r \in Result
  <2>1. pos[c] \in Nat
    BY DEF CountInv, Positions
  <2>2. <<c, pos[c]>> \in Tasks
    BY <2>1, TaskOf
  <2>3. ok[<<c, pos[c]>>] \in BOOLEAN
    BY <2>2 DEF OutcomeInv, Oks
  <2>4. QED
    BY <2>1, <2>3 DEF ResultOf, Result
<1>2. results' = [results EXCEPT ![c] = Append(results[c], r)] /\ got' = got \cup {<<c, pos[c]>>}
  BY DEF Take, ResultOf
<1> HIDE DEF r
<1>3. results[c] \in Seq(Result) /\ results \in [Callers -> Seq(Result)]
  BY DEF OutcomeInv, Lists
<1>4. Append(results[c], r) \in Seq(Result)
  BY <1>1, <1>3
<1>5. results'[c] = Append(results[c], r) /\ \A d \in Callers : d # c => results'[d] = results[d]
  BY <1>2, <1>3
<1>6. Lists'
  BY <1>2, <1>3, <1>4 DEF Lists
<1>7. /\ Len(results[c]) \in Nat /\ Len(results'[c]) = Len(results[c]) + 1
      /\ \A i \in 1 .. Len(results[c]) : results'[c][i] = results[c][i]
      /\ results'[c][Len(results'[c])] = r
      /\ results'[c] # <<>>
  BY <1>1, <1>3, <1>5, AppendFacts
<1>8. QED
  BY <1>2, <1>5, <1>6, <1>7 DEF r

LEMMA OutcomePoll ==
    ASSUME CountInv, OutcomeInv, NEW c \in Callers, Poll(c)
    PROVE  Outcome(c)' /\ Lists'
<1>0. /\ pc \in [Callers -> Places] /\ pos \in [Callers -> Nat]
      /\ pc[c] = "poll" /\ pos[c] < Size[c] /\ pos[c] \in Nat
      /\ UNCHANGED <<failFast, task, ok>>
  BY ConcurrentRequestAssumption DEF Poll, CountInv, Positions
<1>1. failFast /\ Outcome(c) /\ Lists
  BY <1>0 DEF OutcomeInv, Outcome
<1>2. CASE Throw(c)
  <2>1. pc'[c] = "thrown" /\ UNCHANGED <<pos, got, results>>
    BY <1>0, <1>2 DEF Throw, Goto
  <2>2. QED
    BY <1>0, <1>1, <2>1 DEF Outcome, Lists
<1>3. CASE UNCHANGED <<pc, got, results>>
  BY <1>0, <1>1, <1>3 DEF Outcome, Untouched, Lists
<1>4. CASE Take(c, <<c, pos[c]>>) /\ UNCHANGED pc
  <2>1. ~Untouched(c)'
    BY <1>0, <1>4, TakeResult DEF Untouched
  <2>2. QED
    BY <1>0, <1>1, <1>4, <2>1, TakeResult DEF Outcome
<1>5. CASE Take(c, <<c, pos[c]>>) /\ Goto(c, "join") /\ ~ok[<<c, pos[c]>>]
  <2>1. pc'[c] = "join"
    BY <1>0, <1>5 DEF Goto
  <2>2. ResultOf(c, pos[c]) \in [id : Nat, ok : {FALSE}]
    <3>1. <<c, pos[c]>> \in Tasks
      BY <1>0, TaskOf
    <3>2. ok[<<c, pos[c]>>] = FALSE
      BY <1>5, <3>1 DEF OutcomeInv, Oks
    <3>3. QED
      BY <1>0, <3>2 DEF ResultOf
  <2>3. EndsInFailure(c)'
    BY <1>0, <1>5, <2>2, TakeResult DEF EndsInFailure
  <2>4. QED
    BY <1>0, <1>1, <1>5, <2>1, <2>3, TakeResult DEF Outcome
<1>6. QED
  BY <1>2, <1>3, <1>4, <1>5 DEF Poll, EndsCall

LEMMA OutcomeCollect ==
    ASSUME CountInv, OutcomeInv, NEW c \in Callers, Collect(c)
    PROVE  Outcome(c)' /\ Lists'
<1>0. /\ pc \in [Callers -> Places] /\ pos \in [Callers -> Nat]
      /\ pc[c] = "collect" /\ pos[c] < Size[c] /\ pos[c] \in Nat
      /\ UNCHANGED <<failFast, task, ok>>
  BY DEF Collect, CountInv, Positions
<1>1. Outcome(c) /\ Lists
  BY DEF OutcomeInv
<1>2. CASE <<c, pos[c]>> \in got /\ Throw(c)
  <2>1. pc'[c] = "thrown" /\ UNCHANGED <<pos, got, results>>
    BY <1>0, <1>2 DEF Throw, Goto
  <2>2. failFast
    BY <1>0, <1>1, <1>2 DEF Outcome
  <2>3. QED
    BY <1>0, <1>1, <2>1, <2>2 DEF Outcome, Lists
<1>3. CASE /\ <<c, pos[c]>> \notin got /\ task[<<c, pos[c]>>] = "ready"
           /\ Take(c, <<c, pos[c]>>) /\ MoveTo(c, pos[c] + 1) /\ UNCHANGED pc
  <2>1. pos'[c] = pos[c] + 1 /\ pc'[c] = "collect"
    BY <1>0, <1>3 DEF MoveTo
  <2>2. ASSUME NEW i \in Nat, <<c, i>> \in got, pos[c] <= i
        PROVE  <<c, i>> \in got' /\ pos'[c] <= i
    <3>1. i # pos[c]
      BY <1>3, <2>2
    <3>2. QED
      BY <1>0, <1>3, <2>1, <2>2, <3>1 DEF Take
  <2>3. InOrder(c, pos[c]) => InOrder(c, pos[c])'
    <3> SUFFICES ASSUME InOrder(c, pos[c]) PROVE InOrder(c, pos[c])'
      OBVIOUS
    <3>1. Len(results[c]) = pos[c] /\ Len(results'[c]) = pos[c] + 1
      BY <1>0, <1>3, TakeResult DEF InOrder
    <3>2. \A i \in 1 .. pos[c] : results'[c][i] = results[c][i]
      BY <1>0, <1>3, <3>1, TakeResult
    <3>3. results'[c][pos[c] + 1] = ResultOf(c, pos[c])
      BY <1>0, <1>3, <3>1, TakeResult
    <3>4. \A i : ResultOf(c, i)' = ResultOf(c, i)
      BY <1>0 DEF ResultOf
    <3>5. ASSUME NEW i \in 1 .. pos[c] + 1
          PROVE  results'[c][i] = ResultOf(c, i - 1) /\ task[<<c, i - 1>>] = "ready"
      <4>1. CASE i = pos[c] + 1
        <5>1. i - 1 = pos[c]
          BY <1>0, <4>1
        <5>2. QED
          BY <1>3, <3>3, <4>1, <5>1
      <4>2. CASE i # pos[c] + 1
        BY <1>0, <3>2, <3>5, <4>2 DEF InOrder
      <4>3. QED
        BY <4>1, <4>2
    <3>6. QED
      BY <1>0, <2>1, <3>1, <3>4, <3>5 DEF InOrder
  <2>4. ~failFast => \A i \in Nat : <<c, i>> \in got' => i < pos'[c]
    <3>1. SUFFICES ASSUME ~failFast, NEW i \in Nat, <<c, i>> \in got' PROVE i < pos'[c]
      OBVIOUS
    <3>2. <<c, i>> \in got \/ <<c, i>> = <<c, pos[c]>>
      BY <1>3, <3>1 DEF Take
    <3>3. CASE <<c, i>> \in got
      BY <1>0, <1>1, <2>1, <3>1, <3>3 DEF Outcome
    <3>4. CASE <<c, i>> = <<c, pos[c]>>
      BY <1>0, <2>1, <3>4
    <3>. QED BY <3>2, <3>3, <3>4
  <2>5. QED
    BY <1>0, <1>1, <1>3, <2>1, <2>2, <2>3, <2>4, TakeResult DEF Outcome
<1>4. QED
  BY <1>2, <1>3 DEF Collect

LEMMA OutcomeInvCaller ==
    ASSUME CountInv, OutcomeInv, NEW c \in Callers, Caller(c)
    PROVE  OutcomeInv'
<1>1. Outcome(c)' /\ Lists'
  <2>1. CASE Poll(c) \/ Collect(c)
    BY <2>1, OutcomePoll, OutcomeCollect
  <2>2. CASE ~(Poll(c) \/ Collect(c))
    <3>1. UNCHANGED results
      BY <2>2
      DEF Caller, FindSlot, Launch, Launched, PollDone, Collected, ReturnResults
    <3>2. QED
      BY <2>2, <3>1, OutcomeQuiet DEF Caller, OutcomeInv, Lists
  <2>3. QED
    BY <2>1, <2>2
<1>2. ASSUME NEW d \in Callers, d # c PROVE Outcome(d)'
  <2>1. failFast' = failFast /\ ok' = ok
    BY DEF Caller, FindSlot, Launch, Launched, Poll, PollDone, Collect, Collected,
           ReturnResults
  <2>2. pc'[d] = pc[d] /\ pos'[d] = pos[d]
    BY <1>2
    DEF CountInv, Positions, Caller, FindSlot, Launch, Launched, Poll, PollDone, Collect,
        Collected, ReturnResults, Throw, Goto, MoveTo
  <2>3. results'[d] = results[d] /\ \A i \in Nat : <<d, i>> \in got' <=> <<d, i>> \in got
    BY <1>2
    DEF OutcomeInv, Lists, Caller, FindSlot, Launch, Launched, Poll, PollDone, Collect,
        Collected, ReturnResults, Throw, Take
  <2>4. \A t \in Tasks : task[t] = "ready" => task'[t] = "ready"
    <3>1. CASE UNCHANGED task
      BY <3>1
    <3>2. CASE Launch(c)
      <4>1. started[c] \in Nat /\ started[c] < Size[c]
        BY <3>2 DEF Launch, CountInv, Positions
      <4>2. <<c, started[c]>> \in Tasks /\ task[<<c, started[c]>>] = "none"
        BY <4>1, TaskOf DEF CountInv, Positions
      <4>3. QED
        BY <3>2, <4>2 DEF Launch, CountInv, Tasked
    <3>3. QED
      BY <3>1, <3>2
      DEF Caller, FindSlot, Launched, Poll, PollDone, Collect, Collected, ReturnResults
  <2>5. QED
    BY <2>1, <2>2, <2>3, <2>4, OutcomeFrame DEF OutcomeInv
<1>3. Oks'
  BY DEF OutcomeInv, Oks, Caller, FindSlot, Launch, Launched, Poll, PollDone, Collect,
         Collected, ReturnResults
<1>4. QED
  BY <1>1, <1>2, <1>3 DEF OutcomeInv

LEMMA OutcomeInvStep == OutcomeInv /\ CountInv /\ [Next]_vars => OutcomeInv'
<1> SUFFICES ASSUME OutcomeInv, CountInv, [Next]_vars PROVE OutcomeInv'
  OBVIOUS
<1>1. CASE UNCHANGED vars \/ WaitForAll \/ NoneActive
  <2>1. UNCHANGED <<failFast, task, ok, callerVars>>
    BY <1>1 DEF vars, WaitForAll, NoneActive
  <2>2. ASSUME NEW c \in Callers PROVE Outcome(c)'
    BY <2>1, <2>2, OutcomeFrame DEF OutcomeInv, callerVars
  <2>3. QED
    BY <2>1, <2>2 DEF OutcomeInv, Oks, Lists, callerVars
<1>2. QED
  BY <1>1, OutcomeInvTask, OutcomeInvCaller DEF Next

LEMMA OutcomeInvAlways == Spec => []OutcomeInv
BY OutcomeInvInit, OutcomeInvStep, CountInvAlways, PTL DEF Spec

(* Without FailFast a call throws nothing and returns a result for each    *)
(* request, in order, each with the outcome of its own request.            *)
THEOREM SpecResultsInOrder == Spec => []ResultsInOrder
<1>1. ASSUME CountInv, OutcomeInv, NEW c \in Callers, ~failFast, Ended(c)
      PROVE  /\ pc[c] = "returned"
             /\ results[c] = [i \in 1 .. Size[c] |-> [id |-> i - 1, ok |-> ok[<<c, i - 1>>]]]
  <2>1. pc[c] = "returned" /\ InOrder(c, Size[c])
    BY <1>1 DEF OutcomeInv, Outcome, Ended
  <2>2. results[c] \in Seq(Result) /\ Len(results[c]) = Size[c]
    BY <1>1, <2>1 DEF OutcomeInv, Lists, InOrder
  <2>3. results[c] = [i \in 1 .. Size[c] |-> results[c][i]]
    BY <2>2
  <2>4. \A i \in 1 .. Size[c] : results[c][i] = [id |-> i - 1, ok |-> ok[<<c, i - 1>>]]
    BY <2>1 DEF InOrder, ResultOf
  <2>5. QED
    BY <2>1, <2>3, <2>4
<1>2. CountInv /\ OutcomeInv => ResultsInOrder
  BY <1>1 DEF ResultsInOrder
<1>3. QED
  BY <1>2, CountInvAlways, OutcomeInvAlways, PTL

(* With FailFast a call that returns fewer results ends at a failure: the  *)
(* other way to have fewer is to throw.                                    *)
THEOREM SpecShortOnlyAfterFailure == Spec => []ShortOnlyAfterFailure
<1>1. ASSUME CountInv, OutcomeInv, NEW c \in Callers,
             pc[c] = "returned", failFast, Len(results[c]) < Size[c]
      PROVE  results[c] # <<>> /\ ~results[c][Len(results[c])].ok
  <2>1. ~InOrder(c, Size[c])
    BY <1>1, ConcurrentRequestAssumption DEF InOrder
  <2>2. EndsInFailure(c)
    BY <1>1, <2>1 DEF OutcomeInv, Outcome
  <2>3. QED
    BY <2>2 DEF EndsInFailure
<1>2. CountInv /\ OutcomeInv => ShortOnlyAfterFailure
  BY <1>1 DEF ShortOnlyAfterFailure
<1>3. QED
  BY <1>2, CountInvAlways, OutcomeInvAlways, PTL

-----------------------------------------------------------------------------
(* The type invariant.                                                     *)

Modes == failFast \in BOOLEAN /\ waiter \in {"idle", "waiting", "returned"}

LEMMA ModesAlways == Spec => []Modes
<1>1. Init => Modes
  BY DEF Init, Modes
<1>2. Modes /\ [Next]_vars => Modes'
  <2> SUFFICES ASSUME Modes, [Next]_vars PROVE Modes'
    OBVIOUS
  <2>1. CASE UNCHANGED <<failFast, waiter>>
    BY <2>1 DEF Modes
  <2>2. CASE WaitForAll \/ NoneActive
    BY <2>2 DEF Modes, WaitForAll, NoneActive
  <2>3. ASSUME NEW t \in Tasks, Send(t) \/ Answer(t) \/ Return(t)
        PROVE  UNCHANGED <<failFast, waiter>>
    BY <2>3 DEF Send, Answer, Return
  <2>4. ASSUME NEW c \in Callers, Caller(c) PROVE UNCHANGED <<failFast, waiter>>
    BY <2>4
    DEF Caller, FindSlot, Launch, Launched, Poll, PollDone, Collect, Collected,
        ReturnResults
  <2>5. UNCHANGED vars => UNCHANGED <<failFast, waiter>>
    BY DEF vars
  <2>6. QED
    BY <2>1, <2>2, <2>3, <2>4, <2>5 DEF Next
<1>3. QED
  BY <1>1, <1>2, PTL DEF Spec

(* Every variable keeps its type: ActiveRequests is never negative, and no *)
(* loop runs past the futures that were started.                           *)
THEOREM TypeCorrect == Spec => []TypeOK
<1>1. CountInv => active \in 0 .. Cardinality(Tasks)
  BY SendingFinite DEF CountInv, Tasked
<1>2. Modes /\ CountInv /\ OutcomeInv => TypeOK
  BY <1>1
  DEF Modes, CountInv, Tasked, Positions, OutcomeInv, Oks, Lists, TaskStates, Places, TypeOK
<1>3. QED
  BY <1>2, ModesAlways, CountInvAlways, OutcomeInvAlways, PTL

=============================================================================
