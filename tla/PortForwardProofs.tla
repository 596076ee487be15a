-------------------------- MODULE PortForwardProofs --------------------------
(***************************************************************************)
(* Type correctness of PortForward, the ownership of serve tasks, the      *)
(* refinement of ForwardContract, and what is shown of the rules: that it  *)
(* matches the file, is the newest and explains itself, and that shutdown  *)
(* leaves nothing, for any rules, tasks and limits.                        *)
(***************************************************************************)
EXTENDS PortForward, TLAPS

\* The parts of the inductive invariant.

\* A live task serves its rule as the file has it.
TaskServes(t) ==
    LET r == task[t].rule IN
    /\ r \in Rules
    /\ task[t].config = config[r] /\ config[r] \in Configs \ Malformed
    /\ \/ saved[r] = "enabled"
       \/ saved[r] = "disabled" /\ cur = r /\ pc \in {"stop", "awaitStop"}
TasksServe == \A t \in TaskIds : Live(t) => TaskServes(t)

\* The map entry of a rule and the rule of a task agree.
EntryOfRule ==
    \A t \in TaskIds : Live(t) => running[task[t].rule] = t \/ t \in waits

\* What the operation waits for belongs to the rule it works on, whose entry
\* it has taken out of the map; shutdown takes them all.
WaitsOwned ==
    /\ waits # {} => pc \in {"awaitOld", "awaitStop", "awaitAll"}
    /\ pc \in {"awaitOld", "awaitStop"} =>
          /\ running[cur] = NoTask
          /\ \A t \in waits : Live(t) => task[t].rule = cur
    /\ pc = "awaitAll" => \A r \in Rules : running[r] = NoTask
    /\ \A t, u \in waits : Live(t) /\ Live(u) /\ task[t].rule = task[u].rule => t = u

\* A rule about to be started is enabled and well formed.
StartsEnabled ==
    /\ pc \in {"track", "start", "awaitOld"} =>
          saved[cur] = "enabled" /\ config[cur] \notin Malformed
    /\ rest # {} => pc \notin {"off", "load", "idle", "reset", "forget", "stop",
                               "awaitStop", "stopped", "publishStopped"}
    /\ \A r \in rest : saved[r] = "enabled"

CurIsRule ==
    /\ pc \in {"reset", "resetFailed", "forget", "track", "start", "awaitOld",
               "publish", "stop", "awaitStop", "stopped", "publishStopped"}
          => cur \in Rules

\* A live task in the map is there under its own rule.
EntryMatches ==
    \A r \in Rules : running[r] # NoTask /\ Live(running[r]) => task[running[r]].rule = r

IInv == /\ TypeOK /\ TasksServe /\ EntryOfRule /\ WaitsOwned
        /\ StartsEnabled /\ CurIsRule /\ EntryMatches


-----------------------------------------------------------------------------
(* Type correctness                                                        *)

LEMMA StatusTypes ==
    /\ Default \in Status /\ Failed \in Status
    /\ [Default EXCEPT !.running = TRUE] \in Status
    /\ \A s \in Status : Quiet(s) \in Status
    /\ Finished \in Task
<1>1. 0 \in 0..MaxConn
  BY ConstantsAssumption
<1>2. Default \in Status
  BY <1>1 DEF Default, Status
<1>3. Failed \in Status
  BY <1>1 DEF Default, Status, Failed
<1>4. [Default EXCEPT !.running = TRUE] \in Status
  BY <1>1 DEF Default, Status
<1>5. \A s \in Status : Quiet(s) \in Status
  BY <1>1 DEF Status, Quiet
<1>6. Finished \in Task
  BY <1>1 DEF Finished, Task
<1> QED
  BY <1>2, <1>3, <1>4, <1>5, <1>6

LEMMA InitTypeOK == Init => TypeOK
<1> SUFFICES ASSUME Init PROVE TypeOK
  OBVIOUS
<1> USE DEF Init
<1>1. running \in [Rules -> TaskIds \cup {NoTask}] /\ task \in [TaskIds -> Task]
  BY StatusTypes
<1>2. /\ snap \in [Rules -> Status \cup {NoStatus}]
      /\ statuses \in [Rules -> Status \cup {NoStatus}]
      /\ ctx \in [Rules -> Status \cup {NoStatus}]
  OBVIOUS
<1> QED
  BY <1>1, <1>2 DEF TypeOK, Pc

LEMMA SignalledType ==
    ASSUME TypeOK, NEW S
    PROVE  Signalled(S) \in [TaskIds -> Task]
BY DEF TypeOK, Signalled, Task, Live

LEMMA MergedType ==
    ASSUME TypeOK
    PROVE  Merged \in [Rules -> Status \cup {NoStatus}]
BY DEF TypeOK, Merged

\* Requests and the bookkeeping of the application: pc, the file and the
\* projection.
LEMMA ApplicationTypeOK ==
    ASSUME TypeOK, CurIsRule,
           \/ \E r \in Rules, c \in Configs : Create(r, c) \/ Update(r, c)
           \/ \E r \in Rules : Delete(r) \/ Enable(r) \/ Disable(r) \/ Retry(r)
           \/ Initialize \/ LoadRules \/ LoadFails \/ Reset \/ ResetFailed
           \/ Forget \/ Track \/ Publish \/ PublishStopped \/ StartKeeps
           \/ Unsubscribe \/ PublishLast \/ SubWakes \/ SubMerges
    PROVE  TypeOK'
<1> USE DEF TypeOK, Pc, Goto, infraVars, projVars, subVars, opVars, file, StartEntry
<1>1. CASE \E r \in Rules, c \in Configs : Create(r, c) \/ Update(r, c)
  BY <1>1 DEF Create, Update
<1>2. CASE \E r \in Rules : Delete(r) \/ Enable(r) \/ Disable(r) \/ Retry(r)
  BY <1>2 DEF Delete, Enable, Disable, Retry
<1>3. CASE Initialize \/ LoadFails \/ StartKeeps \/ Unsubscribe
  BY <1>3 DEF Initialize, LoadFails, StartKeeps, Unsubscribe
<1>4. CASE LoadRules
  BY <1>4, StatusTypes DEF LoadRules
<1>5. CASE Reset
  <2>1. statuses' \in [Rules -> Status \cup {NoStatus}] /\ ctx' = statuses'
    BY <1>5, StatusTypes DEF Reset, ResetStatus
  <2> QED
    BY <1>5, <2>1 DEF Reset, ResetStatus
<1>6. CASE ResetFailed
  <2>1. statuses' \in [Rules -> Status \cup {NoStatus}] /\ ctx' = statuses'
    BY <1>6, StatusTypes DEF ResetFailed, ResetStatus
  <2> QED
    BY <1>6, <2>1 DEF ResetFailed, ResetStatus, NextStart
<1>7. CASE Publish
  BY <1>7, MergedType DEF Publish, MergeRuntime, NextStart
<1>8. CASE PublishStopped \/ PublishLast \/ SubMerges
  BY <1>8, MergedType DEF PublishStopped, PublishLast, SubMerges, MergeRuntime
<1>9. CASE SubWakes
  BY <1>9 DEF SubWakes
<1>10. CASE Forget
  <2>1. statuses' \in [Rules -> Status \cup {NoStatus}] /\ ctx' = statuses'
    BY <1>10 DEF Forget
  <2> QED
    BY <1>10, <2>1 DEF Forget
<1>11. CASE Track
  <2>1. statuses' \in [Rules -> Status \cup {NoStatus}]
    BY <1>11, StatusTypes DEF Track
  <2>2. runtimeIds' \subseteq Rules
    BY <1>11 DEF Track, CurIsRule
  <2> QED
    BY <1>11, <2>1, <2>2 DEF Track
<1> QED
  BY <1>1, <1>2, <1>3, <1>4, <1>5, <1>6, <1>7, <1>8, <1>9, <1>10, <1>11

\* The controller: the map of tasks and the snapshot.
LEMMA ControllerTypeOK ==
    ASSUME TypeOK, CurIsRule,
           \/ StartReplaces \/ BindFails \/ BindListener \/ StopTakes
           \/ AwaitTasks \/ AbortOverdue \/ MarkStopped \/ MarkAllStopped
           \/ Shutdown \/ Crash
    PROVE  TypeOK'
<1> USE DEF TypeOK, Pc, Goto, Notify, projVars, subVars, opVars, file
<1>1. CASE StartReplaces
  <2>1. task' \in [TaskIds -> Task] /\ running[cur] \in TaskIds
    BY <1>1, SignalledType DEF StartReplaces, CurIsRule
  <2> QED
    BY <1>1, <2>1 DEF StartReplaces
<1>2. CASE BindFails
  BY <1>2, StatusTypes DEF BindFails
<1>3. CASE BindListener
  <2>1. PICK t \in TaskIds :
          /\ task' = [task EXCEPT ![t] =
                [Finished EXCEPT !.phase = "serving", !.rule = cur,
                                 !.config = config[cur]]]
          /\ running' = [running EXCEPT ![cur] = t]
    BY <1>3 DEF BindListener
  <2>2. cur \in Rules /\ config[cur] \in Configs
    BY <1>3 DEF BindListener, CurIsRule
  <2>3. [Finished EXCEPT !.phase = "serving", !.rule = cur,
                         !.config = config[cur]] \in Task
    BY <2>2, StatusTypes DEF Finished, Task
  <2>4. task' \in [TaskIds -> Task] /\ running' \in [Rules -> TaskIds \cup {NoTask}]
    BY <2>1, <2>3
  <2>5. snap' \in [Rules -> Status \cup {NoStatus}]
    BY <1>3, StatusTypes DEF BindListener
  <2> QED
    BY <1>3, <2>2, <2>4, <2>5 DEF BindListener
<1>4. CASE StopTakes
  <2>1. task' \in [TaskIds -> Task] /\ running[cur] \in TaskIds \cup {NoTask}
    BY <1>4, SignalledType DEF StopTakes, CurIsRule
  <2> QED
    BY <1>4, <2>1 DEF StopTakes
<1>5. CASE Shutdown
  <2>1. waits' \subseteq TaskIds /\ task' \in [TaskIds -> Task]
    BY <1>5, SignalledType DEF Shutdown
  <2> QED
    BY <1>5, <2>1 DEF Shutdown
<1>6. CASE AwaitTasks
  BY <1>6 DEF AwaitTasks, AfterAwait, infraVars
<1>7. CASE AbortOverdue
  BY <1>7, StatusTypes DEF AbortOverdue
<1>8. CASE MarkStopped
  <2>1. snap' \in [Rules -> Status \cup {NoStatus}]
    BY <1>8, StatusTypes DEF MarkStopped
  <2> QED
    BY <1>8, <2>1 DEF MarkStopped
<1>9. CASE MarkAllStopped
  <2>1. snap' \in [Rules -> Status \cup {NoStatus}]
    BY <1>9, StatusTypes DEF MarkAllStopped
  <2> QED
    BY <1>9, <2>1 DEF MarkAllStopped
<1>10. CASE Crash
  <2>1. task' \in [TaskIds -> Task] /\ running' \in [Rules -> TaskIds \cup {NoTask}]
    BY <1>10, StatusTypes DEF Crash
  <2>2. crashes \in Nat /\ crashes' = crashes + 1
    BY <1>10 DEF Crash
  <2>3. crashes' \in Nat
    BY <2>2
  <2> QED
    BY <1>10, <2>1, <2>3 DEF Crash
<1> QED
  BY <1>1, <1>2, <1>3, <1>4, <1>5, <1>6, <1>7, <1>8, <1>9, <1>10

\* A serve task changes its own record and reports to the snapshot.
LEMMA ReportTypeOK ==
    ASSUME TypeOK, NEW t \in TaskIds, NEW r, NEW status \in Status,
           task' \in [TaskIds -> Task], Report(r, status), UNCHANGED taskFrame
    PROVE  TypeOK'
<1>1. snap' \in [Rules -> Status \cup {NoStatus}] /\ dirty' \in BOOLEAN
  BY DEF Report, Notify, TypeOK
<1> QED
  BY <1>1 DEF TypeOK, taskFrame, file, opVars, projVars

LEMMA ServeTypeOK ==
    ASSUME TypeOK, NEW t \in TaskIds, Serve(t)
    PROVE  TypeOK'
<1>1. task[t] \in Task /\ task \in [TaskIds -> Task]
  BY DEF TypeOK
<1>2. CASE Accept(t)
  <2>1. task[t].conns + 1 \in 0..MaxConn
    BY <1>1, <1>2, ConstantsAssumption DEF Accept, Task
  <2>2. [running |-> TRUE, conns |-> task[t].conns + 1, error |-> task[t].error] \in Status
    BY <1>1, <2>1 DEF Status, Task
  <2>3. task' \in [TaskIds -> Task]
    BY <1>1, <1>2, <2>1 DEF Accept, Task
  <2> QED
    BY <1>2, <2>2, <2>3, ReportTypeOK DEF Accept
<1>3. ASSUME NEW failed \in BOOLEAN, ClientEnds(t, failed)
      PROVE  TypeOK'
  <2> DEFINE error == task[t].error \/ failed
  <2>1. task[t].conns - 1 \in 0..MaxConn
    BY <1>1, <1>3, ConstantsAssumption DEF ClientEnds, Task
  <2>2. error \in BOOLEAN
    OBVIOUS
  <2> HIDE DEF error
  <2>3. [running |-> TRUE, conns |-> task[t].conns - 1, error |-> error] \in Status
    BY <2>1, <2>2 DEF Status
  <2>4. task' = [task EXCEPT ![t].conns = @ - 1, ![t].error = error]
    BY <1>3 DEF ClientEnds, error
  <2>5. task' \in [TaskIds -> Task]
    BY <1>1, <2>1, <2>2, <2>4 DEF Task
  <2>6. Report(task[t].rule, [running |-> TRUE, conns |-> task[t].conns - 1,
                              error |-> error]) /\ UNCHANGED taskFrame
    BY <1>3 DEF ClientEnds, error
  <2> QED
    BY <2>3, <2>5, <2>6, ReportTypeOK
<1>4. CASE BreakOnStop(t) \/ BreakOnError(t)
  <2>1. task' \in [TaskIds -> Task]
    BY <1>1, <1>4 DEF BreakOnStop, BreakOnError, Task
  <2> QED
    BY <1>4, <2>1 DEF BreakOnStop, BreakOnError, TypeOK, taskFrame, file, opVars, projVars
<1>5. CASE ReportClosed(t)
  <2>1. [running |-> FALSE, conns |-> task[t].conns, error |-> task[t].error] \in Status
    BY <1>1 DEF Status, Task
  <2>2. task' \in [TaskIds -> Task]
    BY <1>1, <1>5 DEF ReportClosed, Task
  <2> QED
    BY <1>5, <2>1, <2>2, ReportTypeOK DEF ReportClosed
<1>6. CASE Drained(t)
  <2>1. 0 \in 0..MaxConn
    BY ConstantsAssumption
  <2>2. [running |-> FALSE, conns |-> 0, error |-> task[t].error] \in Status
    BY <1>1, <2>1 DEF Status, Task
  <2>3. task' \in [TaskIds -> Task]
    BY <1>1, <1>6, StatusTypes DEF Drained
  <2> QED
    BY <1>6, <2>2, <2>3, ReportTypeOK DEF Drained
<1> QED
  BY <1>2, <1>3, <1>4, <1>5, <1>6 DEF Serve, Closes

\* Whoever acts on a rule acts on one: the program counter says which
\* operations have one.
LEMMA NextCurIsRule ==
    ASSUME TypeOK, CurIsRule, [Next]_vars
    PROVE  CurIsRule'
<1> USE DEF CurIsRule, Goto, StartEntry, TypeOK
<1>1. CASE UNCHANGED vars
  BY <1>1 DEF vars, opVars
<1>2. CASE Request
  BY <1>2 DEF Request, Create, Update, Delete, Enable, Disable, Retry, Shutdown
<1>3. CASE Initialize \/ LoadRules \/ LoadFails \/ Reset \/ Forget \/ Track
  BY <1>3 DEF Initialize, LoadRules, LoadFails, Reset, Forget, Track
<1>4. CASE ResetFailed \/ Publish
  BY <1>4 DEF ResetFailed, Publish, NextStart
<1>5. CASE PublishStopped \/ StartKeeps \/ StartReplaces \/ BindFails \/ BindListener
  BY <1>5 DEF PublishStopped, StartKeeps, StartReplaces, BindFails, BindListener
<1>6. CASE StopTakes \/ MarkStopped \/ MarkAllStopped \/ Unsubscribe \/ PublishLast
  BY <1>6 DEF StopTakes, MarkStopped, MarkAllStopped, Unsubscribe, PublishLast
<1>7. CASE AwaitTasks
  BY <1>7 DEF AwaitTasks, AfterAwait
<1>8. CASE AbortOverdue \/ Subscription
  BY <1>8 DEF AbortOverdue, Subscription, SubWakes, SubMerges, opVars
<1>9. CASE \E t \in TaskIds : Serve(t)
  BY <1>9 DEF Serve, Closes, Accept, ClientEnds, BreakOnStop, BreakOnError,
              ReportClosed, Drained, taskFrame, opVars
<1>10. CASE Crash
  BY <1>10 DEF Crash
<1> QED
  BY <1>1, <1>2, <1>3, <1>4, <1>5, <1>6, <1>7, <1>8, <1>9, <1>10 DEF Next, Proceed

LEMMA NextTypeOK ==
    ASSUME TypeOK, CurIsRule, [Next]_vars
    PROVE  TypeOK'
<1>1. CASE UNCHANGED vars
  BY <1>1 DEF TypeOK, vars, file, opVars, infraVars, projVars, subVars
<1>2. CASE Next
  BY <1>2, ApplicationTypeOK, ControllerTypeOK, ServeTypeOK
  DEF Next, Request, Proceed, Subscription
<1> QED
  BY <1>1, <1>2

\* Every reachable state has its type: in particular a status never counts
\* more than MAX_CONNECTIONS connections.
THEOREM TypeCorrect == Spec => []TypeOK
<1>1. Init => TypeOK /\ CurIsRule
  BY InitTypeOK DEF Init, CurIsRule
<1>2. TypeOK /\ CurIsRule /\ [Next]_vars => (TypeOK /\ CurIsRule)'
  BY NextTypeOK, NextCurIsRule
<1> QED
  BY <1>1, <1>2, PTL DEF Spec

-----------------------------------------------------------------------------
(* The inductive invariant                                                 *)

LEMMA InitIInv == Init => IInv
<1> SUFFICES ASSUME Init PROVE IInv
  OBVIOUS
<1>1. \A t \in TaskIds : ~Live(t)
  BY DEF Init, Live, Finished
<1> QED
  BY <1>1, InitTypeOK DEF Init, IInv, TasksServe, EntryOfRule, WaitsOwned,
                          StartsEnabled, CurIsRule, EntryMatches

\* Sending the stop signal changes neither which tasks live nor what they serve.
LEMMA SignalledKeeps ==
    ASSUME TypeOK, NEW S, task' = Signalled(S)
    PROVE  \A t \in TaskIds : /\ Live(t)' <=> Live(t)
                              /\ task'[t].rule = task[t].rule
                              /\ task'[t].config = task[t].config
BY DEF TypeOK, Signalled, Live, Task

\* The application's steps leave tasks, map and awaited tasks alone.
LEMMA ApplicationIInv ==
    ASSUME IInv,
           \/ \E r \in Rules, c \in Configs : Create(r, c) \/ Update(r, c)
           \/ \E r \in Rules : Delete(r) \/ Enable(r) \/ Disable(r) \/ Retry(r)
           \/ Initialize \/ LoadRules \/ LoadFails \/ Reset \/ ResetFailed
           \/ Forget \/ Track \/ Publish \/ PublishStopped \/ StartKeeps
           \/ BindFails \/ MarkStopped \/ MarkAllStopped
           \/ Unsubscribe \/ PublishLast \/ SubWakes \/ SubMerges
    PROVE  TasksServe' /\ EntryOfRule' /\ WaitsOwned' /\ StartsEnabled' /\ EntryMatches'
<1> USE DEF IInv
<1>a. /\ UNCHANGED <<task, running, waits>>
      /\ waits # {} => pc = pc'
  BY DEF WaitsOwned, Create, Update, Delete, Enable, Disable, Retry, Initialize,
         LoadRules, LoadFails, Reset, ResetFailed, Forget, Track, Publish,
         PublishStopped, StartKeeps, BindFails, MarkStopped, MarkAllStopped,
         Unsubscribe, PublishLast, SubWakes, SubMerges, Goto, infraVars, opVars
<1>b. EntryOfRule' /\ EntryMatches'
  BY <1>a DEF EntryOfRule, EntryMatches, Live
<1>c. WaitsOwned'
  BY <1>a DEF WaitsOwned, Live, Create, Update, Delete, Enable, Disable, Retry,
         Initialize, LoadRules, LoadFails, Reset, ResetFailed, Forget, Track, Publish,
         PublishStopped, StartKeeps, BindFails, MarkStopped, MarkAllStopped,
         Unsubscribe, PublishLast, SubWakes, SubMerges, Goto, opVars, StartEntry, NextStart
<1>d. TasksServe' /\ StartsEnabled'
  <2> USE <1>a DEF TasksServe, TaskServes, Live, StartsEnabled, Goto, StartEntry, TypeOK, file
  <2>1. CASE \E r \in Rules, c \in Configs : Create(r, c) \/ Update(r, c)
    BY <2>1 DEF Create, Update
  <2>2. CASE \E r \in Rules : Delete(r) \/ Enable(r)
    BY <2>2 DEF Delete, Enable
  <2>3. CASE \E r \in Rules : Disable(r) \/ Retry(r)
    BY <2>3 DEF Disable, Retry
  <2>4. CASE Initialize \/ LoadFails \/ Reset \/ Forget \/ Track
    BY <2>4 DEF Initialize, LoadFails, Reset, Forget, Track
  <2>5. CASE LoadRules
    BY <2>5 DEF LoadRules
  <2>6. CASE ResetFailed \/ Publish
    BY <2>6 DEF ResetFailed, Publish, NextStart
  <2>7. CASE PublishStopped \/ StartKeeps \/ BindFails \/ MarkStopped \/ MarkAllStopped
    BY <2>7 DEF PublishStopped, StartKeeps, BindFails, MarkStopped, MarkAllStopped
  <2>8. CASE Unsubscribe \/ PublishLast \/ SubWakes \/ SubMerges
    BY <2>8 DEF Unsubscribe, PublishLast, SubWakes, SubMerges, opVars
  <2> QED
    BY <2>1, <2>2, <2>3, <2>4, <2>5, <2>6, <2>7, <2>8
<1> QED
  BY <1>b, <1>c, <1>d

\* A serve task, or the timeout that drops it, can only end its life.
LEMMA EndsOnly ==
    ASSUME TypeOK, \/ AbortOverdue
                   \/ \E t \in TaskIds : Serve(t)
    PROVE  /\ UNCHANGED <<saved, config, pc, cur, rest, waits, running>>
           /\ \A t \in TaskIds : Live(t)' => /\ Live(t)
                                             /\ task'[t].rule = task[t].rule
                                             /\ task'[t].config = task[t].config
<1> USE DEF TypeOK, Task, Live, Listening, Finished, taskFrame, file, opVars
<1>1. CASE AbortOverdue
  BY <1>1 DEF AbortOverdue
<1>2. ASSUME NEW t \in TaskIds, Serve(t)
      PROVE  /\ UNCHANGED <<saved, config, pc, cur, rest, waits, running>>
             /\ \A u \in TaskIds : Live(u)' => /\ Live(u)
                                               /\ task'[u].rule = task[u].rule
                                               /\ task'[u].config = task[u].config
  <2>1. CASE Accept(t)
    BY <2>1 DEF Accept
  <2>2. CASE \E failed \in BOOLEAN : ClientEnds(t, failed)
    BY <2>2 DEF ClientEnds
  <2>3. CASE BreakOnStop(t) \/ BreakOnError(t)
    BY <2>3 DEF BreakOnStop, BreakOnError
  <2>4. CASE ReportClosed(t) \/ Drained(t)
    BY <2>4 DEF ReportClosed, Drained
  <2> QED
    BY <1>2, <2>1, <2>2, <2>3, <2>4 DEF Serve, Closes
<1> QED
  BY <1>1, <1>2

LEMMA CrashEnds == Crash => \A t \in TaskIds : ~Live(t)'
BY DEF Crash, Live, Finished

LEMMA TaskIInv ==
    ASSUME IInv, \/ AbortOverdue
                 \/ \E t \in TaskIds : Serve(t)
    PROVE  TasksServe' /\ EntryOfRule' /\ WaitsOwned' /\ StartsEnabled' /\ EntryMatches'
<1>1. /\ UNCHANGED <<saved, config, pc, cur, rest, waits, running>>
      /\ \A t \in TaskIds : Live(t)' => /\ Live(t)
                                        /\ task'[t].rule = task[t].rule
                                        /\ task'[t].config = task[t].config
  BY EndsOnly DEF IInv
<1> QED
  BY <1>1 DEF IInv, TypeOK, TasksServe, TaskServes, EntryOfRule, WaitsOwned,
              StartsEnabled, EntryMatches

\* The controller takes tasks out of the map, waits for them and starts one.
LEMMA ControllerIInv ==
    ASSUME IInv,
           \/ StartReplaces \/ BindListener \/ StopTakes \/ AwaitTasks
           \/ Shutdown \/ Crash
    PROVE  TasksServe' /\ EntryOfRule' /\ WaitsOwned' /\ StartsEnabled' /\ EntryMatches'
<1> USE ConstantsAssumption DEF IInv
<1> DEFINE Same == \A t \in TaskIds : /\ Live(t)' <=> Live(t)
                                      /\ task'[t].rule = task[t].rule
                                      /\ task'[t].config = task[t].config
<1>1. CASE StartReplaces
  <2>1. Same
    BY <1>1, SignalledKeeps DEF StartReplaces
  <2>2. /\ cur \in Rules /\ waits = {} /\ running[cur] \in TaskIds \cup {NoTask}
        /\ UNCHANGED <<saved, config, cur, rest>> /\ pc' = "awaitOld"
        /\ running' = [running EXCEPT ![cur] = NoTask]
        /\ waits' = {running[cur]} \ {NoTask}
    BY <1>1 DEF StartReplaces, file, TypeOK, WaitsOwned, CurIsRule
  <2>3. TasksServe'
    BY <1>1, <2>1, <2>2 DEF StartReplaces, TasksServe, TaskServes
  <2>4. EntryOfRule' /\ EntryMatches'
    BY <2>1, <2>2 DEF TypeOK, TasksServe, TaskServes, EntryOfRule, EntryMatches
  <2>5. WaitsOwned'
    BY <2>1, <2>2 DEF TypeOK, WaitsOwned, EntryMatches
  <2>6. StartsEnabled'
    BY <1>1, <2>2 DEF StartReplaces, StartsEnabled
  <2> QED
    BY <2>3, <2>4, <2>5, <2>6
<1>2. CASE StopTakes
  <2>1. Same
    BY <1>2, SignalledKeeps DEF StopTakes
  <2>2. /\ cur \in Rules /\ waits = {} /\ running[cur] \in TaskIds \cup {NoTask}
        /\ UNCHANGED <<saved, config, cur, rest>> /\ pc' = "awaitStop"
        /\ running' = [running EXCEPT ![cur] = NoTask]
        /\ waits' = {running[cur]} \ {NoTask}
    BY <1>2 DEF StopTakes, file, TypeOK, WaitsOwned, CurIsRule
  <2>3. TasksServe'
    BY <1>2, <2>1, <2>2 DEF StopTakes, TasksServe, TaskServes
  <2>4. EntryOfRule' /\ EntryMatches'
    BY <2>1, <2>2 DEF TypeOK, TasksServe, TaskServes, EntryOfRule, EntryMatches
  <2>5. WaitsOwned'
    BY <2>1, <2>2 DEF TypeOK, WaitsOwned, EntryMatches
  <2>6. StartsEnabled'
    BY <1>2, <2>2 DEF StopTakes, StartsEnabled
  <2> QED
    BY <2>3, <2>4, <2>5, <2>6
<1>3. CASE Shutdown
  <2>1. Same
    BY <1>3, SignalledKeeps DEF Shutdown
  <2> QED
    BY <1>3, <2>1 DEF Shutdown, file, TypeOK, TasksServe, TaskServes, EntryOfRule,
                      WaitsOwned, StartsEnabled, CurIsRule, EntryMatches
<1>4. CASE AwaitTasks
  <2>1. Same
    BY <1>4 DEF AwaitTasks, infraVars, Live
  <2>2. \A t \in TaskIds : Live(t) => t \notin waits
    BY <1>4 DEF AwaitTasks
  <2> QED
    BY <1>4, <2>1, <2>2 DEF AwaitTasks, AfterAwait, file, infraVars, TypeOK, TasksServe,
        TaskServes, EntryOfRule, WaitsOwned, StartsEnabled, CurIsRule, EntryMatches
<1>5. CASE BindListener
  <2>1. PICK t \in TaskIds :
          /\ ~Live(t) /\ \A r \in Rules : running[r] # t
          /\ task' = [task EXCEPT ![t] =
                [Finished EXCEPT !.phase = "serving", !.rule = cur,
                                 !.config = config[cur]]]
          /\ running' = [running EXCEPT ![cur] = t]
    BY <1>5 DEF BindListener
  <2>2. /\ cur \in Rules /\ waits = {} /\ running[cur] = NoTask
        /\ pc' = "publish" /\ UNCHANGED <<saved, config, waits, rest, cur>>
        /\ saved[cur] = "enabled" /\ config[cur] \in Configs \ Malformed
    BY <1>5 DEF BindListener, Goto, file, TypeOK, StartsEnabled, WaitsOwned, CurIsRule
  <2>3. Live(t)' /\ task'[t].rule = cur /\ task'[t].config = config[cur]
    BY <2>1 DEF Live, Finished, TypeOK
  <2>4. \A u \in TaskIds \ {t} : task'[u] = task[u] /\ (Live(u)' <=> Live(u))
    BY <2>1 DEF Live, TypeOK
  <2>5. TasksServe'
    BY <1>5, <2>2, <2>3, <2>4 DEF TasksServe, TaskServes, BindListener
  <2>6. EntryOfRule' /\ EntryMatches'
    BY <2>1, <2>2, <2>3, <2>4 DEF EntryOfRule, EntryMatches, TypeOK, TasksServe, TaskServes
  <2> QED
    BY <1>5, <2>2, <2>5, <2>6 DEF WaitsOwned, StartsEnabled, BindListener
<1>6. CASE Crash
  <2>1. \A t \in TaskIds : ~Live(t)'
    BY <1>6 DEF Crash, Live, Finished
  <2> QED
    BY <1>6, <2>1 DEF Crash, TasksServe, EntryOfRule, WaitsOwned, StartsEnabled,
                      EntryMatches
<1> QED
  BY <1>1, <1>2, <1>3, <1>4, <1>5, <1>6

LEMMA NextIInv == IInv /\ [Next]_vars => IInv'
<1> SUFFICES ASSUME IInv, [Next]_vars PROVE IInv'
  OBVIOUS
<1>1. TypeOK' /\ CurIsRule'
  BY NextTypeOK, NextCurIsRule DEF IInv
<1>2. CASE UNCHANGED vars
  BY <1>1, <1>2 DEF IInv, vars, file, opVars, infraVars, TasksServe, TaskServes,
                    EntryOfRule, WaitsOwned, StartsEnabled, EntryMatches, Live
<1>3. CASE Next
  BY <1>1, <1>3, ApplicationIInv, TaskIInv, ControllerIInv
  DEF Next, Request, Proceed, Subscription, IInv
<1> QED
  BY <1>2, <1>3

THEOREM InductiveInvariant == Spec => []IInv
BY InitIInv, NextIInv, PTL DEF Spec

\* Every live task has an owner, and two of one rule would have the same.
LEMMA IInvOneTaskPerRule == IInv => OneTaskPerRule
<1> SUFFICES ASSUME IInv PROVE OneTaskPerRule
  OBVIOUS
<1> USE ConstantsAssumption DEF IInv
<1>1. \A t \in TaskIds : Live(t) => Owned(t)
  BY DEF TasksServe, TaskServes, EntryOfRule, Owned
<1>2. ASSUME NEW t \in TaskIds, NEW u \in TaskIds, Live(t), Live(u),
             task[t].rule = task[u].rule
      PROVE  t = u
  BY <1>2 DEF TasksServe, TaskServes, EntryOfRule, WaitsOwned, TypeOK
<1> QED
  BY <1>1, <1>2 DEF OneTaskPerRule

\* No serve task is orphaned and no rule has two, for any number of rules.
THEOREM NoOrphanListener == Spec => []OneTaskPerRule
BY IInvOneTaskPerRule, InductiveInvariant, PTL

-----------------------------------------------------------------------------
(* Refinement of ForwardContract                                           *)

\* A step after which every live task was already live, with the same rule and
\* configuration, only closes sockets.
LEMMA OnlyCloses ==
    ASSUME UNCHANGED <<saved, config>>,
           \A t \in TaskIds : Live(t)' => /\ Live(t)
                                          /\ task'[t].rule = task[t].rule
                                          /\ task'[t].config = task[t].config
    PROVE  Contract!Next
<1>1. Serving' \subseteq Serving
  BY DEF Serving
<1> QED
  BY <1>1 DEF Contract!Next, Contract!Close

\* Between operations a rule that is not enabled holds no socket.
LEMMA NotEnabledNotServed ==
    ASSUME IInv, pc = "idle", NEW r \in Rules, saved[r] # "enabled"
    PROVE  ~Contract!Served(r)
BY DEF IInv, TasksServe, TaskServes, Contract!Served, Serving

LEMMA RequestRefines ==
    ASSUME IInv,
           \/ \E r \in Rules, c \in Configs : Create(r, c) \/ Update(r, c)
           \/ \E r \in Rules : Delete(r) \/ Enable(r) \/ Disable(r)
    PROVE  Contract!Next
<1> USE DEF IInv, TypeOK, Goto, infraVars
<1>1. ASSUME NEW r \in Rules, NEW c \in Configs, Create(r, c) \/ Update(r, c)
      PROVE  Contract!Edit(r)
  <2>1. ~Contract!Served(r)
    BY <1>1, NotEnabledNotServed DEF Create, Update
  <2>2. UNCHANGED Serving
    BY <1>1 DEF Create, Update, Serving, Live
  <2>3. CASE Create(r, c)
    BY <2>1, <2>2, <2>3 DEF Create, Contract!Edit
  <2>4. CASE Update(r, c)
    <3>1. saved' = [saved EXCEPT ![r] = "disabled"]
      BY <2>4 DEF Update
    <3> QED
      BY <2>1, <2>2, <2>4, <3>1 DEF Update, Contract!Edit
  <2> QED
    BY <1>1, <2>3, <2>4
<1>2. ASSUME NEW r \in Rules, Delete(r)
      PROVE  Contract!Edit(r)
  <2>1. ~Contract!Served(r)
    BY <1>2, NotEnabledNotServed DEF Delete
  <2>2. UNCHANGED Serving
    BY <1>2 DEF Delete, Serving, Live
  <2>3. config' = [config EXCEPT ![r] = config[r]] /\ config[r] \in Configs
    BY <1>2 DEF Delete
  <2> QED
    BY <1>2, <2>1, <2>2, <2>3 DEF Delete, Contract!Edit
<1>3. ASSUME NEW r \in Rules, Enable(r) \/ Disable(r)
      PROVE  Contract!SetEnabled(r)
  <2>1. UNCHANGED Serving
    BY <1>3 DEF Enable, Disable, Serving, Live
  <2> QED
    BY <1>3, <2>1 DEF Enable, Disable, Contract!SetEnabled
<1> QED
  BY <1>1, <1>2, <1>3 DEF Contract!Next

LEMMA BindRefines ==
    ASSUME IInv, BindListener
    PROVE  Contract!Next
<1> USE ConstantsAssumption DEF IInv
<1>1. PICK t \in TaskIds :
        /\ ~Live(t)
        /\ task' = [task EXCEPT ![t] =
              [Finished EXCEPT !.phase = "serving", !.rule = cur,
                               !.config = config[cur]]]
  BY DEF BindListener
<1>2. /\ cur \in Rules /\ saved[cur] = "enabled"
      /\ config[cur] \in Configs \ Malformed
      /\ waits = {} /\ running[cur] = NoTask /\ UNCHANGED <<saved, config>>
  BY DEF BindListener, CurIsRule, StartsEnabled, WaitsOwned, TypeOK, file
<1>3. ~Contract!Served(cur)
  BY <1>2 DEF Contract!Served, Serving, EntryOfRule
<1>4. /\ Live(t)' /\ task'[t].rule = cur /\ task'[t].config = config[cur]
      /\ \A u \in TaskIds \ {t} : task'[u] = task[u]
  BY <1>1 DEF Live, Finished, TypeOK
<1>5. Serving' = Serving \cup {<<cur, config[cur]>>}
  BY <1>1, <1>4 DEF Serving, Live
<1> QED
  BY <1>2, <1>3, <1>5 DEF Contract!Next, Contract!Open

\* Sockets behave as ForwardContract says, for any rules, configurations and
\* tasks: what is served is enabled and as persisted, and is never edited.
THEOREM Refinement == Spec => ImplementsContract
<1>1. Init => Contract!Init
  <2>1. Init => Serving = {}
    BY DEF Init, Serving, Live, Finished
  <2> QED
    BY <2>1 DEF Init, Contract!Init
<1>2. IInv /\ [Next]_vars => [Contract!Next]_<<saved, config, Serving>>
  <2> SUFFICES ASSUME IInv, [Next]_vars
               PROVE  Contract!Next \/ UNCHANGED <<saved, config, Serving>>
    OBVIOUS
  <2>1. CASE UNCHANGED <<saved, config, task>>
    BY <2>1 DEF Serving, Live
  <2>2. CASE \/ \E r \in Rules, c \in Configs : Create(r, c) \/ Update(r, c)
             \/ \E r \in Rules : Delete(r) \/ Enable(r) \/ Disable(r)
    BY <2>2, RequestRefines
  <2>3. CASE BindListener
    BY <2>3, BindRefines
  <2>4. CASE StartReplaces \/ StopTakes \/ Shutdown
    <3>1. \A t \in TaskIds : /\ Live(t)' <=> Live(t)
                             /\ task'[t].rule = task[t].rule
                             /\ task'[t].config = task[t].config
      BY <2>4, SignalledKeeps DEF IInv, StartReplaces, StopTakes, Shutdown
    <3> QED
      BY <2>4, <3>1, OnlyCloses DEF StartReplaces, StopTakes, Shutdown, file
  <2>5. CASE AbortOverdue \/ Crash \/ \E t \in TaskIds : Serve(t)
    <3>1. UNCHANGED <<saved, config>>
      BY <2>5 DEF AbortOverdue, Crash, Serve, Closes, Accept, ClientEnds, BreakOnStop,
                  BreakOnError, ReportClosed, Drained, taskFrame, file
    <3>2. \A t \in TaskIds : Live(t)' => /\ Live(t)
                                         /\ task'[t].rule = task[t].rule
                                         /\ task'[t].config = task[t].config
      BY <2>5, EndsOnly, CrashEnds DEF IInv
    <3> QED
      BY <3>1, <3>2, OnlyCloses
  <2>6. CASE Subscription \/ \E r \in Rules : Retry(r)
    BY <2>1, <2>6 DEF Subscription, SubWakes, SubMerges, Retry, file, infraVars
  <2>7. CASE \/ Initialize \/ LoadRules \/ LoadFails \/ Reset \/ ResetFailed
             \/ Forget \/ Track \/ Publish \/ PublishStopped \/ StartKeeps
             \/ BindFails \/ AwaitTasks \/ MarkStopped \/ MarkAllStopped
             \/ Unsubscribe \/ PublishLast
    BY <2>1, <2>7 DEF Initialize, LoadRules, LoadFails, Reset, ResetFailed, Forget,
        Track, Publish, PublishStopped, StartKeeps, BindFails, AwaitTasks,
        MarkStopped, MarkAllStopped, Unsubscribe, PublishLast, file, infraVars
  <2>8. CASE UNCHANGED vars
    BY <2>1, <2>8 DEF vars, file, infraVars
  <2> QED
    BY <2>2, <2>3, <2>4, <2>5, <2>6, <2>7, <2>8 DEF Next, Request, Proceed
<1> QED
  BY <1>1, <1>2, InductiveInvariant, PTL DEF Spec, ImplementsContract, Contract!Spec

-----------------------------------------------------------------------------
(* What is shown                                                           *)

\* The places of the program counter at which the rule worked on may differ
\* from what holds of every other rule: while it is started, while it is
\* stopped, and when everything is.
Starting == {"start", "awaitOld"}
Stopping == {"stop", "awaitStop", "stopped", "publishStopped", "reset"}
Closing == {"awaitAll", "drained", "unsubscribe", "publishLast", "ended"}

\* Each operation has saved its effect on the rule before it goes on.
WorksOnSaved ==
    /\ pc \in Stopping => saved[cur] = "disabled"
    /\ pc = "forget" => saved[cur] = "absent"
    /\ pc = "resetFailed" => saved[cur] = "enabled"
    /\ pc = "idle" => rest = {}

\* Only enabled rules are tracked, and each has a status on both sides.
TrackedEnabled ==
    \A r \in runtimeIds :
        /\ saved[r] = "enabled" \/ (r = cur /\ pc \in Stopping)
        /\ statuses[r] # NoStatus
        /\ snap[r] # NoStatus \/ (r = cur /\ pc \in Starting)

\* The projection has a status for the rules of the file and for no other.
StatusMatchesFile ==
    \A r \in Rules :
        /\ statuses[r] # NoStatus => saved[r] # "absent" \/ (r = cur /\ pc = "forget")
        /\ loaded /\ saved[r] # "absent" =>
              statuses[r] # NoStatus \/ (r = cur /\ pc = "reset")
        /\ saved[r] = "disabled" /\ statuses[r] # NoStatus =>
              statuses[r] = Default \/ (r = cur /\ pc \in Stopping)

\* The projection is published, except the first status of a rule being started.
ShownIsStatus ==
    \A r \in Rules :
        ctx[r] = statuses[r] \/ (r = cur /\ pc \in Starting \cup {"publish"})

\* A status that no listener reports shows no listener.
Stopped(status) == ~status.running /\ status.conns = 0
UntrackedStopped ==
    \A r \in Rules :
        statuses[r] # NoStatus /\ (r \notin runtimeIds \/ snap[r] = NoStatus)
            => Stopped(statuses[r])

\* What stopping a rule, and shutdown, have achieved at each place.
NothingLeft ==
    /\ pc = "stopped" => \A t \in TaskIds : Live(t) => task[t].rule # cur
    /\ pc \in Closing \ {"awaitAll"} => \A t \in TaskIds : ~Live(t)
    /\ pc \in {"unsubscribe", "publishLast", "ended"} =>
          \A r \in Rules : snap[r] # NoStatus => Stopped(snap[r])
    /\ pc \in {"publishLast", "ended"} => sub = "none"
    /\ pc = "ended" => \A r \in Rules : ctx[r] # NoStatus => Stopped(ctx[r])

\* The snapshot has the state of every task that listens.
Reported ==
    \A t \in TaskIds : Listening(t) =>
        snap[task[t].rule] =
            [running |-> TRUE, conns |-> task[t].conns, error |-> task[t].error]

\* A task closes because it was told to, and is waited for, or has an error.
Told ==
    \A t \in TaskIds :
        /\ Live(t) /\ task[t].stop => t \in waits
        /\ task[t].phase \in {"closing", "draining"} => task[t].stop \/ task[t].error

\* With no change to see, the subscription has copied the snapshot.
Copied ==
    sub = "wait" /\ ~dirty =>
        \A r \in runtimeIds :
            statuses[r] = snap[r] \/ (r = cur /\ pc \in Starting \cup {"publish"})

\* An enabled rule is tracked, shows its error or is about to be started; the
\* snapshot of a tracked one says that it runs or why it does not.
Explained ==
    /\ loaded => \A r \in Rules : saved[r] = "enabled" =>
          \/ r \in runtimeIds \cup rest
          \/ statuses[r] = Failed
          \/ r = cur /\ pc \in {"track", "resetFailed"}
    /\ pc \notin Closing => \A r \in runtimeIds :
          \/ snap[r] # NoStatus /\ (snap[r].running \/ snap[r].error)
          \/ r = cur /\ pc \in Starting \cup Stopping

FileInv == WorksOnSaved /\ TrackedEnabled /\ StatusMatchesFile /\ ShownIsStatus
ShownInv == /\ FileInv /\ UntrackedStopped /\ NothingLeft /\ Reported
            /\ Told /\ Copied /\ Explained

\* A serve task, and the timeout that drops it, leave the operation and the
\* projection alone, and give no rule its first status.
LEMMA ServeFrame ==
    ASSUME IInv, AbortOverdue \/ \E t \in TaskIds : Serve(t)
    PROVE  /\ UNCHANGED <<saved, pc, cur, rest, waits, running, loaded, sub>>
           /\ UNCHANGED <<statuses, runtimeIds, ctx>>
           /\ \A r \in Rules : snap'[r] = NoStatus <=> snap[r] = NoStatus
           /\ (snap' = snap /\ dirty' = dirty) \/ dirty' = (sub # "none")
<1> USE DEF IInv, TypeOK, taskFrame, file, opVars, projVars, subVars
<1>1. CASE AbortOverdue
  BY <1>1 DEF AbortOverdue
<1>2. ASSUME NEW r, NEW s \in Status, Report(r, s)
      PROVE  /\ \A q \in Rules : snap'[q] = NoStatus <=> snap[q] = NoStatus
             /\ dirty' = (sub # "none")
  BY <1>2, ConstantsAssumption DEF Report, Notify, Status
<1>3. ASSUME NEW t \in TaskIds, Serve(t)
      PROVE  /\ UNCHANGED <<saved, pc, cur, rest, waits, running, loaded, sub>>
             /\ UNCHANGED <<statuses, runtimeIds, ctx>>
             /\ \A r \in Rules : snap'[r] = NoStatus <=> snap[r] = NoStatus
             /\ (snap' = snap /\ dirty' = dirty) \/ dirty' = (sub # "none")
  <2>1. task[t] \in Task
    OBVIOUS
  <2>2. CASE Accept(t)
    <3>1. [running |-> TRUE, conns |-> task[t].conns + 1, error |-> task[t].error] \in Status
      BY <2>1, <2>2, ConstantsAssumption DEF Accept, Task, Status
    <3> QED
      BY <1>2, <2>2, <3>1 DEF Accept
  <2>3. ASSUME NEW failed \in BOOLEAN, ClientEnds(t, failed)
        PROVE  /\ UNCHANGED <<saved, pc, cur, rest, waits, running, loaded, sub>>
               /\ UNCHANGED <<statuses, runtimeIds, ctx>>
               /\ \A r \in Rules : snap'[r] = NoStatus <=> snap[r] = NoStatus
               /\ dirty' = (sub # "none")
    <3> DEFINE error == task[t].error \/ failed
    <3>1. error \in BOOLEAN
      OBVIOUS
    <3>2. Report(task[t].rule, [running |-> TRUE, conns |-> task[t].conns - 1, error |-> error])
      BY <2>3 DEF ClientEnds
    <3> HIDE DEF error
    <3>3. [running |-> TRUE, conns |-> task[t].conns - 1, error |-> error] \in Status
      BY <2>1, <2>3, <3>1, ConstantsAssumption DEF ClientEnds, Task, Status
    <3>4. UNCHANGED taskFrame
      BY <2>3 DEF ClientEnds
    <3> QED
      BY <1>2, <3>2, <3>3, <3>4
  <2>4. CASE BreakOnStop(t) \/ BreakOnError(t)
    BY <2>4 DEF BreakOnStop, BreakOnError
  <2>5. CASE ReportClosed(t)
    <3>1. [running |-> FALSE, conns |-> task[t].conns, error |-> task[t].error] \in Status
      BY <2>1 DEF Task, Status
    <3> QED
      BY <1>2, <2>5, <3>1 DEF ReportClosed
  <2>6. CASE Drained(t)
    <3>1. [running |-> FALSE, conns |-> 0, error |-> task[t].error] \in Status
      BY <2>1, ConstantsAssumption DEF Task, Status
    <3> QED
      BY <1>2, <2>6, <3>1 DEF Drained
  <2> QED
    BY <1>3, <2>2, <2>3, <2>4, <2>5, <2>6 DEF Serve, Closes
<1> QED
  BY <1>1, <1>3

LEMMA NextWorksOnSaved ==
    ASSUME IInv, WorksOnSaved, [Next]_vars
    PROVE  WorksOnSaved'
<1> USE DEF WorksOnSaved, Stopping, Goto, StartEntry
<1>0. TypeOK /\ CurIsRule /\ StartsEnabled
  BY DEF IInv
<1> USE <1>0 DEF TypeOK, CurIsRule, StartsEnabled
<1>1. CASE UNCHANGED vars
  BY <1>1 DEF vars, file, opVars
<1>2. CASE Request
  BY <1>2 DEF Request, Create, Update, Delete, Enable, Disable, Retry, Shutdown, file
<1>3. CASE Initialize \/ LoadRules \/ LoadFails \/ Reset \/ Forget \/ Track
  BY <1>3 DEF Initialize, LoadRules, LoadFails, Reset, Forget, Track, file
<1>4. CASE ResetFailed \/ Publish
  BY <1>4 DEF ResetFailed, Publish, NextStart, file
<1>5. CASE PublishStopped \/ StartKeeps \/ StartReplaces \/ BindFails \/ BindListener
  BY <1>5 DEF PublishStopped, StartKeeps, StartReplaces, BindFails, BindListener, file
<1>6. CASE StopTakes \/ MarkStopped \/ MarkAllStopped \/ Unsubscribe \/ PublishLast
  BY <1>6 DEF StopTakes, MarkStopped, MarkAllStopped, Unsubscribe, PublishLast, file
<1>7. CASE AwaitTasks
  BY <1>7 DEF AwaitTasks, AfterAwait, file
<1>8. CASE Subscription
  BY <1>8 DEF Subscription, SubWakes, SubMerges, opVars, file
<1>9. CASE AbortOverdue \/ \E t \in TaskIds : Serve(t)
  BY <1>9, ServeFrame
<1>10. CASE Crash
  BY <1>10 DEF Crash
<1> QED
  BY <1>1, <1>2, <1>3, <1>4, <1>5, <1>6, <1>7, <1>8, <1>9, <1>10 DEF Next, Proceed

\* A merge copies what the snapshot says of a tracked rule, and nothing else.
LEMMA MergedCases ==
    ASSUME NEW r \in Rules
    PROVE  Merged[r] = IF r \in runtimeIds /\ snap[r] # NoStatus /\ statuses[r] # NoStatus
                       THEN snap[r] ELSE statuses[r]
BY DEF Merged

LEMMA StatusesAreNotNone ==
    /\ Default # NoStatus /\ Failed # NoStatus
    /\ [Default EXCEPT !.running = TRUE] # NoStatus
    /\ \A s \in Status : Quiet(s) # NoStatus
<1>1. NoStatus \notin Status
  BY ConstantsAssumption DEF Status
<1> QED
  BY <1>1, StatusTypes

LEMMA NextTrackedEnabled ==
    ASSUME IInv, FileInv, [Next]_vars
    PROVE  TrackedEnabled'
<1> USE DEF TrackedEnabled, Starting, Stopping, Goto, StartEntry
<1>0. TypeOK /\ CurIsRule /\ StartsEnabled /\ WorksOnSaved /\ TrackedEnabled
  BY DEF IInv, FileInv
<1> USE <1>0 DEF TypeOK, CurIsRule
<1>1. CASE UNCHANGED vars
  BY <1>1 DEF vars, file, opVars, infraVars, projVars
<1>2. CASE Request
  BY <1>2 DEF Request, Create, Update, Delete, Enable, Disable, Retry, Shutdown,
              file, infraVars, projVars
<1>3. CASE Initialize \/ LoadFails
  BY <1>3 DEF Initialize, LoadFails, file, infraVars, projVars
<1>4. CASE LoadRules
  BY <1>4 DEF LoadRules
<1>5. CASE Reset \/ ResetFailed
  BY <1>5, StatusesAreNotNone DEF Reset, ResetFailed, ResetStatus, NextStart, file, infraVars
<1>6. CASE Forget
  BY <1>6 DEF Forget, file, infraVars
<1>7. CASE Track
  BY <1>7, StatusesAreNotNone DEF Track, StartsEnabled, file, infraVars
<1>8. CASE Publish \/ PublishStopped \/ PublishLast \/ SubMerges
  BY <1>8, MergedCases DEF Publish, PublishStopped, PublishLast, SubMerges,
                           MergeRuntime, NextStart, file, infraVars, opVars
<1>9. CASE StartKeeps \/ StartReplaces \/ StopTakes
  BY <1>9 DEF StartKeeps, Healthy, StartReplaces, StopTakes, file, infraVars, projVars
<1>10. CASE BindFails \/ BindListener
  BY <1>10, StatusesAreNotNone DEF BindFails, BindListener, file, projVars
<1>11. CASE AwaitTasks
  BY <1>11 DEF AwaitTasks, AfterAwait, file, infraVars, projVars
<1>12. CASE MarkStopped \/ MarkAllStopped
  BY <1>12, StatusesAreNotNone DEF MarkStopped, MarkAllStopped, file, projVars
<1>13. CASE Unsubscribe \/ SubWakes
  BY <1>13 DEF Unsubscribe, SubWakes, file, opVars, infraVars, projVars
<1>14. CASE AbortOverdue \/ \E t \in TaskIds : Serve(t)
  BY <1>14, ServeFrame
<1>15. CASE Crash
  BY <1>15 DEF Crash
<1> QED
  BY <1>1, <1>2, <1>3, <1>4, <1>5, <1>6, <1>7, <1>8, <1>9, <1>10, <1>11, <1>12, <1>13,
     <1>14, <1>15 DEF Next, Proceed, Subscription

LEMMA NextStatusMatchesFile ==
    ASSUME IInv, FileInv, [Next]_vars
    PROVE  StatusMatchesFile'
<1> USE DEF StatusMatchesFile, Stopping, Goto, StartEntry
<1>0. TypeOK /\ CurIsRule /\ StartsEnabled /\ FileInv
  BY DEF IInv
<1> USE <1>0 DEF TypeOK, CurIsRule, FileInv
<1>1. CASE UNCHANGED vars
  BY <1>1 DEF vars, file, opVars, projVars
<1>2. CASE \E r \in Rules, c \in Configs : Create(r, c) \/ Update(r, c)
  BY <1>2 DEF Create, Update, projVars
<1>3. CASE \E r \in Rules : Delete(r) \/ Enable(r)
  BY <1>3 DEF Delete, Enable, projVars
<1>4. CASE Shutdown \/ \E r \in Rules : Disable(r) \/ Retry(r)
  BY <1>4 DEF Disable, Retry, Shutdown, projVars, file
<1>5. CASE Initialize \/ LoadFails
  BY <1>5 DEF Initialize, LoadFails, file, projVars
<1>6. CASE LoadRules
  BY <1>6, StatusesAreNotNone DEF LoadRules, file
<1>7. CASE Reset \/ Forget
  BY <1>7, StatusesAreNotNone DEF Reset, Forget, ResetStatus, WorksOnSaved, file
<1>8. CASE ResetFailed
  BY <1>8, StatusesAreNotNone DEF ResetFailed, ResetStatus, NextStart, WorksOnSaved, file
<1>9. CASE Track
  BY <1>9, StatusesAreNotNone DEF Track, StartsEnabled, file
<1>10. CASE Publish \/ PublishStopped \/ PublishLast \/ SubMerges
  BY <1>10, MergedCases DEF Publish, PublishStopped, PublishLast, SubMerges, TrackedEnabled,
                           MergeRuntime, NextStart, file, opVars
<1>11. CASE StartKeeps \/ StartReplaces \/ StopTakes \/ BindFails \/ BindListener
  BY <1>11 DEF StartKeeps, StartReplaces, StopTakes, BindFails, BindListener, file, projVars
<1>12. CASE AwaitTasks
  BY <1>12 DEF AwaitTasks, AfterAwait, file, projVars
<1>13. CASE MarkStopped \/ MarkAllStopped \/ Unsubscribe \/ SubWakes
  BY <1>13 DEF MarkStopped, MarkAllStopped, Unsubscribe, SubWakes, file, opVars, projVars
<1>14. CASE AbortOverdue \/ \E t \in TaskIds : Serve(t)
  BY <1>14, ServeFrame
<1>15. CASE Crash
  BY <1>15 DEF Crash
<1> QED
  BY <1>1, <1>2, <1>3, <1>4, <1>5, <1>6, <1>7, <1>8, <1>9, <1>10, <1>11, <1>12, <1>13,
     <1>14, <1>15 DEF Next, Request, Proceed, Subscription

LEMMA NextShownIsStatus ==
    ASSUME IInv, FileInv, [Next]_vars
    PROVE  ShownIsStatus'
<1> USE DEF ShownIsStatus, Starting, Goto
<1>0. TypeOK /\ CurIsRule /\ ShownIsStatus
  BY DEF IInv, FileInv
<1> USE <1>0 DEF TypeOK, CurIsRule
<1>1. CASE UNCHANGED vars
  BY <1>1 DEF vars, opVars, projVars
<1>2. CASE Request
  BY <1>2 DEF Request, Create, Update, Delete, Enable, Disable, Retry, Shutdown, projVars
<1>3. CASE Initialize \/ LoadFails
  BY <1>3 DEF Initialize, LoadFails, projVars
<1>4. CASE LoadRules \/ Reset \/ ResetFailed \/ Forget
  BY <1>4 DEF LoadRules, Reset, ResetFailed, ResetStatus, Forget
<1>5. CASE Track
  BY <1>5 DEF Track
<1>6. CASE Publish \/ PublishStopped \/ PublishLast \/ SubMerges
  BY <1>6 DEF Publish, PublishStopped, PublishLast, SubMerges, MergeRuntime
<1>7. CASE StartKeeps \/ StartReplaces \/ StopTakes \/ BindFails \/ BindListener
  BY <1>7 DEF StartKeeps, StartReplaces, StopTakes, BindFails, BindListener, projVars
<1>8. CASE AwaitTasks
  BY <1>8 DEF AwaitTasks, AfterAwait, projVars
<1>9. CASE MarkStopped \/ MarkAllStopped \/ Unsubscribe \/ SubWakes
  BY <1>9 DEF MarkStopped, MarkAllStopped, Unsubscribe, SubWakes, opVars, projVars
<1>10. CASE AbortOverdue \/ \E t \in TaskIds : Serve(t)
  BY <1>10, ServeFrame
<1>11. CASE Crash
  BY <1>11 DEF Crash
<1> QED
  BY <1>1, <1>2, <1>3, <1>4, <1>5, <1>6, <1>7, <1>8, <1>9, <1>10, <1>11
  DEF Next, Proceed, Subscription

LEMMA NextUntrackedStopped ==
    ASSUME IInv, UntrackedStopped, TrackedEnabled, [Next]_vars
    PROVE  UntrackedStopped'
<1> USE DEF UntrackedStopped, Goto
<1>0. TypeOK /\ CurIsRule
  BY DEF IInv
<1> USE <1>0 DEF TypeOK, CurIsRule
<1>a. Stopped(Default) /\ Stopped(Failed)
  BY DEF Stopped, Default, Failed
<1>1. CASE UNCHANGED vars
  BY <1>1 DEF vars, infraVars, projVars
<1>2. CASE Request
  BY <1>2 DEF Request, Create, Update, Delete, Enable, Disable, Retry, Shutdown,
              infraVars, projVars
<1>3. CASE Initialize \/ LoadFails
  BY <1>3 DEF Initialize, LoadFails, infraVars, projVars
<1>4. CASE LoadRules \/ Reset \/ ResetFailed \/ Forget
  BY <1>4, <1>a DEF LoadRules, Reset, ResetFailed, ResetStatus, Forget, infraVars
<1>5. CASE Track
  BY <1>5, <1>a DEF Track, infraVars
<1>6. CASE Publish \/ PublishStopped \/ PublishLast \/ SubMerges
  BY <1>6, MergedCases DEF Publish, PublishStopped, PublishLast, SubMerges, MergeRuntime,
                           infraVars
<1>7. CASE StartKeeps \/ StartReplaces \/ StopTakes \/ AwaitTasks \/ Unsubscribe \/ SubWakes
  BY <1>7 DEF StartKeeps, StartReplaces, StopTakes, AwaitTasks, Unsubscribe, SubWakes,
              infraVars, projVars
<1>8. CASE BindFails \/ BindListener \/ MarkStopped \/ MarkAllStopped
  BY <1>8, StatusesAreNotNone DEF BindFails, BindListener, MarkStopped, MarkAllStopped, projVars
<1>9. CASE AbortOverdue \/ \E t \in TaskIds : Serve(t)
  BY <1>9, ServeFrame
<1>10. CASE Crash
  BY <1>10 DEF Crash
<1> QED
  BY <1>1, <1>2, <1>3, <1>4, <1>5, <1>6, <1>7, <1>8, <1>9, <1>10
  DEF Next, Proceed, Subscription

\* What the step of a serve task does to its record and to the snapshot.
LEMMA ServeReports ==
    ASSUME IInv, NEW t \in TaskIds, Serve(t)
    PROVE  /\ \A u \in TaskIds \ {t} : task'[u] = task[u]
           /\ Live(t)
           /\ \A q \in Rules \ {task[t].rule} : snap'[q] = snap[q]
           /\ \A q \in Rules : snap[q] = NoStatus => snap'[q] = NoStatus
           /\ Listening(t)' =>
                /\ Listening(t) /\ task'[t].rule = task[t].rule
                /\ snap[task[t].rule] # NoStatus =>
                      snap'[task[t].rule] = [running |-> TRUE, conns |-> task'[t].conns,
                                             error |-> task'[t].error]
           /\ Live(t)' => task'[t].stop = task[t].stop
           /\ task'[t].phase \in {"closing", "draining"} => task'[t].stop \/ task'[t].error
                \/ (task[t].phase \in {"closing", "draining"} /\ task'[t].error = task[t].error)
<1>0. /\ task \in [TaskIds -> Task] /\ task[t] \in Task
      /\ task[t].phase # "done" => task[t].rule \in Rules
      /\ snap \in [Rules -> Status \cup {NoStatus}]
  BY DEF IInv, TypeOK, TasksServe, TaskServes, Live
<1> USE <1>0 DEF Task, Live, Listening, Report
<1>1. CASE Accept(t)
  BY <1>1 DEF Accept
<1>2. ASSUME NEW failed \in BOOLEAN, ClientEnds(t, failed)
      PROVE  /\ \A u \in TaskIds \ {t} : task'[u] = task[u]
             /\ Listening(t) /\ Listening(t)' /\ task'[t].rule = task[t].rule
             /\ \A q \in Rules \ {task[t].rule} : snap'[q] = snap[q]
             /\ \A q \in Rules : snap[q] = NoStatus => snap'[q] = NoStatus
             /\ snap[task[t].rule] # NoStatus =>
                   snap'[task[t].rule] = [running |-> TRUE, conns |-> task'[t].conns,
                                          error |-> task'[t].error]
             /\ task'[t].stop = task[t].stop
  <2> DEFINE error == task[t].error \/ failed
  <2>1. /\ task' = [task EXCEPT ![t].conns = @ - 1, ![t].error = error]
        /\ Report(task[t].rule, [running |-> TRUE, conns |-> task[t].conns - 1, error |-> error])
        /\ Listening(t)
    BY <1>2 DEF ClientEnds
  <2> HIDE DEF error
  <2> QED
    BY <2>1
<1>3. CASE BreakOnStop(t) \/ BreakOnError(t)
  BY <1>3 DEF BreakOnStop, BreakOnError
<1>4. CASE ReportClosed(t)
  BY <1>4 DEF ReportClosed
<1>5. CASE Drained(t)
  BY <1>5 DEF Drained, Finished
<1> QED
  BY <1>1, <1>2, <1>3, <1>4, <1>5 DEF Serve, Closes

LEMMA NextNothingLeft ==
    ASSUME IInv, UntrackedStopped, NothingLeft, [Next]_vars
    PROVE  NothingLeft'
<1> USE ConstantsAssumption DEF NothingLeft, Closing, Goto
<1>0. TypeOK /\ CurIsRule /\ WaitsOwned /\ EntryOfRule /\ TasksServe /\ NothingLeft
  BY DEF IInv
<1> USE <1>0 DEF TypeOK
<1>a. \A s \in Status : Stopped(Quiet(s))
  BY DEF Stopped, Quiet, Status
<1>1. CASE UNCHANGED vars
  BY <1>1 DEF vars, opVars, infraVars, projVars, subVars, Live
<1>2. CASE Request
  BY <1>2 DEF Request, Create, Update, Delete, Enable, Disable, Retry, Shutdown, StartEntry
<1>3. CASE \/ Initialize \/ LoadRules \/ LoadFails \/ Reset \/ ResetFailed \/ Forget
           \/ Track \/ Publish \/ PublishStopped \/ StartKeeps \/ StartReplaces
           \/ BindFails \/ BindListener \/ StopTakes \/ MarkStopped \/ Crash
  BY <1>3 DEF Initialize, LoadRules, LoadFails, Reset, ResetFailed, Forget, Track, Publish,
              PublishStopped, StartKeeps, StartReplaces, BindFails, BindListener, StopTakes,
              MarkStopped, Crash, NextStart, StartEntry
<1>4. CASE AwaitTasks
  <2>1. /\ \A t \in waits : ~Live(t)
        /\ pc \in {"awaitOld", "awaitStop", "awaitAll"}
        /\ pc' = AfterAwait[pc] /\ cur' = cur /\ UNCHANGED task
    BY <1>4 DEF AwaitTasks, AfterAwait, infraVars
  <2>2. pc' \in {"start", "stopped", "drained"} /\ (pc' = "stopped" => pc = "awaitStop")
                                                /\ (pc' = "drained" => pc = "awaitAll")
    BY <2>1 DEF AfterAwait
  <2>3. pc = "awaitAll" => \A t \in TaskIds : ~Live(t)
    BY <2>1 DEF EntryOfRule, WaitsOwned, TasksServe, TaskServes
  <2>4. pc = "awaitStop" => \A t \in TaskIds : Live(t) => task[t].rule # cur
    BY <2>1 DEF EntryOfRule, WaitsOwned, TasksServe, TaskServes
  <2> QED
    BY <2>1, <2>2, <2>3, <2>4 DEF Live
<1>5. CASE MarkAllStopped
  BY <1>5, <1>a DEF MarkAllStopped, Live
<1>6. CASE Unsubscribe
  BY <1>6 DEF Unsubscribe, infraVars, Live
<1>7. CASE PublishLast
  <2>1. ASSUME NEW r \in Rules, ctx'[r] # NoStatus
        PROVE  Stopped(ctx'[r])
    BY <1>7, <2>1, MergedCases DEF PublishLast, MergeRuntime, UntrackedStopped
  <2> QED
    BY <1>7, <2>1 DEF PublishLast, infraVars, subVars, Live
<1>8. CASE Subscription
  BY <1>8 DEF Subscription, SubWakes, SubMerges, opVars, infraVars, Live
<1>9. CASE AbortOverdue
  BY <1>9 DEF AbortOverdue, opVars, subVars, projVars, Live, Finished
<1>10. CASE \E t \in TaskIds : Serve(t)
  <2>1. UNCHANGED <<pc, cur, sub, ctx>>
    BY <1>10, ServeFrame
  <2>2. \A t \in TaskIds : Live(t)' => Live(t) /\ task'[t].rule = task[t].rule
    BY <1>10, EndsOnly
  <2>3. \E t \in TaskIds : Live(t)
    BY <1>10, ServeReports
  <2> QED
    BY <2>1, <2>2, <2>3
<1> QED
  BY <1>1, <1>2, <1>3, <1>4, <1>5, <1>6, <1>7, <1>8, <1>9, <1>10 DEF Next, Proceed

LEMMA NextReported ==
    ASSUME IInv, NothingLeft, Reported, [Next]_vars
    PROVE  Reported'
<1> USE ConstantsAssumption DEF Reported
<1>0. TypeOK /\ CurIsRule /\ WaitsOwned /\ EntryOfRule /\ TasksServe /\ OneTaskPerRule
  BY IInvOneTaskPerRule DEF IInv
<1> USE <1>0 DEF TypeOK
<1>a. \A t \in TaskIds : Listening(t) => Live(t) /\ task[t].rule \in Rules
  BY DEF Listening, Live, TasksServe, TaskServes
<1>1. CASE UNCHANGED <<task, snap>>
  BY <1>1 DEF Listening
<1>2. CASE Request \/ StopTakes \/ StartReplaces
  <2>1. CASE UNCHANGED <<task, snap>>
    BY <2>1, <1>1
  <2>2. ASSUME NEW S, task' = Signalled(S), UNCHANGED snap
        PROVE  Reported'
    BY <2>2 DEF Signalled, Listening, Task
  <2> QED
    BY <1>2, <2>1, <2>2 DEF Request, StopTakes, StartReplaces, Create, Update, Delete,
                            Enable, Disable, Retry, Shutdown, infraVars
<1>3. CASE BindFails
  <2>1. \A t \in TaskIds : Live(t) => task[t].rule # cur
    BY <1>3 DEF BindFails, EntryOfRule, WaitsOwned
  <2> QED
    BY <1>3, <1>a, <2>1 DEF BindFails, Listening
<1>4. CASE BindListener
  <2>1. PICK t \in TaskIds :
          task' = [task EXCEPT ![t] =
                [Finished EXCEPT !.phase = "serving", !.rule = cur,
                                 !.config = config[cur]]]
    BY <1>4 DEF BindListener
  <2>2. /\ task'[t].rule = cur /\ task'[t].conns = 0 /\ task'[t].error = FALSE
        /\ \A u \in TaskIds \ {t} : task'[u] = task[u]
    BY <2>1 DEF Finished
  <2>3. cur \in Rules /\ snap' = [snap EXCEPT ![cur] = [Default EXCEPT !.running = TRUE]]
    BY <1>4 DEF BindListener, CurIsRule
  <2>4. snap'[cur] = [running |-> TRUE, conns |-> 0, error |-> FALSE]
        /\ \A q \in Rules \ {cur} : snap'[q] = snap[q]
    BY <2>3 DEF Default
  <2>5. \A u \in TaskIds : Listening(u) => task[u].rule # cur
    BY <1>4 DEF BindListener
  <2>6. ASSUME NEW u \in TaskIds \ {t}, Listening(u)'
        PROVE  snap'[task'[u].rule] =
                 [running |-> TRUE, conns |-> task'[u].conns, error |-> task'[u].error]
    <3>1. task'[u] = task[u] /\ Listening(u)
      BY <2>2, <2>6 DEF Listening
    <3> QED
      BY <1>a, <2>4, <2>5, <3>1
  <2> QED
    BY <2>2, <2>4, <2>6
<1>5. CASE MarkStopped
  BY <1>5, <1>a DEF MarkStopped, NothingLeft, Listening
<1>6. CASE MarkAllStopped
  BY <1>6, <1>a DEF MarkAllStopped, NothingLeft, Listening, Closing
<1>7. CASE AbortOverdue
  <2>1. PICK t \in TaskIds : task' = [task EXCEPT ![t] = Finished]
    BY <1>7 DEF AbortOverdue
  <2>2. ~Listening(t)' /\ \A u \in TaskIds \ {t} : task'[u] = task[u]
    BY <2>1 DEF Listening, Finished
  <2> QED
    BY <1>7, <2>2 DEF AbortOverdue, Listening
<1>8. ASSUME NEW t \in TaskIds, Serve(t)
      PROVE  Reported'
  <2>0. Live(t) /\ \A u \in TaskIds \ {t} : task'[u] = task[u]
    BY <1>8, ServeReports
  <2> SUFFICES ASSUME NEW u \in TaskIds, Listening(u)'
               PROVE  snap'[task'[u].rule] =
                        [running |-> TRUE, conns |-> task'[u].conns, error |-> task'[u].error]
    OBVIOUS
  <2>1. CASE u = t
    <3>1. Listening(t) /\ task'[t].rule = task[t].rule
      BY <1>8, <2>1, ServeReports
    <3>2. snap[task[t].rule] # NoStatus
      <4>1. [running |-> TRUE, conns |-> task[t].conns, error |-> task[t].error] \in Status
        BY DEF Task, Status
      <4> QED
        BY <3>1, <4>1 DEF Status
    <3> QED
      BY <1>8, <2>1, <3>1, <3>2, ServeReports
  <2>2. CASE u # t
    <3>1. task'[u] = task[u] /\ Listening(u) /\ Live(t)
      BY <2>0, <2>2 DEF Listening
    <3>2. task[u].rule \in Rules \ {task[t].rule}
      BY <1>a, <2>2, <3>1 DEF OneTaskPerRule
    <3>3. snap'[task[u].rule] = snap[task[u].rule]
      BY <1>8, <3>2, ServeReports
    <3> QED
      BY <3>1, <3>3
  <2> QED
    BY <2>1, <2>2
<1>9. CASE Crash
  BY <1>9 DEF Crash, Listening, Finished
<1> QED
  <2>1. CASE \/ Initialize \/ LoadRules \/ LoadFails \/ Reset \/ ResetFailed \/ Forget
             \/ Track \/ Publish \/ PublishStopped \/ StartKeeps \/ AwaitTasks
             \/ Unsubscribe \/ PublishLast \/ Subscription \/ UNCHANGED vars
    BY <1>1, <2>1 DEF Initialize, LoadRules, LoadFails, Reset, ResetFailed, Forget, Track,
        Publish, PublishStopped, StartKeeps, AwaitTasks, Unsubscribe, PublishLast,
        Subscription, SubWakes, SubMerges, vars, infraVars
  <2> QED
    BY <1>2, <1>3, <1>4, <1>5, <1>6, <1>7, <1>8, <1>9, <2>1 DEF Next, Proceed

LEMMA NextTold ==
    ASSUME IInv, Told, [Next]_vars
    PROVE  Told'
<1> USE ConstantsAssumption DEF Told
<1>0. TypeOK /\ CurIsRule /\ WaitsOwned /\ Told
  BY DEF IInv
<1> USE <1>0 DEF TypeOK
<1>1. CASE UNCHANGED <<task, waits>>
  BY <1>1 DEF Live
<1>2. ASSUME NEW S, task' = Signalled(S), S \cap TaskIds \subseteq waits', waits = {}
      PROVE  Told'
  BY <1>2 DEF Signalled, Live, Task
<1>3. CASE StopTakes \/ StartReplaces \/ Shutdown
  <2>1. waits = {}
    BY <1>3 DEF StopTakes, StartReplaces, Shutdown, WaitsOwned
  <2>2. CASE StopTakes
    BY <1>2, <2>1, <2>2 DEF StopTakes
  <2>3. CASE StartReplaces
    BY <1>2, <2>1, <2>3 DEF StartReplaces
  <2>4. CASE Shutdown
    BY <1>2, <2>1, <2>4 DEF Shutdown
  <2> QED
    BY <1>3, <2>2, <2>3, <2>4
<1>4. CASE AwaitTasks
  BY <1>4 DEF AwaitTasks, infraVars, Live
<1>5. CASE BindListener
  <2>1. PICK t \in TaskIds :
          task' = [task EXCEPT ![t] =
                [Finished EXCEPT !.phase = "serving", !.rule = cur,
                                 !.config = config[cur]]]
    BY <1>5 DEF BindListener
  <2>2. /\ task'[t].phase = "serving" /\ ~task'[t].stop
        /\ \A u \in TaskIds \ {t} : task'[u] = task[u]
    BY <2>1 DEF Finished
  <2> QED
    BY <1>5, <2>2 DEF BindListener, Goto, Live
<1>6. CASE AbortOverdue
  <2>1. PICK t \in TaskIds : task' = [task EXCEPT ![t] = Finished]
    BY <1>6 DEF AbortOverdue
  <2>2. task'[t].phase = "done" /\ \A u \in TaskIds \ {t} : task'[u] = task[u]
    BY <2>1 DEF Finished
  <2> QED
    BY <1>6, <2>2 DEF AbortOverdue, opVars, Live
<1>7. ASSUME NEW t \in TaskIds, Serve(t)
      PROVE  Told'
  <2>1. UNCHANGED waits /\ Live(t) /\ \A u \in TaskIds \ {t} : task'[u] = task[u]
    BY <1>7, ServeReports, ServeFrame
  <2>2. Live(t)' => task'[t].stop = task[t].stop
    BY <1>7, ServeReports
  <2>3. task'[t].phase \in {"closing", "draining"} => Live(t)'
    BY DEF Live
  <2>4. task'[t].phase \in {"closing", "draining"} => task'[t].stop \/ task'[t].error
    BY <1>7, <2>2, <2>3, ServeReports
  <2> QED
    BY <2>1, <2>2, <2>4 DEF Live
<1>8. CASE Crash
  <2>1. \A t \in TaskIds : task'[t].phase = "done"
    BY <1>8 DEF Crash, Finished
  <2> QED
    BY <2>1 DEF Live
<1> QED
  <2>1. CASE \/ Initialize \/ LoadRules \/ LoadFails \/ Reset \/ ResetFailed \/ Forget
             \/ Track \/ Publish \/ PublishStopped \/ StartKeeps \/ BindFails
             \/ MarkStopped \/ MarkAllStopped
             \/ Unsubscribe \/ PublishLast \/ Subscription \/ UNCHANGED vars
    BY <1>1, <2>1 DEF Initialize, LoadRules, LoadFails, Reset, ResetFailed, Forget, Track,
        Publish, PublishStopped, StartKeeps, BindFails, MarkStopped, MarkAllStopped,
        Unsubscribe, PublishLast, NextStart, Goto,
        Subscription, SubWakes, SubMerges, vars, infraVars, opVars
  <2>2. CASE \/ \E r \in Rules, c \in Configs : Create(r, c) \/ Update(r, c)
             \/ \E r \in Rules : Delete(r) \/ Enable(r) \/ Disable(r) \/ Retry(r)
    BY <1>1, <2>2 DEF Create, Update, Delete, Enable, Disable, Retry, Goto, infraVars
  <2> QED
    BY <1>3, <1>4, <1>5, <1>6, <1>7, <1>8, <2>1, <2>2 DEF Next, Request, Proceed

LEMMA NextCopied ==
    ASSUME IInv, FileInv, Copied, [Next]_vars
    PROVE  Copied'
<1> USE DEF Copied, Starting, Goto
<1>0. TypeOK /\ CurIsRule /\ Copied /\ TrackedEnabled
  BY DEF IInv, FileInv
<1> USE <1>0 DEF TypeOK, CurIsRule
<1>1. CASE UNCHANGED vars
  BY <1>1 DEF vars, opVars, infraVars, projVars, subVars
<1>2. CASE Request
  BY <1>2 DEF Request, Create, Update, Delete, Enable, Disable, Retry, Shutdown,
              infraVars, projVars, subVars
<1>3. CASE Initialize \/ LoadFails
  BY <1>3 DEF Initialize, LoadFails, infraVars, projVars, subVars
<1>4. CASE LoadRules \/ Reset \/ ResetFailed \/ Forget
  BY <1>4 DEF LoadRules, Reset, ResetFailed, ResetStatus, Forget, NextStart, infraVars, subVars
<1>5. CASE Track
  BY <1>5 DEF Track, infraVars, subVars
<1>6. CASE Publish \/ PublishStopped \/ PublishLast \/ SubMerges
  <2>1. /\ statuses' = Merged /\ UNCHANGED <<runtimeIds, snap>>
        /\ pc \in Starting => UNCHANGED <<pc, cur>>
    BY <1>6 DEF Publish, PublishStopped, PublishLast, SubMerges, MergeRuntime,
                infraVars, opVars
  <2>2. ASSUME NEW r \in runtimeIds, ~(r = cur /\ pc \in Starting)
        PROVE  Merged[r] = snap[r]
    BY <2>2, MergedCases DEF TrackedEnabled
  <2> QED
    BY <2>1, <2>2
<1>7. CASE StartKeeps \/ StartReplaces \/ StopTakes
  BY <1>7 DEF StartKeeps, StartReplaces, StopTakes, infraVars, projVars, subVars
<1>8. CASE BindFails \/ BindListener \/ MarkStopped \/ MarkAllStopped
  BY <1>8 DEF BindFails, BindListener, MarkStopped, MarkAllStopped, Notify
<1>9. CASE AwaitTasks
  BY <1>9 DEF AwaitTasks, AfterAwait, infraVars, projVars, subVars
<1>10. CASE Unsubscribe \/ SubWakes
  BY <1>10 DEF Unsubscribe, SubWakes
<1>11. CASE AbortOverdue \/ \E t \in TaskIds : Serve(t)
  BY <1>11, ServeFrame
<1>12. CASE Crash
  BY <1>12 DEF Crash
<1> QED
  BY <1>1, <1>2, <1>3, <1>4, <1>5, <1>6, <1>7, <1>8, <1>9, <1>10, <1>11, <1>12
  DEF Next, Proceed, Subscription

\* What the last report of a closing task says, if nobody stops its rule.
LEMMA ServeExplains ==
    ASSUME IInv, Told, TrackedEnabled, NEW t \in TaskIds, Serve(t), NEW r \in runtimeIds,
           ~(r = cur /\ pc \in Starting \cup Stopping), pc \notin Closing,
           snap[r] # NoStatus /\ (snap[r].running \/ snap[r].error)
    PROVE  snap'[r] # NoStatus /\ (snap'[r].running \/ snap'[r].error)
<1>0. TypeOK /\ WaitsOwned /\ TasksServe
  BY DEF IInv
<1>1. task[t] \in Task /\ r \in Rules /\ snap \in [Rules -> Status \cup {NoStatus}]
  BY <1>0 DEF TypeOK
<1>2. Live(t) /\ task[t].rule = r /\ task[t].stop => FALSE
  BY <1>0, <1>1 DEF Told, WaitsOwned, Starting, Stopping, Closing
<1>3. snap'[r] = NoStatus <=> snap[r] = NoStatus
  BY <1>1, ServeFrame
<1>4. CASE task[t].rule # r
  BY <1>1, <1>4, ServeReports
<1>5. CASE task[t].rule = r
  <2> USE <1>1, <1>3, <1>5 DEF Report
  <2>1. CASE Accept(t)
    BY <2>1 DEF Accept
  <2>2. ASSUME NEW failed \in BOOLEAN, ClientEnds(t, failed)
        PROVE  snap'[r].running
    <3> DEFINE error == task[t].error \/ failed
    <3>1. Report(task[t].rule, [running |-> TRUE, conns |-> task[t].conns - 1, error |-> error])
      BY <2>2 DEF ClientEnds
    <3> HIDE DEF error
    <3> QED
      BY <3>1
  <2>3. CASE BreakOnStop(t) \/ BreakOnError(t)
    BY <2>3 DEF BreakOnStop, BreakOnError
  <2>4. CASE ReportClosed(t) \/ Drained(t)
    <3>1. task[t].error
      BY <1>2, <2>4 DEF ReportClosed, Drained, Told, Live
    <3> QED
      BY <2>4, <3>1 DEF ReportClosed, Drained
  <2> QED
    BY <2>1, <2>2, <2>3, <2>4 DEF Serve, Closes
<1> QED
  BY <1>4, <1>5

LEMMA NextExplained ==
    ASSUME IInv, FileInv, Told, Explained, [Next]_vars
    PROVE  Explained'
<1> USE DEF Explained, Starting, Stopping, Closing, Goto, StartEntry
<1>0. TypeOK /\ CurIsRule /\ StartsEnabled /\ Explained /\ WorksOnSaved /\ TrackedEnabled
  BY DEF IInv, FileInv
<1> USE <1>0 DEF TypeOK, CurIsRule
<1>a. /\ Failed.error /\ [Default EXCEPT !.running = TRUE].running
      /\ Failed # NoStatus /\ [Default EXCEPT !.running = TRUE] # NoStatus
  BY StatusesAreNotNone DEF Failed, Default
<1>1. CASE UNCHANGED vars
  BY <1>1 DEF vars, file, opVars, infraVars, projVars, subVars
<1>2. CASE \E r \in Rules, c \in Configs : Create(r, c) \/ Update(r, c)
  BY <1>2 DEF Create, Update, infraVars, projVars
<1>3. CASE \E r \in Rules : Delete(r) \/ Enable(r)
  BY <1>3 DEF Delete, Enable, infraVars, projVars
<1>4. CASE Shutdown \/ \E r \in Rules : Disable(r) \/ Retry(r)
  BY <1>4 DEF Disable, Retry, Shutdown, infraVars, projVars, file
<1>5. CASE Initialize
  BY <1>5 DEF Initialize, file, infraVars, projVars
<1>6. CASE LoadFails
  BY <1>6 DEF LoadFails, file, infraVars, projVars
<1>7. CASE LoadRules
  BY <1>7 DEF LoadRules, file
<1>8. CASE Reset
  BY <1>8, <1>a DEF Reset, ResetStatus, WorksOnSaved, file, infraVars
<1>9. CASE ResetFailed
  BY <1>9, <1>a DEF ResetFailed, ResetStatus, NextStart, file, infraVars
<1>10. CASE Forget
  BY <1>10 DEF Forget, WorksOnSaved, file, infraVars
<1>11. CASE Track
  BY <1>11 DEF Track, file, infraVars
<1>12. CASE Publish
  BY <1>12, MergedCases DEF Publish, MergeRuntime, NextStart, file, infraVars
<1>13. CASE PublishStopped \/ PublishLast \/ SubMerges
  BY <1>13, MergedCases DEF PublishStopped, PublishLast, SubMerges, MergeRuntime,
                            file, infraVars, opVars
<1>14. CASE StartKeeps \/ StartReplaces \/ StopTakes
  BY <1>14 DEF StartKeeps, Healthy, StartReplaces, StopTakes, file, infraVars, projVars
<1>15. CASE BindFails \/ BindListener
  <2>1. /\ snap'[cur] # NoStatus /\ (snap'[cur].running \/ snap'[cur].error)
        /\ \A r \in Rules \ {cur} : snap'[r] = snap[r]
    BY <1>15, <1>a DEF BindFails, BindListener
  <2>2. /\ UNCHANGED <<saved, statuses, runtimeIds, loaded, rest>>
        /\ pc = "start" /\ pc' = "publish"
    BY <1>15 DEF BindFails, BindListener, file, projVars
  <2> QED
    BY <2>1, <2>2
<1>16. CASE AwaitTasks
  BY <1>16 DEF AwaitTasks, AfterAwait, file, infraVars, projVars
<1>17. CASE MarkStopped \/ MarkAllStopped \/ Unsubscribe \/ SubWakes
  BY <1>17 DEF MarkStopped, MarkAllStopped, Unsubscribe, SubWakes, file, opVars,
               infraVars, projVars
<1>18. CASE AbortOverdue
  BY <1>18 DEF AbortOverdue, file, opVars, projVars
<1>19. ASSUME NEW t \in TaskIds, Serve(t)
       PROVE  Explained'
  <2>1. UNCHANGED <<saved, pc, cur, rest, loaded, statuses, runtimeIds>>
    BY <1>19, ServeFrame
  <2>2. ASSUME pc \notin Closing, NEW r \in runtimeIds
        PROVE  \/ snap'[r] # NoStatus /\ (snap'[r].running \/ snap'[r].error)
               \/ r = cur /\ pc \in Starting \cup Stopping
    BY <1>19, <2>2, ServeExplains
  <2> QED
    BY <2>1, <2>2
<1>20. CASE Crash
  BY <1>20 DEF Crash
<1> QED
  BY <1>1, <1>2, <1>3, <1>4, <1>5, <1>6, <1>7, <1>8, <1>9, <1>10, <1>11, <1>12, <1>13,
     <1>14, <1>15, <1>16, <1>17, <1>18, <1>19, <1>20 DEF Next, Request, Proceed, Subscription

LEMMA InitShownInv == Init => ShownInv
<1> SUFFICES ASSUME Init PROVE ShownInv
  OBVIOUS
<1>1. \A t \in TaskIds : task[t].phase = "done"
  BY DEF Init, Finished
<1> QED
  BY <1>1 DEF Init, ShownInv, FileInv, WorksOnSaved, TrackedEnabled, StatusMatchesFile,
      ShownIsStatus, UntrackedStopped, NothingLeft, Reported, Told, Copied, Explained,
      Starting, Stopping, Closing, Live, Listening

LEMMA NextShownInv == IInv /\ ShownInv /\ [Next]_vars => ShownInv'
BY NextWorksOnSaved, NextTrackedEnabled, NextStatusMatchesFile, NextShownIsStatus,
   NextUntrackedStopped, NextNothingLeft, NextReported, NextTold, NextCopied, NextExplained
DEF ShownInv, FileInv

THEOREM ShownInvariant == Spec => []ShownInv
BY InitShownInv, NextShownInv, InductiveInvariant, PTL DEF Spec

\* Between operations what is shown agrees with the persisted rules, however
\* many rules there are and whatever their listeners report meanwhile.
THEOREM ShownAgreesWithFile == Spec => []ShownMatchesFile
<1>1. ShownInv => ShownMatchesFile
  BY DEF ShownInv, FileInv, ShownMatchesFile, StatusMatchesFile, ShownIsStatus,
         Starting, Stopping
<1> QED
  BY <1>1, ShownInvariant, PTL

\* No status change is lost or overwritten, and an enabled rule that does not
\* listen shows why, for any number of rules, tasks and connections.
THEOREM NothingIsLost == Spec => []ShownIsExplained
<1>1. IInv /\ ShownInv => ShownIsExplained
  <2> SUFFICES ASSUME IInv, ShownInv, Settled
               PROVE  /\ \A r \in runtimeIds :
                            /\ ctx[r] = snap[r]
                            /\ running[r] # NoTask /\ Listening(running[r]) =>
                                  LET t == task[running[r]] IN
                                  ctx[r] = [running |-> TRUE, conns |-> t.conns,
                                            error |-> t.error]
                      /\ loaded => \A r \in Rules :
                            saved[r] = "enabled" => ctx[r].running \/ ctx[r].error
    BY DEF ShownIsExplained, ShownIsCurrent, EnabledIsExplained
  <2>1. pc = "idle" /\ sub = "wait" /\ ~dirty /\ rest = {} /\ runtimeIds \subseteq Rules
    BY DEF Settled, ShownInv, FileInv, WorksOnSaved, IInv, TypeOK
  <2>2. \A r \in Rules : ctx[r] = statuses[r]
    BY <2>1 DEF ShownInv, FileInv, ShownIsStatus, Starting
  <2>3. \A r \in runtimeIds : ctx[r] = snap[r]
    BY <2>1, <2>2 DEF ShownInv, Copied, Starting
  <2>4. ASSUME NEW r \in runtimeIds, running[r] # NoTask, Listening(running[r])
        PROVE  snap[r] = [running |-> TRUE, conns |-> task[running[r]].conns,
                          error |-> task[running[r]].error]
    <3>1. running[r] \in TaskIds /\ Live(running[r])
      BY <2>1, <2>4 DEF IInv, TypeOK, Listening, Live
    <3>2. task[running[r]].rule = r
      BY <2>1, <2>4, <3>1 DEF IInv, EntryMatches
    <3> QED
      BY <2>4, <3>1, <3>2 DEF ShownInv, Reported
  <2>5. ASSUME loaded, NEW r \in Rules, saved[r] = "enabled"
        PROVE  ctx[r].running \/ ctx[r].error
    <3>1. CASE r \in runtimeIds
      BY <2>1, <2>3, <3>1 DEF ShownInv, Explained, Starting, Stopping, Closing
    <3>2. CASE r \notin runtimeIds
      <4>1. ctx[r] = Failed
        BY <2>1, <2>2, <2>5, <3>2 DEF ShownInv, Explained
      <4> QED
        BY <4>1 DEF Failed, Default
    <3> QED
      BY <3>1, <3>2
  <2> QED
    BY <2>3, <2>4, <2>5
<1> QED
  BY <1>1, InductiveInvariant, ShownInvariant, PTL

\* Shutdown leaves no listener and nothing shown as running, for any number.
THEOREM ShutdownIsComplete == Spec => []ShutdownReleasesAll
<1>1. ShownInv => ShutdownReleasesAll
  BY DEF ShownInv, NothingLeft, ShutdownReleasesAll, Stopped, Closing
<1> QED
  BY <1>1, ShownInvariant, PTL

=============================================================================
