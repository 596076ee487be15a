---------------------------- MODULE PortForward ----------------------------
(***************************************************************************)
(* Local port forwarding: the application service that owns the persisted  *)
(* rules and their published statuses (application/port_forward), the      *)
(* controller that owns the listeners and the watch snapshot they report   *)
(* to (infrastructure/port_forward/core.rs), and one serve task per        *)
(* listener (infrastructure/port_forward/relay.rs).                        *)
(*                                                                         *)
(* The async mutex `mutations' admits one application operation at a time; *)
(* the operation in progress is the process counter pc.  It interleaves    *)
(* with the serve tasks, with the subscription task that copies listener   *)
(* statuses to the projection, and with crashes of the program.            *)
(***************************************************************************)
EXTENDS Naturals, FiniteSets

CONSTANTS
    Rules,      \* rule ids
    Configs,    \* what a rule says: listen endpoint and target
    Malformed,  \* the configurations normalize_rule rejects (edited by hand)
    TaskIds,    \* identities of serve tasks
    MaxConn,    \* MAX_CONNECTIONS of one listener
    MaxCrashes, \* bound: crashes of the program in one behaviour
    NoRule, NoTask, NoStatus

ASSUME ConstantsAssumption ==
    /\ Malformed \subseteq Configs
    /\ MaxConn \in Nat /\ MaxCrashes \in Nat
    /\ NoRule \notin Rules /\ NoTask \notin TaskIds
    /\ NoStatus \notin [running : BOOLEAN, conns : 0..MaxConn, error : BOOLEAN]

VARIABLES
    saved,      \* data/port_forward.json: absent, disabled or enabled
    config,     \* the same file: what each rule says
    pc,         \* where the operation holding `mutations' is
    cur,        \* the rule it works on
    rest,       \* rules initialize still has to start
    waits,      \* serve tasks it has signalled and waits for
    running,    \* PortForwardController::running
    task,       \* the serve tasks
    snap,       \* PortForwardController::status, the watch snapshot
    statuses,   \* PortForwardProjection::statuses
    runtimeIds, \* PortForwardProjection::runtime_ids
    ctx,        \* the statuses published in DATA_CONTEXT
    sub,        \* the subscription task: none, wait (for a change) or merge
    dirty,      \* the snapshot changed since the subscription last saw it
    loaded,     \* initialize read the rules of this run of the program
    crashes

file == <<saved, config>>
opVars == <<pc, cur, rest, waits>>
infraVars == <<running, task, snap>>
projVars == <<statuses, runtimeIds, ctx>>
subVars == <<sub, dirty>>
vars == <<file, opVars, infraVars, projVars, subVars, loaded, crashes>>

Status == [running : BOOLEAN, conns : 0..MaxConn, error : BOOLEAN]
Default == [running |-> FALSE, conns |-> 0, error |-> FALSE]
Failed == [Default EXCEPT !.error = TRUE]
Task == [phase : {"done", "serving", "closing", "draining"},
         rule : Rules \cup {NoRule}, config : Configs \cup {NoRule},
         conns : 0..MaxConn, error : BOOLEAN, stop : BOOLEAN]
Finished == [phase |-> "done", rule |-> NoRule, config |-> NoRule,
             conns |-> 0, error |-> FALSE, stop |-> FALSE]
Pc == {"off", "load", "idle", "reset", "resetFailed", "forget",
       "track", "start", "awaitOld", "publish",
       "stop", "awaitStop", "stopped", "publishStopped",
       "awaitAll", "drained", "unsubscribe", "publishLast", "ended"}

TypeOK ==
    /\ saved \in [Rules -> {"absent", "disabled", "enabled"}]
    /\ config \in [Rules -> Configs]
    /\ pc \in Pc
    /\ cur \in Rules \cup {NoRule}
    /\ rest \subseteq Rules
    /\ waits \subseteq TaskIds
    /\ running \in [Rules -> TaskIds \cup {NoTask}]
    /\ task \in [TaskIds -> Task]
    /\ snap \in [Rules -> Status \cup {NoStatus}]
    /\ statuses \in [Rules -> Status \cup {NoStatus}]
    /\ runtimeIds \subseteq Rules
    /\ ctx \in [Rules -> Status \cup {NoStatus}]
    /\ sub \in {"none", "wait", "merge"}
    /\ dirty \in BOOLEAN
    /\ loaded \in BOOLEAN
    /\ crashes \in Nat

Live(t) == task[t].phase # "done"
Listening(t) == task[t].phase = "serving"

\* The file holds anything; a fresh process has nothing in memory.
Init ==
    /\ saved \in [Rules -> {"absent", "disabled", "enabled"}]
    /\ config \in [Rules -> Configs]
    /\ crashes = 0
    /\ pc = "off" /\ cur = NoRule /\ rest = {} /\ waits = {}
    /\ running = [r \in Rules |-> NoTask]
    /\ task = [t \in TaskIds |-> Finished]
    /\ snap = [r \in Rules |-> NoStatus]
    /\ statuses = [r \in Rules |-> NoStatus]
    /\ runtimeIds = {}
    /\ ctx = [r \in Rules |-> NoStatus]
    /\ sub = "none" /\ dirty = FALSE /\ loaded = FALSE

-----------------------------------------------------------------------------
(* Helpers shared by the operations                                        *)

\* Mutant: the change is stored without waking receivers (send_if_modified
\* with a closure that returns false).
NotifySilently == UNCHANGED dirty

\* watch::Sender::send_modify: every change wakes the subscription.
Notify == dirty' = (sub # "none")

\* Mutant: every id of the snapshot is copied.
MergedUntracked ==
    [r \in Rules |-> IF snap[r] # NoStatus THEN snap[r] ELSE statuses[r]]

\* merge_runtime: projection lock first, then the current snapshot; only
\* tracked ids that still have a status are copied, and all are published.
Merged ==
    [r \in Rules |->
        IF r \in runtimeIds /\ snap[r] # NoStatus /\ statuses[r] # NoStatus
        THEN snap[r] ELSE statuses[r]]
MergeRuntime ==
    /\ statuses' = Merged
    /\ ctx' = Merged
    /\ UNCHANGED runtimeIds

\* reset_status: stop tracking the listener, show a status of our own.
ResetStatus(r, status) ==
    /\ runtimeIds' = runtimeIds \ {r}
    /\ statuses' = [statuses EXCEPT ![r] = status]
    /\ ctx' = statuses'

\* start begins with normalize_rule.
StartEntry(r) == IF config[r] \in Malformed THEN "resetFailed" ELSE "track"

\* One start is over: initialize goes on with the next enabled rule.
NextStart ==
    IF rest = {}
    THEN pc' = "idle" /\ cur' = NoRule /\ UNCHANGED rest
    ELSE \E r \in rest : /\ cur' = r
                         /\ rest' = rest \ {r}
                         /\ pc' = StartEntry(r)

\* Mutant: the stop sender is dropped without a send and the task ignores it.
NotSignalled(S) == task

\* The stop oneshot of a task: nothing happens if the task is over.
Signalled(S) ==
    [t \in TaskIds |-> IF t \in S /\ Live(t)
                       THEN [task[t] EXCEPT !.stop = TRUE] ELSE task[t]]

-----------------------------------------------------------------------------
(* The operations of PortForwardApplication, one at a time.  A failed load,
   validation or save returns before anything changes. *)

Goto(label, r) ==
    /\ pc' = label
    /\ cur' = r
    /\ UNCHANGED <<rest, waits>>

Create(r, c) ==
    /\ pc = "idle" /\ saved[r] = "absent" /\ c \notin Malformed
    /\ saved' = [saved EXCEPT ![r] = "disabled"]
    /\ config' = [config EXCEPT ![r] = c]
    /\ Goto("reset", r)
    /\ UNCHANGED <<infraVars, projVars, subVars, loaded, crashes>>

\* Mutant: without require_disabled.
UpdateAnyTime(r, c) ==
    /\ pc = "idle" /\ saved[r] # "absent" /\ c \notin Malformed
    /\ config' = [config EXCEPT ![r] = c]
    /\ Goto("reset", r)
    /\ UNCHANGED <<saved, infraVars, projVars, subVars, loaded, crashes>>

Update(r, c) ==
    /\ pc = "idle" /\ saved[r] = "disabled" /\ c \notin Malformed
    /\ config' = [config EXCEPT ![r] = c]
    /\ Goto("reset", r)
    /\ UNCHANGED <<saved, infraVars, projVars, subVars, loaded, crashes>>

Delete(r) ==
    /\ pc = "idle" /\ saved[r] = "disabled"
    /\ saved' = [saved EXCEPT ![r] = "absent"]
    /\ Goto("forget", r)
    /\ UNCHANGED <<config, infraVars, projVars, subVars, loaded, crashes>>

Enable(r) ==
    /\ pc = "idle" /\ saved[r] # "absent" /\ config[r] \notin Malformed
    /\ saved' = [saved EXCEPT ![r] = "enabled"]
    /\ Goto("track", r)
    /\ UNCHANGED <<config, infraVars, projVars, subVars, loaded, crashes>>

Disable(r) ==
    /\ pc = "idle" /\ saved[r] # "absent"
    /\ saved' = [saved EXCEPT ![r] = "disabled"]
    /\ Goto("stop", r)
    /\ UNCHANGED <<config, infraVars, projVars, subVars, loaded, crashes>>

Retry(r) ==
    /\ pc = "idle" /\ saved[r] = "enabled"
    /\ Goto(StartEntry(r), r)
    /\ UNCHANGED <<file, infraVars, projVars, subVars, loaded, crashes>>

\* initialize subscribes before it loads: the task's first merge is pending.
Initialize ==
    /\ pc = "off"
    /\ sub' = "merge" /\ dirty' = FALSE
    /\ Goto("load", NoRule)
    /\ UNCHANGED <<file, infraVars, projVars, loaded, crashes>>

LoadRules ==
    /\ pc = "load"
    /\ loaded' = TRUE
    /\ runtimeIds' = {}
    /\ statuses' = [r \in Rules |-> IF saved[r] = "absent" THEN NoStatus ELSE Default]
    /\ ctx' = statuses'
    /\ LET enabled == {r \in Rules : saved[r] = "enabled"} IN
       \/ enabled = {} /\ pc' = "idle" /\ UNCHANGED <<cur, rest>>
       \/ \E r \in enabled : pc' = StartEntry(r) /\ cur' = r /\ rest' = enabled \ {r}
    /\ UNCHANGED <<file, waits, infraVars, subVars, crashes>>

\* initialize returns the load error; the subscription stays.
LoadFails ==
    /\ pc = "load"
    /\ Goto("idle", NoRule)
    /\ UNCHANGED <<file, infraVars, projVars, subVars, loaded, crashes>>

Reset ==
    /\ pc = "reset"
    /\ ResetStatus(cur, Default)
    /\ Goto("idle", NoRule)
    /\ UNCHANGED <<file, infraVars, subVars, loaded, crashes>>

\* start of a malformed rule only shows the error.
ResetFailed ==
    /\ pc = "resetFailed"
    /\ ResetStatus(cur, Failed)
    /\ NextStart
    /\ UNCHANGED <<file, waits, infraVars, subVars, loaded, crashes>>

Forget ==
    /\ pc = "forget"
    /\ runtimeIds' = runtimeIds \ {cur}
    /\ statuses' = [statuses EXCEPT ![cur] = NoStatus]
    /\ ctx' = statuses'
    /\ Goto("idle", NoRule)
    /\ UNCHANGED <<file, infraVars, subVars, loaded, crashes>>

\* start, first half: track the listener before it can report anything.
Track ==
    /\ pc = "track"
    /\ runtimeIds' = runtimeIds \cup {cur}
    /\ statuses' = IF statuses[cur] = NoStatus
                   THEN [statuses EXCEPT ![cur] = Default] ELSE statuses
    /\ Goto("start", cur)
    /\ UNCHANGED <<file, infraVars, ctx, subVars, loaded, crashes>>

Publish ==
    /\ pc = "publish"
    /\ MergeRuntime
    /\ NextStart
    /\ UNCHANGED <<file, waits, infraVars, subVars, loaded, crashes>>

PublishStopped ==
    /\ pc = "publishStopped"
    /\ MergeRuntime
    /\ Goto("reset", cur)
    /\ UNCHANGED <<file, infraVars, subVars, loaded, crashes>>

-----------------------------------------------------------------------------
(* PortForwardController, called with `running' locked                     *)

Healthy(r) ==
    /\ running[r] # NoTask /\ Live(running[r])
    /\ snap[r] # NoStatus /\ snap[r].running

StartKeeps ==
    /\ pc = "start" /\ Healthy(cur)
    /\ Goto("publish", cur)
    /\ UNCHANGED <<file, infraVars, projVars, subVars, loaded, crashes>>

\* Mutant: the previous task is signalled but not awaited.
StartReplacesAtOnce ==
    /\ pc = "start" /\ running[cur] # NoTask /\ ~Healthy(cur)
    /\ running' = [running EXCEPT ![cur] = NoTask]
    /\ task' = Signalled({running[cur]})
    /\ UNCHANGED <<file, opVars, snap, projVars, subVars, loaded, crashes>>

\* A previous task that is over or no longer accepting is stopped first.
StartReplaces ==
    /\ pc = "start" /\ running[cur] # NoTask /\ ~Healthy(cur)
    /\ running' = [running EXCEPT ![cur] = NoTask]
    /\ task' = Signalled({running[cur]})
    /\ waits' = {running[cur]}
    /\ pc' = "awaitOld"
    /\ UNCHANGED <<file, cur, rest, snap, projVars, subVars, loaded, crashes>>

\* Mutant: the bind error is returned but not stored in the snapshot.
BindFailsUnseen ==
    /\ pc = "start" /\ running[cur] = NoTask
    /\ Goto("publish", cur)
    /\ UNCHANGED <<file, infraVars, projVars, subVars, loaded, crashes>>

BindFails ==
    /\ pc = "start" /\ running[cur] = NoTask
    /\ snap' = [snap EXCEPT ![cur] = Failed]
    /\ Notify
    /\ Goto("publish", cur)
    /\ UNCHANGED <<file, running, task, projVars, sub, loaded, crashes>>

\* The operating system refuses a second listener of the same rule.
BindListener ==
    /\ pc = "start" /\ running[cur] = NoTask
    /\ \A t \in TaskIds : ~(Listening(t) /\ task[t].rule = cur)
    /\ \E t \in TaskIds :
          /\ ~Live(t) /\ \A r \in Rules : running[r] # t
          /\ task' = [task EXCEPT ![t] =
                [Finished EXCEPT !.phase = "serving", !.rule = cur,
                                 !.config = config[cur]]]
          /\ running' = [running EXCEPT ![cur] = t]
    /\ snap' = [snap EXCEPT ![cur] = [Default EXCEPT !.running = TRUE]]
    /\ Notify
    /\ Goto("publish", cur)
    /\ UNCHANGED <<file, projVars, sub, loaded, crashes>>

\* stop: take the task out of the map, signal it and wait for it.
StopTakes ==
    /\ pc = "stop"
    /\ running' = [running EXCEPT ![cur] = NoTask]
    /\ task' = Signalled({running[cur]})
    /\ waits' = {running[cur]} \ {NoTask}
    /\ pc' = "awaitStop"
    /\ UNCHANGED <<file, cur, rest, snap, projVars, subVars, loaded, crashes>>

AfterAwait == [p \in {"awaitOld", "awaitStop", "awaitAll"} |->
    CASE p = "awaitOld" -> "start" [] p = "awaitStop" -> "stopped"
      [] p = "awaitAll" -> "drained"]

AwaitTasks ==
    /\ pc \in DOMAIN AfterAwait
    /\ \A t \in waits : ~Live(t)
    /\ waits' = {}
    /\ pc' = AfterAwait[pc]
    /\ UNCHANGED <<file, cur, rest, infraVars, projVars, subVars, loaded, crashes>>

\* STOP_TIMEOUT passed: the task is dropped at an await point, with its
\* listener and clients, and reports nothing more.
AbortOverdue ==
    /\ pc \in DOMAIN AfterAwait
    /\ \E t \in waits :
          /\ task[t].phase \in {"serving", "draining"}
          /\ task' = [task EXCEPT ![t] = Finished]
    /\ UNCHANGED <<file, opVars, running, snap, projVars, subVars, loaded, crashes>>

Quiet(status) == [status EXCEPT !.running = FALSE, !.conns = 0]

MarkStopped ==
    /\ pc = "stopped"
    /\ snap' = [snap EXCEPT ![cur] =
                  IF @ = NoStatus THEN Default ELSE Quiet(@)]
    /\ Notify
    /\ Goto("publishStopped", cur)
    /\ UNCHANGED <<file, running, task, projVars, sub, loaded, crashes>>

-----------------------------------------------------------------------------
(* shutdown: nothing is admitted afterwards (module Lifecycle)             *)

\* Mutant: listeners are signalled but not waited for.
ShutdownAtOnce ==
    /\ pc = "idle"
    /\ task' = Signalled({running[r] : r \in Rules})
    /\ running' = [r \in Rules |-> NoTask]
    /\ pc' = "awaitAll"
    /\ UNCHANGED <<file, cur, rest, waits, snap, projVars, subVars, loaded, crashes>>

Shutdown ==
    /\ pc = "idle"
    /\ waits' = {running[r] : r \in Rules} \ {NoTask}
    /\ task' = Signalled(waits')
    /\ running' = [r \in Rules |-> NoTask]
    /\ pc' = "awaitAll"
    /\ UNCHANGED <<file, cur, rest, snap, projVars, subVars, loaded, crashes>>

MarkAllStopped ==
    /\ pc = "drained"
    /\ snap' = [r \in Rules |->
                  IF snap[r] = NoStatus THEN NoStatus ELSE Quiet(snap[r])]
    /\ Notify
    /\ Goto("unsubscribe", cur)
    /\ UNCHANGED <<file, running, task, projVars, sub, loaded, crashes>>

Unsubscribe ==
    /\ pc = "unsubscribe"
    /\ sub' = "none" /\ dirty' = FALSE
    /\ Goto("publishLast", cur)
    /\ UNCHANGED <<file, infraVars, projVars, loaded, crashes>>

PublishLast ==
    /\ pc = "publishLast"
    /\ MergeRuntime
    /\ Goto("ended", cur)
    /\ UNCHANGED <<file, infraVars, subVars, loaded, crashes>>

-----------------------------------------------------------------------------
(* The serve task of one listener                                          *)

\* update: report to the snapshot, if it knows the rule.
Report(r, status) ==
    /\ snap' = [snap EXCEPT ![r] = IF @ = NoStatus THEN @ ELSE status]
    /\ Notify

taskFrame == <<file, opVars, running, projVars, sub, loaded, crashes>>

\* Mutant: the limit is tested with > instead of >=.
AcceptOneMore(t) ==
    /\ Listening(t) /\ ~task[t].stop /\ task[t].conns <= MaxConn
    /\ task' = [task EXCEPT ![t].conns = @ + 1]
    /\ Report(task[t].rule, [running |-> TRUE, conns |-> task[t].conns + 1,
                             error |-> task[t].error])
    /\ UNCHANGED taskFrame

Accept(t) ==
    /\ Listening(t) /\ ~task[t].stop /\ task[t].conns < MaxConn
    /\ task' = [task EXCEPT ![t].conns = @ + 1]
    /\ Report(task[t].rule, [running |-> TRUE, conns |-> task[t].conns + 1,
                             error |-> task[t].error])
    /\ UNCHANGED taskFrame

ClientEnds(t, failed) ==
    /\ Listening(t) /\ ~task[t].stop /\ task[t].conns > 0
    /\ LET error == task[t].error \/ failed IN
       /\ task' = [task EXCEPT ![t].conns = @ - 1, ![t].error = error]
       /\ Report(task[t].rule, [running |-> TRUE, conns |-> task[t].conns - 1,
                                error |-> error])
    /\ UNCHANGED taskFrame

\* The accept loop breaks, on the stop signal or on a listener error, and
\* the port is released before the status says so.
BreakOnStop(t) ==
    /\ Listening(t) /\ task[t].stop
    /\ task' = [task EXCEPT ![t].phase = "closing"]
    /\ UNCHANGED <<snap, dirty, taskFrame>>

BreakOnError(t) ==
    /\ Listening(t) /\ ~task[t].stop
    /\ task' = [task EXCEPT ![t].phase = "closing", ![t].error = TRUE]
    /\ UNCHANGED <<snap, dirty, taskFrame>>

ReportClosed(t) ==
    /\ task[t].phase = "closing"
    /\ task' = [task EXCEPT ![t].phase = "draining"]
    /\ Report(task[t].rule, [running |-> FALSE, conns |-> task[t].conns,
                             error |-> task[t].error])
    /\ UNCHANGED taskFrame

\* Clients end by themselves within DRAIN_TIMEOUT, or are aborted.
Drained(t) ==
    /\ task[t].phase = "draining"
    /\ task' = [task EXCEPT ![t] = Finished]
    /\ Report(task[t].rule, [running |-> FALSE, conns |-> 0,
                             error |-> task[t].error])
    /\ UNCHANGED taskFrame

-----------------------------------------------------------------------------
(* The subscription task spawned by initialize                             *)

SubWakes ==
    /\ sub = "wait" /\ dirty
    /\ sub' = "merge" /\ dirty' = FALSE
    /\ UNCHANGED <<file, opVars, infraVars, projVars, loaded, crashes>>

SubMerges ==
    /\ sub = "merge"
    /\ MergeRuntime
    /\ sub' = "wait" /\ dirty' = FALSE
    /\ UNCHANGED <<file, opVars, infraVars, loaded, crashes>>

\* The program dies: the operating system closes every socket, and the file,
\* replaced by rename, is the old one or the new one.
Crash ==
    /\ pc # "off" /\ crashes < MaxCrashes
    /\ crashes' = crashes + 1
    /\ pc' = "off" /\ cur' = NoRule /\ rest' = {} /\ waits' = {}
    /\ running' = [r \in Rules |-> NoTask]
    /\ task' = [t \in TaskIds |-> Finished]
    /\ snap' = [r \in Rules |-> NoStatus]
    /\ statuses' = [r \in Rules |-> NoStatus]
    /\ runtimeIds' = {}
    /\ ctx' = [r \in Rules |-> NoStatus]
    /\ sub' = "none" /\ dirty' = FALSE /\ loaded' = FALSE
    /\ UNCHANGED file

-----------------------------------------------------------------------------
Request ==
    \/ \E r \in Rules, c \in Configs : Create(r, c) \/ Update(r, c)
    \/ \E r \in Rules : Delete(r) \/ Enable(r) \/ Disable(r) \/ Retry(r)
    \/ Shutdown

Proceed ==
    \/ Initialize \/ LoadRules \/ LoadFails
    \/ Reset \/ ResetFailed \/ Forget \/ Track \/ Publish \/ PublishStopped
    \/ StartKeeps \/ StartReplaces \/ BindFails \/ BindListener
    \/ StopTakes \/ AwaitTasks \/ MarkStopped
    \/ MarkAllStopped \/ Unsubscribe \/ PublishLast

Closes(t) == BreakOnStop(t) \/ ReportClosed(t) \/ Drained(t)
Serve(t) ==
    \/ Accept(t) \/ BreakOnError(t)
    \/ \E failed \in BOOLEAN : ClientEnds(t, failed)
    \/ Closes(t)

Subscription == SubWakes \/ SubMerges

Next ==
    \/ Request \/ Proceed \/ AbortOverdue
    \/ \E t \in TaskIds : Serve(t)
    \/ Subscription
    \/ Crash

Spec == Init /\ [][Next]_vars

\* Tokio keeps polling what is ready: an operation in progress, a task that
\* has to close, and the subscription.  Clients and users owe nothing.
FairSpec ==
    /\ Spec
    /\ WF_vars(Proceed)
    /\ WF_vars(Subscription)
    /\ \A t \in TaskIds : WF_vars(Closes(t))

-----------------------------------------------------------------------------
(* Safety                                                                  *)

\* A serve task is known to the controller, or is being waited for by the one
\* operation that took it out of the map: none is orphaned, and no rule has
\* two.  Hazard: start replacing a task that has not finished.
Owned(t) == \/ \E r \in Rules : running[r] = t /\ task[t].rule = r
            \/ t \in waits
OneTaskPerRule ==
    /\ \A t \in TaskIds : Live(t) => Owned(t)
    /\ \A t, u \in TaskIds :
          Live(t) /\ Live(u) /\ task[t].rule = task[u].rule => t = u

\* Sockets, seen from outside, behave as ForwardContract says: in particular
\* require_disabled keeps edits and deletions away from what is still served.
Serving == {<<task[t].rule, task[t].config>> : t \in {u \in TaskIds : Live(u)}}
Contract == INSTANCE ForwardContract WITH serving <- Serving
ImplementsContract == Contract!Spec

\* Between operations the published statuses are those of persisted rules (a
\* snapshot that retains a deleted rule cannot bring it back), every rule is
\* shown after a successful initialize, and a disabled one is shown stopped,
\* without an old error, whatever the subscription still has to merge.
ShownMatchesFile ==
    pc = "idle" =>
        \A r \in Rules :
            /\ ctx[r] # NoStatus => saved[r] # "absent"
            /\ loaded /\ saved[r] # "absent" => ctx[r] # NoStatus
            /\ saved[r] = "disabled" /\ ctx[r] # NoStatus => ctx[r] = Default

\* With nothing in flight, what is shown of a tracked rule is what its serve
\* task last reported: no status change was lost or overwritten.
Settled == pc = "idle" /\ sub = "wait" /\ ~dirty
ShownIsCurrent ==
    Settled =>
        \A r \in runtimeIds :
            /\ ctx[r] = snap[r]
            /\ running[r] # NoTask /\ Listening(running[r]) =>
                  LET t == task[running[r]] IN
                  ctx[r] = [running |-> TRUE, conns |-> t.conns, error |-> t.error]

\* An enabled rule that does not listen shows an error, so that the user can
\* retry: autostart after a restart included.
EnabledIsExplained ==
    Settled /\ loaded =>
        \A r \in Rules : saved[r] = "enabled" => ctx[r].running \/ ctx[r].error

\* So a status is the newest one, and an enabled rule without a listener has its
\* reason beside it.
ShownIsExplained == ShownIsCurrent /\ EnabledIsExplained

\* After shutdown nothing serves and nothing is shown as running.
ShutdownReleasesAll ==
    pc = "ended" =>
        /\ \A t \in TaskIds : ~Live(t)
        /\ \A r \in Rules : ctx[r] # NoStatus => ~ctx[r].running /\ ctx[r].conns = 0

-----------------------------------------------------------------------------
(* Liveness                                                                *)

\* Every operation ends, whatever its listener's clients do.
OperationsEnd == pc \notin {"idle", "off", "ended"} ~> pc \in {"idle", "off", "ended"}

\* A rule whose listener died is not shown as running for ever.
FalselyRunning(r) ==
    /\ ctx[r] # NoStatus /\ ctx[r].running
    /\ \A t \in TaskIds : ~(Listening(t) /\ task[t].rule = r)
DeathIsReported == \A r \in Rules : FalselyRunning(r) ~> ~FalselyRunning(r)

=============================================================================
