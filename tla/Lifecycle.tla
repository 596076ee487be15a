----------------------------- MODULE Lifecycle -----------------------------
(***************************************************************************)
(* The admission of application operations, the data refresh bus they use, *)
(* and the exit barrier (application/lifecycle, application/event_bus,     *)
(* event_bus/external.rs, global_state.rs).                                *)
(*                                                                         *)
(* GUI and MCP callers run each operation under a read guard of the tokio  *)
(* RwLock `operations', which is fair: acquisitions queue in order.  An    *)
(* operation may ask the bus for a data refresh and keeps its guard while  *)
(* it waits; handlers take no guard.  Exit sets a flag, then takes the     *)
(* write guard.                                                            *)
(***************************************************************************)
EXTENDS Naturals, Sequences, FiniteSets

CONSTANTS
    Callers,     \* GUI tasks and MCP lanes, each running one operation at a time
    Boot,        \* initialize, which refreshes network configs without a guard
    Writer,      \* begin_shutdown in the queue of the lock
    MaxHandlers, \* handlers the subscriber runs at once (16)
    BusCapacity  \* capacity of the request channel (64)

ASSUME LifecycleAssumption ==
    /\ Boot \notin Callers /\ Writer \notin Callers
    /\ MaxHandlers \in Nat \ {0} /\ BusCapacity \in Nat \ {0}

VARIABLES
    op,           \* what each caller is doing
    lockQueue,    \* acquisitions of `operations' that wait, in order
    writing,      \* begin_shutdown holds the write guard
    shuttingDown, \* Application::shutting_down
    busQueue,     \* the mpsc channel of data refresh requests
    handlers,     \* the subscriber's JoinSet: the callers served
    busAlive,     \* the subscriber task exists
    stage         \* boot, up, flagged, waiting, drained, busStopped, closed

busVars == <<busQueue, handlers, busAlive>>
vars == <<op, lockQueue, writing, shuttingDown, busVars, stage>>

Requesters == Callers \cup {Boot}
\* A caller in one of these states holds a read guard.
Guarded == {"granted", "running", "sending", "waiting"}
Working == {"running", "sending", "waiting"}
Readers == {c \in Callers : op[c] \in Guarded}
Drained == {"drained", "busStopped", "closed"}

TypeOK ==
    /\ op \in [Requesters -> {"idle", "queued"} \cup Guarded]
    /\ lockQueue \in Seq(Callers \cup {Writer})
    /\ writing \in BOOLEAN
    /\ shuttingDown \in BOOLEAN
    /\ busQueue \in Seq(Requesters) /\ Len(busQueue) <= BusCapacity
    /\ handlers \subseteq Requesters /\ Cardinality(handlers) <= MaxHandlers
    /\ busAlive \in BOOLEAN
    /\ stage \in {"boot", "up", "flagged", "waiting"} \cup Drained

\* start_event_bus has run; initialize sends its first refresh.
Init ==
    /\ op = [r \in Requesters |-> IF r = Boot THEN "sending" ELSE "idle"]
    /\ lockQueue = <<>> /\ writing = FALSE
    /\ shuttingDown = FALSE
    /\ busQueue = <<>> /\ handlers = {} /\ busAlive = TRUE
    /\ stage = "boot"

-----------------------------------------------------------------------------
(* begin_operation and the operations                                      *)

\* MCP requests arrive after initialize has started the server; callers keep
\* coming during and after the shutdown.
Arrive(c) ==
    /\ stage # "boot" /\ op[c] = "idle"
    /\ op' = [op EXCEPT ![c] = "queued"]
    /\ lockQueue' = Append(lockQueue, c)
    /\ UNCHANGED <<writing, shuttingDown, busVars, stage>>

\* Mutant: a lock that lets readers pass a waiting writer.
GrantReadUnfair(c) ==
    /\ op[c] = "queued" /\ ~writing
    /\ op' = [op EXCEPT ![c] = "granted"]
    /\ lockQueue' = SelectSeq(lockQueue, LAMBDA x : x # c)
    /\ UNCHANGED <<writing, shuttingDown, busVars, stage>>

GrantRead(c) ==
    /\ lockQueue # <<>> /\ Head(lockQueue) = c /\ ~writing
    /\ op' = [op EXCEPT ![c] = "granted"]
    /\ lockQueue' = Tail(lockQueue)
    /\ UNCHANGED <<writing, shuttingDown, busVars, stage>>

\* Mutant: the flag is not read again once the guard is held.
AcceptAlways(c) ==
    /\ op[c] = "granted"
    /\ op' = [op EXCEPT ![c] = "running"]
    /\ UNCHANGED <<lockQueue, writing, shuttingDown, busVars, stage>>

\* The flag is read under the guard.
Accept(c) ==
    /\ op[c] = "granted"
    /\ op' = [op EXCEPT ![c] = IF shuttingDown THEN "idle" ELSE "running"]
    /\ UNCHANGED <<lockQueue, writing, shuttingDown, busVars, stage>>

Finish(c) ==
    /\ op[c] = "running"
    /\ op' = [op EXCEPT ![c] = "idle"]
    /\ UNCHANGED <<lockQueue, writing, shuttingDown, busVars, stage>>

\* The operation calls EVENT_BUS.refresh_data_context.
Refresh(c) ==
    /\ op[c] = "running"
    /\ op' = [op EXCEPT ![c] = "sending"]
    /\ UNCHANGED <<lockQueue, writing, shuttingDown, busVars, stage>>

\* The receiver is never gone here: NoWorkAfterDrain is why.
Send(r) ==
    /\ op[r] = "sending" /\ busAlive /\ Len(busQueue) < BusCapacity
    /\ op' = [op EXCEPT ![r] = "waiting"]
    /\ busQueue' = Append(busQueue, r)
    /\ UNCHANGED <<lockQueue, writing, shuttingDown, handlers, busAlive, stage>>

-----------------------------------------------------------------------------
(* The subscriber of the bus                                               *)

\* Mutant: the branch of the select without its condition.
TakeUnbounded ==
    /\ busAlive /\ busQueue # <<>>
    /\ handlers' = handlers \cup {Head(busQueue)}
    /\ busQueue' = Tail(busQueue)
    /\ UNCHANGED <<op, lockQueue, writing, shuttingDown, busAlive, stage>>

Take ==
    /\ busAlive /\ busQueue # <<>> /\ Cardinality(handlers) < MaxHandlers
    /\ handlers' = handlers \cup {Head(busQueue)}
    /\ busQueue' = Tail(busQueue)
    /\ UNCHANGED <<op, lockQueue, writing, shuttingDown, busAlive, stage>>

\* Mutant: the handler takes a read guard of its own before it works.
HandleGuarded(r) ==
    /\ r \in handlers
    /\ lockQueue = <<>> /\ ~writing
    /\ handlers' = handlers \ {r}
    /\ op' = [op EXCEPT ![r] = "running"]
    /\ UNCHANGED <<lockQueue, writing, shuttingDown, busQueue, busAlive, stage>>

\* handle_data_refresh ends, well or badly, and completes the request.
Handle(r) ==
    /\ r \in handlers
    /\ handlers' = handlers \ {r}
    /\ op' = [op EXCEPT ![r] = "running"]
    /\ UNCHANGED <<lockQueue, writing, shuttingDown, busQueue, busAlive, stage>>

\* initialize returns and the GUI starts.
Start ==
    /\ stage = "boot" /\ op[Boot] = "running"
    /\ op' = [op EXCEPT ![Boot] = "idle"]
    /\ stage' = "up"
    /\ UNCHANGED <<lockQueue, writing, shuttingDown, busVars>>

-----------------------------------------------------------------------------
(* shutdown                                                                *)

\* The GUI loop has returned.
BeginShutdown ==
    /\ stage = "up"
    /\ shuttingDown' = TRUE
    /\ stage' = "flagged"
    /\ UNCHANGED <<op, lockQueue, writing, busVars>>

QueueWriter ==
    /\ stage = "flagged"
    /\ lockQueue' = Append(lockQueue, Writer)
    /\ stage' = "waiting"
    /\ UNCHANGED <<op, writing, shuttingDown, busVars>>

\* Mutant: the writer does not wait for the readers it finds (try_write).
GrantWriteAtOnce ==
    /\ lockQueue # <<>> /\ Head(lockQueue) = Writer
    /\ lockQueue' = Tail(lockQueue)
    /\ writing' = TRUE
    /\ UNCHANGED <<op, shuttingDown, busVars, stage>>

GrantWrite ==
    /\ lockQueue # <<>> /\ Head(lockQueue) = Writer /\ Readers = {}
    /\ lockQueue' = Tail(lockQueue)
    /\ writing' = TRUE
    /\ UNCHANGED <<op, shuttingDown, busVars, stage>>

\* begin_shutdown returns and drops the write guard.
ReleaseWrite ==
    /\ writing
    /\ writing' = FALSE
    /\ stage' = "drained"
    /\ UNCHANGED <<op, lockQueue, shuttingDown, busVars>>

\* stop_event_bus: the subscriber is aborted with its handlers, the channel is
\* closed; whoever waits for an answer is told that the task stopped.
StopBus ==
    /\ stage = "drained"
    /\ busAlive' = FALSE /\ handlers' = {} /\ busQueue' = <<>>
    /\ op' = [r \in Requesters |-> IF op[r] = "waiting" THEN "running" ELSE op[r]]
    /\ stage' = "busStopped"
    /\ UNCHANGED <<lockQueue, writing, shuttingDown>>

\* The services stop one after the other, each as its own module says.
StopServices ==
    /\ stage = "busStopped"
    /\ stage' = "closed"
    /\ UNCHANGED <<op, lockQueue, writing, shuttingDown, busVars>>

-----------------------------------------------------------------------------
Progress(c) == Accept(c) \/ Finish(c)
Bus == Take \/ \E r \in Requesters : Handle(r)
Exit == QueueWriter \/ ReleaseWrite \/ StopBus \/ StopServices

Next ==
    \/ \E c \in Callers : Arrive(c) \/ GrantRead(c) \/ Progress(c) \/ Refresh(c)
    \/ \E r \in Requesters : Send(r)
    \/ Bus \/ Start \/ BeginShutdown \/ GrantWrite \/ Exit

Spec == Init /\ [][Next]_vars

\* Each operation, once accepted, ends: its steps other than the refresh are
\* bounded by the timeouts of the protocols it uses.
FairSpec ==
    /\ Spec
    /\ \A c \in Callers : WF_vars(GrantRead(c)) /\ WF_vars(Accept(c)) /\ SF_vars(Finish(c))
    /\ \A r \in Requesters : SF_vars(Send(r)) /\ WF_vars(Handle(r))
    /\ WF_vars(Take) /\ WF_vars(GrantWrite) /\ WF_vars(Exit)

-----------------------------------------------------------------------------
(* Properties                                                              *)

\* After the barrier no operation runs, and none begins, whenever its caller
\* queued for the guard.
NoWorkAfterDrain == stage \in Drained => \A c \in Callers : op[c] \notin Working

\* The bus is stopped only when nobody waits for it: accepted refreshes are
\* never dropped.
NoRefreshDropped ==
    stage \in Drained => busQueue = <<>> /\ handlers = {}

\* The exit completes however many callers keep arriving and whatever the bus
\* was doing: no deadlock of guard holders with the bus behind the writer.
ShutdownCompletes == stage = "flagged" ~> stage = "closed"

\* A caller that has arrived is always answered.
Answered == \A c \in Callers : op[c] = "queued" ~> op[c] = "idle"

\* Neither waits for the other for ever.
ExitAndAnswers == ShutdownCompletes /\ Answered

=============================================================================
