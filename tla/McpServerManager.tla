-------------------------- MODULE McpServerManager --------------------------
(***************************************************************************)
(* The MCP server's settings and its server task (infrastructure/          *)
(* agent_mcp/core.rs, server.rs).  An apply makes a new token, saves the   *)
(* settings and sends them to the manager task, which is spawned when the  *)
(* settings are enabled for the first time.  The manager runs one server   *)
(* task and replaces it on every change; closing the channel ends both.    *)
(* The file does not have the token; requests are the subject of           *)
(* McpRouter.                                                              *)
(***************************************************************************)
EXTENDS Integers

CONSTANTS
    Ports,
    DefaultPort,       \* in Ports
    Absent, Torn,      \* the file is missing, or cannot be read or parsed
    MaxTokens,         \* bound: settings applied in one behaviour
    MaxCrashes         \* bound: crashes of the program in one behaviour

VARIABLES
    pc,        \* the operation that holds the mutex `operation'
    want,      \* its settings
    shown,     \* ControllerState::settings, with the token
    open,      \* server_settings is Some
    channel,   \* the value of the watch channel
    unseen,    \* the manager has not marked it seen
    manager,   \* "none", "top", "wait", "run", "ended"
    server,    \* the server task and the settings it was started with
    token,     \* tokens made so far
    applied,   \* an apply has succeeded since the start
    file,
    crashes

vars == <<pc, want, shown, open, channel, unseen, manager, server, token, applied, file, crashes>>

Settings == [enabled : BOOLEAN, port : Ports]
Default == [enabled |-> TRUE, port |-> DefaultPort]
With(settings, t) == [settings |-> settings, token |-> t]
Keyed == [settings : Settings, token : 0..MaxTokens]
NoServer == [at |-> "none", keyed |-> With(Default, 0)]

TypeOK ==
    /\ pc \in {"off", "save", "publish", "idle", "await", "ended"}
    /\ want \in Settings /\ shown \in Keyed /\ channel \in Keyed
    /\ open \in BOOLEAN /\ unseen \in BOOLEAN /\ applied \in BOOLEAN
    /\ manager \in {"none", "top", "wait", "run", "ended"}
    /\ server \in [at : {"none", "starting", "serving", "failed"}, keyed : Keyed]
    /\ file \in Settings \cup {Absent, Torn}
    /\ token \in 0..MaxTokens /\ crashes \in 0..MaxCrashes

Start ==
    /\ pc = "off" /\ want = Default /\ shown = With(Default, 0)
    /\ open = FALSE /\ channel = With(Default, 0) /\ unseen = FALSE
    /\ manager = "none" /\ server = NoServer /\ token = 0 /\ applied = FALSE
Init == Start /\ file \in Settings \cup {Absent, Torn} /\ crashes = 0

-----------------------------------------------------------------------------
(* Operations                                                              *)

\* What cannot be read is the default, which is enabled; without a file the
\* environment may name the port.
Loaded ==
    IF file \in Settings THEN {file}
    ELSE IF file = Absent THEN {[Default EXCEPT !.port = p] : p \in Ports}
    ELSE {Default}

Operate(next) ==
    /\ pc' = next
    /\ UNCHANGED <<manager, server, crashes>>

Initialize ==
    /\ pc = "off" /\ token < MaxTokens
    /\ want' \in Loaded /\ token' = token + 1
    /\ Operate("save") /\ UNCHANGED <<shown, open, channel, unseen, applied, file>>

\* A port of zero was refused before.
Apply(settings) ==
    /\ pc = "idle" /\ token < MaxTokens
    /\ want' = settings /\ token' = token + 1
    /\ Operate("save") /\ UNCHANGED <<shown, open, channel, unseen, applied, file>>

Save ==
    /\ pc = "save"
    /\ file' = want
    /\ Operate("publish") /\ UNCHANGED <<want, shown, open, channel, unseen, token, applied>>

\* Mutant: the error of the save is only logged.
SaveFailsUnseen ==
    /\ pc = "save"
    /\ file' \in {file, Torn}
    /\ Operate("publish") /\ UNCHANGED <<want, shown, open, channel, unseen, token, applied>>

\* Nothing but the file may have changed.
SaveFails ==
    /\ pc = "save"
    /\ file' \in {file, Torn}
    /\ Operate("idle") /\ UNCHANGED <<want, shown, open, channel, unseen, token, applied>>

Publish ==
    /\ pc = "publish" /\ open
    /\ shown' = With(want, token) /\ applied' = TRUE
    /\ channel' = shown' /\ unseen' = TRUE
    /\ Operate("idle") /\ UNCHANGED <<want, open, token, file>>

\* A receiver that is created with its value has seen it.
SpawnManager ==
    /\ pc = "publish" /\ ~open
    /\ shown' = With(want, token) /\ applied' = TRUE
    /\ IF want.enabled
       THEN open' = TRUE /\ channel' = shown' /\ manager' = "top"
       ELSE UNCHANGED <<open, channel, manager>>
    /\ pc' = "idle"
    /\ UNCHANGED <<want, unseen, server, token, file, crashes>>

\* Mutant: the shutdown saves the disabled settings to stop the server.
ShutdownDisables ==
    /\ pc = "idle"
    /\ open' = FALSE /\ file' = [shown.settings EXCEPT !.enabled = FALSE]
    /\ Operate("await") /\ UNCHANGED <<want, shown, channel, unseen, token, applied>>

Shutdown ==
    /\ pc = "idle"
    /\ open' = FALSE
    /\ Operate("await") /\ UNCHANGED <<want, shown, channel, unseen, token, applied, file>>

ShutdownEnds ==
    /\ pc = "await" /\ manager \in {"none", "ended"}
    /\ Operate("ended")
    /\ UNCHANGED <<want, shown, open, channel, unseen, token, applied, file>>

-----------------------------------------------------------------------------
(* The manager task                                                        *)

Manage(next) ==
    /\ manager' = next
    /\ UNCHANGED <<pc, want, shown, open, channel, token, applied, file, crashes>>

\* borrow reads the newest value and does not mark it seen.
ReadDisabled ==
    /\ manager = "top" /\ ~channel.settings.enabled
    /\ Manage("wait") /\ UNCHANGED <<unseen, server>>

StartServer ==
    /\ manager = "top" /\ channel.settings.enabled
    /\ server' = [at |-> "starting", keyed |-> channel]
    /\ Manage("run") /\ UNCHANGED unseen

\* changed() reports a new value before it reports that the channel is closed.
Changed == IF unseen THEN "top" ELSE "ended"

WaitEnds ==
    /\ manager = "wait" /\ (unseen \/ ~open)
    /\ unseen' = FALSE
    /\ Manage(Changed) /\ UNCHANGED server

\* Mutant: the old server is not aborted.
ReplaceLate ==
    /\ manager = "run" /\ (unseen \/ ~open)
    /\ unseen' = FALSE
    /\ Manage(Changed) /\ UNCHANGED server

\* The old task is aborted and awaited before the next one binds.
ReplaceServer ==
    /\ manager = "run" /\ (unseen \/ ~open)
    /\ unseen' = FALSE /\ server' = NoServer
    /\ Manage(Changed)

ServerEnded ==
    /\ manager = "run" /\ server.at = "failed"
    /\ server' = NoServer
    /\ Manage("wait") /\ UNCHANGED unseen

-----------------------------------------------------------------------------
(* The server task: it binds, or cannot, and may stop with an error        *)

Serve(at) ==
    /\ server' = [server EXCEPT !.at = at]
    /\ UNCHANGED <<pc, want, shown, open, channel, unseen, manager, token, applied, file, crashes>>
Bind == server.at = "starting" /\ Serve("serving")
Fail == server.at \in {"starting", "serving"} /\ Serve("failed")

Crash ==
    /\ pc \notin {"off", "ended"} /\ crashes < MaxCrashes
    /\ crashes' = crashes + 1
    /\ file' \in IF pc = "save" THEN {file, want, Torn} ELSE {file}
    /\ pc' = "off" /\ want' = Default /\ shown' = With(Default, 0)
    /\ open' = FALSE /\ channel' = With(Default, 0) /\ unseen' = FALSE
    /\ manager' = "none" /\ server' = NoServer /\ applied' = FALSE
    /\ UNCHANGED token

Manager == ReadDisabled \/ StartServer \/ WaitEnds \/ ReplaceServer \/ ServerEnded
Operation == Save \/ SaveFails \/ Publish \/ SpawnManager \/ ShutdownEnds

Next ==
    \/ Initialize \/ \E s \in Settings : Apply(s)
    \/ Operation \/ Shutdown \/ Manager \/ Bind \/ Fail \/ Crash

Fairness == WF_vars(Manager) /\ WF_vars(Operation)
Spec == Init /\ [][Next]_vars /\ Fairness

-----------------------------------------------------------------------------
(* Properties                                                              *)

AtRest == pc = "idle" /\ ~unseen /\ manager # "top"

\* With the manager at rest the server has the newest settings and token, and
\* a server that should run does, unless its own task failed: also after
\* changes that came while the last server was being started or replaced.
ServedIsShown ==
    AtRest => /\ server.at # "none" => server.keyed = shown /\ shown.settings.enabled
              /\ manager = "wait" => server.at = "none"
              /\ manager = "none" => ~open /\ (applied => ~shown.settings.enabled)

\* The file has what is shown, unless it was damaged or nothing was applied yet;
\* a shutdown does not change it.
SavedIsShown ==
    pc \in {"idle", "await", "ended"} /\ applied => file \in {shown.settings, Torn}

\* After the shutdown neither the manager nor a server is left.
StoppedMeansQuiet == pc = "ended" => server.at = "none" /\ manager \in {"none", "ended"}

\* The shutdown ends, whatever was sent to the manager just before it.
ShutdownEndsEventually == pc = "await" ~> pc \in {"ended", "off"}

=============================================================================
