# Verification of gpui_remote

gpui_remote is a desktop client for SSH and SFTP written in Rust on tokio and
the gpui toolkit. Beside terminals and file transfers it runs services of its
own: local port forwarding, an HTTP and a SOCKS5 proxy, an SSH server with SFTP,
and an MCP server through which agents use the same application. This directory
holds TLA+ models of its concurrent core and of what its views keep, the TLC runs that check them and the
TLAPS proofs about them. All definitions are translated from the code under
`src/src/`; paths below are relative to that directory.

## 1. Inventory

The layers are `gui` (views), `application` (operations), `data_context` (the
published snapshot the views read), `infrastructure` (sockets, files, protocols)
and `domain` (records). A view or an MCP lane calls an application operation;
the operation calls infrastructure, and what it learns is written to
`DATA_CONTEXT`, which tells the views to redraw. Most components have the same
skeleton: an async mutex that admits one operation at a time, long-running tokio
tasks, and a `watch` or `mpsc` channel between them.

| Component | State | Operations | Interacts with | What makes it correct |
|---|---|---|---|---|
| Local port forwarding (`application/port_forward`, `infrastructure/port_forward`) | rules file; map of running listeners; watch snapshot of statuses; projection and tracked ids | create, update, delete, enable, disable, retry, initialize, shutdown; serve tasks accept, join, drain | mutex `mutations`; subscription task merges the snapshot into `DATA_CONTEXT` | no orphaned listener, sockets agree with the file, statuses current and never of deleted rules, operations end |
| Lifecycle and data refresh bus (`application/lifecycle`, `application/event_bus`, `event_bus`) | RwLock `operations`, flag `shutting_down`, bounded channel, up to 16 handlers | begin_operation, refresh_data_context, initialize, begin_shutdown, stop_event_bus | every GUI and MCP operation holds a read guard while it waits for the bus | nothing runs after the barrier, nothing accepted is dropped, the exit does not deadlock |
| MCP bridge (`infrastructure/agent_mcp/bridge`) | ingress channel, lanes per workspace, lane events, last activity | request, route, enqueue, run_lane, cleanup_idle, closed and lagged events | calls the application under its operation guard; listens to session lifecycle | a rejected command never ran, commands of a workspace in order, every request answered, lanes released |
| MCP server manager (`infrastructure/agent_mcp/core.rs`, `server.rs`) | settings file, watch of settings with the token, manager task, server task | initialize, apply, regenerate token, shutdown | restarts the HTTP server on every change | one server, with the settings and the token that are shown |
| MCP tools and notifications (`agent_mcp/tools.rs`, `bridge/dispatch.rs`, `bridge/endpoint.rs`) | per client: the task that forwards session events | the tools; list, opened, closed, resync | commands go through the router; two broadcast channels | a tool acts on the workspace its arguments name; a client that has caught up knows the open sessions |
| SFTP session (`application/sftp/core`, `infrastructure/sftp`, `data_context/sftp`) | command channel, session task, transfer tasks, target locks, remote snapshot with its navigation generation, cancelled set | open, navigate, upload, download, cancel, retry, delete, close | navigation lock; workspace revoked first on close | refreshes never move the view, loading ends, saved directory is the shown one, cancelled copies stop, close leaves nothing running |
| SFTP local directories and watches (`application/sftp/core/service/directory.rs`, `watcher.rs`, `infrastructure/local_fs`) | local snapshot with generation, watches per workspace, last uploaded signatures | navigate, refresh, listen, stop, upload of changed files | file system events, uploads through the session | a closed workspace has no watch, each running watch is listed, a changed file is uploaded in the end |
| Transfer of trees (`infrastructure/sftp/transfer.rs`, `sync.rs`) | list of entries with signatures | list, skip, copy, set times | runs of SFTP transfers and of watches | a tree recorded as done is the source's |
| Sessions and workspaces (`application/session`, `data_context/workspace`) | profiles by workspace, published summaries, selection | register, open with rollback, close, select | runtimes of SSH and SFTP; lifecycle broadcast of 256 events | profile, summary, data and runtime appear and disappear together; the selected workspace exists |
| SSH terminal (`application/ssh`, `infrastructure/ssh/core.rs`, `data_context/terminal`) | shell, dirty frame, deadline after EOF, history buffer | write, resize, read, close | biased select of commands, deadline, refresh timer, shell events | last output published before the final status; history paged without gaps |
| SSH client reverse tunnels (`infrastructure/ssh/reverse_tunnel.rs`) | tunnel per profile | open, close | opened before its workspace; terminal gets proxy variables | no tunnel without its owner knowing |
| HTTP proxy, SOCKS5 proxy, SSH server (`infrastructure/http_proxy`, `socks5_proxy`, `ssh_server`) | settings file, generation, running task, watch of status | initialize, update settings, shutdown; serve, report | subscription copies the status to `DATA_CONTEXT` | status is the running service's, the port is released before it is bound again |
| SSH server reverse forwards (`infrastructure/ssh_server/reverse_forward.rs`) | listeners of one connection | start, cancel, drop | connections relayed through the SSH session | ports freed on cancel and on exit |
| SFTP server (`application/sftp_server`, `infrastructure/sftp_server`) | sessions by number, handles of each, table of open files | requests of the protocol | local file system below a root | a handle reaches the file it was opened for, nothing stays open without its connection |
| SSH server session (`infrastructure/ssh_server/handler.rs`, `shell.rs`) | channels, shells, three bounded queues | open, pty, shell, data, resize, close | a thread per shell, a pump, the session loop of the library | the exit of a shell is told after the output that was read of it; the loop does not stop |
| Theme (`application/theme`, `component/theme`, `infrastructure/theme`) | settings, watch channel, flag of changes, file | setters, save on change and on exit | the components' colours | the newest settings are saved last and look the same after a restart; text can be read |
| Network configurations (`application/network_config`, `gui/title_bar/session_operation_window`) | one row of the database, list in `DATA_CONTEXT`, CONFIG_WRITE mutex | migrate, save, delete, choose | settings windows, session form | reported saves are stored and shown; a session keeps its choice |
| Storage (`infrastructure/storage`) | SQLite, the file of host keys | statements; read, add, write | every connection verifies a key on a thread of its own | an accepted key is remembered |
| Port test, proxy connectors, local files, clipboard, logging, database | none beyond one call | I/O | | |
| Tab bar, sidebar, SFTP panels (`gui/workspace`, `gui/sidebar_session`, `component/draggable_list.rs`, `event_bus/refresh_gui`) | copies of the data context, chained navigations, selections, menus | refreshes, drags, clicks | coalescing refresh channels; the application | at rest the view shows the context; the last wish is asked last; a drag moves what is dragged |
| Terminal buffer and view (`data_context/terminal/buffer.rs`, `gui/workspace/ssh`) | grid of the library, last frame, line stamps; selection, scroll bar | feed, frame, page; drag, copy, click, scroll | the SSH terminal | a frame is the screen, pages make the history, what is copied is what was highlighted |
| Other views and widgets (`gui`, `component`) | view state | layout and event handlers | `run_application` | |

Hard behaviours, each listed with its line in `PROJECT.json` under hazards:
snapshots read before an await and merged after it (projection of statuses, SFTP
refreshes, projections of the views), tasks that outlive the operation that replaced them (listeners,
transfers, lanes, server tasks), bounded channels at their limit (bus, ingress,
lanes, lifecycle broadcast), timeouts that race a late answer (drain and stop of
listeners, enqueue, close of a session), and an exit that has to drain accepted
work and still end; files written in place and re-read after a crash; signatures of
size and second that stand for content; closures and menus made from a state that
has changed since.

## 2. Plan

Ordered by how much of the program depends on the behaviour.

| # | Module | Status | Abstract specification, theorems worth proving |
|---|---|---|---|
| 1 | `PortForward`, `ForwardContract`, `PortForwardProofs` | proved | refinement of ForwardContract; TypeOK, OneTaskPerRule |
| 2 | `Lifecycle`, `LifecycleProofs` | proved | TypeOK, NoWorkAfterDrain, NoRefreshDropped |
| 3 | `SshTerminal`, `SshTerminalProofs` | proved | TypeOK, LastOutputShown |
| 4 | `McpRouter`, `SftpServer` (`ServersProofs`) | proved | CommandsRunOnce, HandlesStayApart |
| 5 | `ProxyService`: HTTP proxy (ready gate), SOCKS5 proxy (published last), SSH server (not joined); `ServersProofs` | proved | ServersAreShown |
| 6 | `Workspace` (sessions, `DATA_CONTEXT`, opening against closing, watches), `ThemeSettings`, `SshTunnels`, `KnownHosts`, `NetworkConfigs` (`SettingsProofs`) | proved | PlacesAgree, WatchesOwned, NewestIsKept, TunnelsFollowProfiles, StepsMeanWhatTheySay |
| 7 | `McpServerManager`, `McpNotifications` (`McpProofs`) | proved | ServedIsShown, ClientsKnow |
| 8 | `SftpSession`, `SftpWatch`, `SftpLocal`, `TreeTransfer`, `SftpPanel` (`SftpProofs`) | proved | RefreshNeverMoves, ShownIsSaved, TransfersAreWhole, DoneMeansSame, SettledIsUploaded, PanelsMeanWhatTheyShow |
| 9 | `WorkspaceTabs`, `SidebarSessions`, `TerminalBuffer` (`WindowProofs`) | proved | WindowShowsTheContext, DragFollowsThePointer, TerminalIsShown |
| 10 | `ReverseForwards`, `SshServerSession`, `ProxyConnections` (`ServersProofs`) | proved | ClientsAreAccountedFor |
| 11 | pure operators: `McpTools` (`McpProofs`), `ProxyRequests` (`ServersProofs`), `TerminalSelection`, `ThemePalette` (`WindowProofs`) | proved for larger sets of inputs | ToolsActOnWhatTheyName, TargetsAreAsked, PicturesAreTrue |

`Lifecycle` composes with the others by its interface only: an operation of
another module runs between its `Accept` and `Finish`, and the services stop
after `StopBus`. `McpRouter` and `SftpSession` meet in the workspace: the router
sees the runtime appear, end and be closed (`RuntimeStarts`, `RuntimeEnds`,
`CloseWorkspace`), and the SFTP session is one such runtime. Composing router
and session in one state space adds nothing to either, because the only shared
state is whether the runtime is available. `WorkspaceTabs` and `SftpPanel` have
the part of the data context that they read in them, with the handling of the
refresh channel between it and the view.

## 3. Modules and their code

### MC modules

`MCPortForward` is `PortForward` with its symmetry. The other MC modules hold
several components that share no state, one `INSTANCE` each with its bounds:
`MCMcp`, `MCServers`, `MCSettings`, `MCSftp`, `MCWindow` and `MCProgress`. Their
variable `part`, chosen in Init, says which component a behaviour is about; only
that one takes steps, and the others stay in one initial state of theirs, so that
the states add up instead of multiplying. Where a component is pure operators,
`part` names the operator and `input` is one of its inputs: each is an initial
state. The properties of an MC module are conjunctions of the properties of its
components that say the same kind of thing (`NewestIsKept` of theme, host keys and
network configurations).

The parts that are proved about have their bounds as CONSTANTS of the MC module,
each with a named assumption (`RouterAssumption`, `ThemeAssumption`, ...), which the
.cfg gives values: what is proved of `Manager!Next` is proved of any bounds. `MCProgress`, whose
properties are liveness and only checked, has its bounds in its INSTANCEs.

### PortForward

`mutations` (a tokio mutex) admits one operation; it is the process counter `pc`
with the rule it is about. An operation goes from one await to the next:
`Enable` saves the file, `Track` inserts the rule in `runtime_ids`,
`StartKeeps` / `StartReplaces` look at the running listener, `AwaitTasks`
(`stop_running`) waits for the old task or aborts it, `BindFails` /
`BindListener` end the start, `Publish` merges the snapshot. `Disable`,
`Delete`, `Update`, `Retry`, `Initialize` (with `NextStart` for each rule) and
`Shutdown` do likewise.

| Variable | Code |
|---|---|
| `saved`, `config` | the rules file `data/port_forward.json`: enabled or not, and what the rule says |
| `running` | `PortForwardController::running` |
| `snap` | the watch channel `status` of the controller |
| `runtimeIds`, `ctx` | `PortForwardProjection`, published in `DATA_CONTEXT` |
| `task` | the `serve` tasks: bound rule and configuration, connections, error |
| `waits` | tasks an operation took out of the map and waits for |
| `sub`, `dirty` | the subscription task and the unseen mark of its receiver |

`Serve(t)` has one action per arm of the biased select and per step after the
loop. `Crash` empties everything but the file. `MaxConn` stands for
`MAX_CONNECTIONS`, `MaxCrashes` and `TaskIds` are bounds. A configuration that
`normalize_rule` rejects can only come from a file edited by hand; `Malformed`
says which.

`ForwardContract` is what the component promises about sockets: rules served
only while enabled, with what the file says, and neither edited nor deleted
while they are served.

### Lifecycle

The tokio RwLock is fair: `lockQueue` is its queue, readers are the callers
whose `op` is past `GrantRead`. `Refresh`, `Send`, `Take` and `Handle` are the
bus: a caller waits for room in the channel, then for the answer, and holds its
guard all the while. `initialize` refreshes the network configurations through
the bus without a guard; it is the requester `Boot`. `BeginShutdown` sets the
flag, `QueueWriter`, `GrantWrite` and `ReleaseWrite` are the write guard, then
`StopBus` and `StopServices`.

### McpRouter

A request goes `Call` (room in the ingress, or `CallTimesOut`), `RouteControl` /
`RouteKnown` / `RouteNew` (the adapter takes it and chooses a lane), `Enqueue` or
`Refuse` (the permit, the timeout or a closed lane), then in the lane `Receive`,
`CheckPasses` and `Respond`, or `CheckFails`, which closes the receiver and
rejects what it holds. `stopped` are the events lanes send to the router, drained
at the head of each of its operations (`Drained`); `closed` and `lagged` are the
session lifecycle events. `idle` is the last activity of a lane compared with
ten minutes, `Tick` the clean-up. `givenUp` is a history variable: workspaces
whose lane was retired while they were open. The close_session tool is not
registered (`tools.rs:301`), so the flag `closing` of a lane is never set.

### SftpSession

One workspace. `loop` is `run_sftp_session`: connecting, receiving, and each
command from `Take...` to its end. `chan` is the unbounded command channel.
`xfer[t]` is a transfer with its record in the list (`status`), its command and
its task (`at`); the target lock is derived from the tasks' places instead of
being a variable. `nav[n]` are callers of `change_remote_directory`, which queue
on the navigation lock in the order they ask. `shown` is the remote snapshot with
`remote_navigation_generation`; while the workspace is not published every
update is dropped (`Show`, `Marked`). `content[f]` says whose data a file contains:
of an upload the file in its remote directory, of every download the one local
file `NoDir`, since all of them go to the local directory that is shown
(`Target`). `Revoke` is `sessions.close`, `CloseRuntime` to
`CloseTimesOut` are `SftpService::close`.

A copy makes the steps check, create, copy, write, tail, finish: `GoOn` is a
check of the cancelled set that lets the task pass, `Bail` one that ends it,
`IoFails` an error of the connection or the disk.

### ProxyService

One module for the three services, which share their skeleton; `kind` is chosen
in Init and says which one the behaviour is about. `pc` is the operation that
holds the mutex: `stop` takes the old server out (`TakeOld`, `TakeOldSsh`),
`await` waits for it (`Stopped`: it has ended, or was aborted after three
seconds), `launch` binds (`LaunchHttp`, `LaunchSocks5`, `LaunchSsh`, or
`BindFails`), `save` writes the settings in place, `undo` stops the new server
if that fails, `publish` sends the status. Initialisation happens before the
window opens (`main.rs:31`), so no operation of the user meets it.

`server[s]` is a server task with the counter `active` (`conns`), the clients
that gave their permit back and are not joined yet (`ended`), whether its
generation is the newest (`current`), and a status that passed the comparison
of generations and is being sent (`out`): the comparison and `send_replace` are
two steps of another thread than the operation's. `status`, `sub`, `dirty` and
`ctx` are the watch channel, the task that copies it, its unseen mark and
`DATA_CONTEXT`.

### Workspace

`todo[c]` is the rest of an operation of caller c, the next step first, and
`arg[c]` its workspace, protocol and watch: `Open` is `open_session` up to
`register`, and leaves the two events and the runtime to do; `Close` puts the
steps of the closed protocol there (`Closing`), a failed opening those that take
it back (`Rollback`). Protocol decides the order: an SSH runtime is asked to
stop before its workspace is removed, an SFTP workspace is removed first.
`profiles` and `listed` are written under the write lock of the profiles, which
is kept until the events were sent; `ProfilesFree` derives the lock from the
steps due, as `RuntimesFree` derives the lock of the SFTP runtimes that
`listen_local_directory` holds while it registers a watch. `heard` is what a
subscriber who replays the lifecycle events believes, `used` the ids that were
generated. `watch`, `alive` and `shown` are the map of watches (one path per
workspace), the tasks, and the list in the data of the workspace. What a watch
task uploads, and the directory it listens to, are left out; a runtime that ends
by itself stays in its map, so that its end is no step here.

### SshTerminal

`phase` is where `run_ssh_session` is: opening the shell, in the loop of
`run_connected_terminal_session`, after it (`closedHere` if the user closed,
`closedThere` if the server did), in `run_closed_terminal_session` (`history`), or
at its end. The select is biased, so that every arm but the command's has
`chan = <<>>` as a guard; which of the others is due is left open, for they wait
for timers and the server. Two arms send to the server and await it before the select
is polled again, `send_data(..).await` for input and for the answer to a query of the
program (`application/ssh/core/ssh.rs:483`, `:319`) and the change of a size:
`sending` is what is sent, `Selecting` that nothing is, and while something is no
command is read and no timer fires. `Sent` and `SendFails` end such a wait. Output is counted: `written` is in the buffer, `visible` is
what the part in view shows, which stays when the user has scrolled back and the
output is below it. `Publish` is `publish_model` with `same_frame`; `frame` also
stands for `last_frame`, which differs from it only when there is nothing to
publish to. `agent` is the last answer of `terminal_history` to an agent that
passes the version it got before. Sending a command is one step, although the
sender is cloned first; that a clone outlives the runtime is left out, and with
it a command behind `Disconnect`, which nobody reads.

### McpNotifications, McpServerManager, McpTools

`McpNotifications` has the two broadcast channels between `DATA_CONTEXT` and a
client, each as the sequence of all it was sent (`bus`, `sent`) with the position
of the reader: a reader that is further behind than the capacity lags, and is told
to say so. `known` is what a client makes of what it is told, external like the
client. Other methods of the protocol are left out.

`McpServerManager`: `pc` is the operation under the mutex (save, publish, spawn),
`channel` with `unseen` the watch, `manager` the task that owns the server,
`server` the server task with the settings it was started with. `Torn` is a file
that a crash or a failed write left: it reads as the defaults.

`McpTools` is a table: per tool what it reads or sends and which response it takes.
`AnswerOf` puts the checks of endpoint, dispatcher and application one after the
other for the session that the arguments name; `KeyBytes` is what a key with its
modifiers becomes.

### SftpLocal, SftpWatch, TreeTransfer

`SftpLocal`: scans by the opening, navigations, refreshes and deletions, each with
the generation it was given. `Alias` is a second name of one directory, since
paths are canonicalised by some callers and not by others.

`SftpWatch`: one task. `events` is its channel, `pending` what it collected, `batch`
what is left of the round, `at` whether it waits, checks that a path is stable, or
uploads; `local` and `remote` are
the files as (version, size, second), and a signature is the last two. Time is
the second and advances at any moment.

`TreeTransfer`: `plan` is the list with the signatures taken when it was made,
`inHand` the file being copied, `at` its step; `source` is edited meanwhile, and
runs follow one another on the same `target`. `since` and `unlucky` are history:
files edited after they were listed, and files written twice in one second.

### SshTunnels, KnownHosts, NetworkConfigs

`SshTunnels`: the mutex of `runtimes` is held across the connection of a tunnel
(`lock`), not across its disconnection; `profile` and `tunnel` are versions, each
with a port of its own. `KnownHosts`: a check reads the file, decides, truncates and
writes; `raced` is history: two of them overlapped. `NetworkConfigs`: one list stands
for proxies and tunnels; `write` is CONFIG_WRITE, `editor` a settings window with
its draft, `form` the session form, whose choices are labelled by names.

### ThemeSettings, ThemePalette

`settings` is what the setters change, `channel` with `unseen` the watch, `edited`
the flag of changes, `worker` the task between its select, the save and the final
save, `applied` the colours that the components have. A colour is its lightness in
thousandths, which is what the derivations compare; `ThemePalette` has these.

### ProxyConnections, ProxyRequests

`ProxyConnections` is inside one server of `ProxyService`: permits, client tasks,
their entries and events (`events`), the list and counter that are shown. HTTP
opens and removes entries by the relaying task, SOCKS5 removes them when the client
is joined. `ProxyRequests` says what a request is answered and which target is
connected; a request is a record of what the code tells apart.

### SshServerSession, ReverseForwards, SftpServer

Three views of one connection to the SSH server, which share only its end.
`SshServerSession`: `loop` is where the session loop waits, `shell[s]` the thread of
a shell ("blocked" and "exiting" in a full output queue), `pump[s]` the task that
carries its output to `queue`. All three queues have the length `QueueSize`. `pty[s]`
has the output that waits to be read, as a number of reads (of at most 8 KiB), and
whether the program is over. After one read, or none, the thread looks at the program
("check"): if it is over the exit is sent and the thread returns, whatever the pty still
holds (`infrastructure/ssh_server/shell.rs:127-147`).
`ReverseForwards`: `listeners` is the map of each connection, `task` the task that
owns a socket, with `aborted` ones that have not ended; `told` is what the
client believes. A task that ends drops the `JoinSet` of its relays
(`infrastructure/ssh_server/reverse_forward.rs:57`), which only schedules their
aborts: `leaving` are the relays that have yet to end, and may outlive the task, the
answer to a cancellation and the next listener of the port (`RelayLeaves`). `SftpServer`: the served directory is flat, `disk` maps names to
nodes; `conn` is where a connection's request is, so that requests of two
connections meet between their awaits. `shared` is history: a number was given
twice, which `fetch_add(1).max(1)` does with 1 (`application/sftp_server/core.rs:167`,
`infrastructure/sftp_server/filesystem.rs:48`); `moved` are the nodes that lost a name.

### WorkspaceTabs, SidebarSessions, SftpPanel

The window is one thread, so that handlers are atomic, but the context changes
between them, and a refresh reads it in several steps. `changed`, `news`, `unseen`
are the coalescing channels, `phase` and `snapshot` the subscription between its
reads. `WorkspaceTabs`: `items` is the draggable list, `drawn` the closures that
were made when a tab was drawn and may be older than the list. `SidebarSessions`:
`refreshes` run beside one another and only the newest generation is taken.
`SftpPanel` is one side (`Side`); `trips` are navigations that wait for one
another, `asked` and `wished` history for LastWishIsAskedLast.

### TerminalBuffer, TerminalSelection

The grid is the library's: `TerminalBuffer` has of it the lines, the cursor row,
the offset and the damage that it reports. `frame` is made from the damage and the
last frame; `first` and `stamps` number the lines. `TerminalSelection` are the
functions of the view on such frames.

## 4. Runs

| Run | Bounds | What it shows |
|---|---|---|
| `port_forward` | two rules, three configurations one of them malformed, three task identities, one permit, one crash, symmetric | TypeOK. OneTaskPerRule: no orphan. ShownMatchesFile: nothing of a deleted rule, nothing old of a disabled one. ShownIsExplained: no change of a status is lost between listener, snapshot and projection, and an enabled rule that does not listen shows an error. ShutdownReleasesAll. ImplementsContract: the refinement |
| `lifecycle` | three callers, one handler, one slot | TypeOK, NoWorkAfterDrain, NoRefreshDropped. ExitAndAnswers: the exit completes and every request is answered |
| `ssh_terminal` | three chunks of output, two commands that wait | TypeOK with the flags: scrolling is no news. LastOutputShown: what was written is in the frame before the session shows as disconnected. SessionEnds: a closed terminal ends, whoever goes on sending, unless the session waits for the server for ever (`WaitsForServer`): to open the shell, to take what is sent, or to close. The code sets no limit to these waits |
| `mcp` | router: two requests, two workspaces, three lanes, channels of one; notifications: two sessions, one client, channels of one and two; manager: two ports, three tokens, one crash; every tool with every kind of session | ClientsKnow, ServedIsShown, ToolsActOnWhatTheyName. Answered; OverMeansEnded: lanes of a closed workspace, tasks of a client that has gone, the server of a program that is closed |
| `servers` | services: three kinds, two servers, one permit, at most two counted clients, one crash; connections: two clients, two entries, one permit, one rejected; SFTP server: two names, sessions, handles and nodes; two shells of one channel, queues and a pty of one; two ports with two relays each; router with three requests and four lanes | ServersAreShown: no old server alive when the next is bound, except an aborted SSH server; the status is the server's, the server runs the saved settings, an enabled service that does not run says why. CommandsRunOnce: a rejected command never ran, one lane per workspace unless it was given up. ClientsAreAccountedFor: the list is the connections, a port that listens, or relays, was asked for; an exit is told of a program that is over, after all that was read of its output. HandlesStayApart. TargetsAreAsked |
| `settings` | workspaces: two of any protocol, three callers, two watches; theme: two themes, two backgrounds, one crash; host keys: two checks, hosts and keys, one crash; network configurations: two editors, three configurations, two entries; tunnels: two operations, three versions | PlacesAgree: profiles and list agree, and with no operation in progress the runtimes do, whoever opened, closed and rolled back; no workspace is reported open after closed. WatchesOwned. NewestIsKept. TunnelsFollowProfiles. StepsMeanWhatTheySay |
| `sftp` | navigation: two directories, two navigations, one transfer; transfers: two in one directory; local: two directories and an alias, two navigations, one refresh, the opening; tree: two files of at most two chunks, three seconds, two edits, two runs; watch: three edits in three seconds; panels: two navigations in flight | ShownIsSaved, RefreshNeverMoves; TransfersAreWhole: a cancelled copy writes once more at most, done means whole, closed means quiet; DoneMeansSame; SettledIsUploaded; PanelsMeanWhatTheyShow |
| `window` | three tabs, one change of status; one profile in two versions, three operations and refreshes; two rows, a history of one, four lines; all drags over views of three lines, all scroll bars up to 30 lines, all themes | WindowShowsTheContext, DragFollowsThePointer, TerminalIsShown, PicturesAreTrue |
| `progress` | one rule, two identities, one crash; one navigation with a transfer, two navigations without; one shell, queues of two; two connections, two ports; one theme | OperationsEnd: operations on rules, navigations and transfers end, a dead listener is reported. OverMeansEnded: shells, forwarded ports, their relays when no connection is left, and the program end |
| `ssh_terminal_polls` (finding) | two chunks, one command | NothingMissed is violated: while the user has scrolled back, output that leaves the visible part unchanged gets no version (`application/ssh/core/ssh.rs:544`), and an agent that polls with the last one is told that nothing changed, against the description of the tool (`infrastructure/agent_mcp/tools.rs:467`) |
| `watch_changes` (finding) | three edits, six seconds | ChangesAreUploaded is violated: a file that keeps its size and changes again in the second of its last upload has the signature that was uploaded (`infrastructure/local_fs/core.rs:149`) and stays as it is, against `infrastructure/agent_mcp/tools.rs:420` |
| `workspace_watches` (finding) | one workspace, two callers, two watches | RunningIsListed is violated: a watch that is started between the two steps that stop its predecessor (`application/sftp/core/service/directory.rs:250`) runs without being listed, against `infrastructure/agent_mcp/tools.rs:445` |

What the code does and a property allows for, so that the rest of it can be said:

- A workspace whose lane was given up (idle for ten minutes, or without runtime) may
  get two lanes (`givenUp`).
- Two downloads of different remote files to one local file mix; TransfersAreWhole
  is about transfers of one remote file.
- The scan of an opening takes no lock and may show the first directory after a
  faster navigation (`overtaken` in `SftpLocal`).
- Files changed twice in one second (`unlucky` in `TreeTransfer`, `twice` in `SftpWatch`)
  may keep the signature that was copied.
- Host keys are lost when two checks write at a time (`raced`).
- A tunnel that is being opened while its profile is edited keeps the old version
  (`raced` in `SshTunnels`).
- The first two sessions and handles of the SFTP server have the same number
  (`shared`).
- A shell whose commands, output and session queue are all full stops the session
  loop for good (`Wedged` in `SshServerSession`); nothing less does.
- A session of the SSH terminal reads no command while the server takes no input, and
  is not closed meanwhile (`WaitsForServer` in `SshTerminal`).
- A shell whose program is over loses the output that its thread has not read
  (`CheckProgram` in `SshServerSession`); ExitIsToldLast is about what was read.
- Relays of a forwarded port are aborted with its listener and end later (`leaving` in
  `ReverseForwards`), perhaps after the cancellation was answered.
- SOCKS5 and SSH servers publish "running" after the server was started, and may
  overwrite a failure that was faster: ShownIsTrue is about HTTP.

Why the bounds are enough. Two task identities are the smallest number with
which an old and a new listener of one rule overlap; two rules and three
identities let shutdown and autostart handle several while one is replaced. A
channel of one element is full as soon as one waits, so the cases of a full
channel happen with the fewest callers; with three callers one holds the handler,
one the slot and one waits outside. Two workspaces let the router wait for one
while events of the other arrive; three requests let a second and third command
meet the lane the first one left. Two servers are the one in use and the one an
operation binds, or the one an SSH server left behind; one permit and two counted
clients let a client be accepted before the previous one is joined. Of the three
operations on workspaces one opens, one closes and one closes again or sets up a
watch; the second workspace is the neighbour, the second watch replaces the first. Three
chunks of output are one that is shown, one that is dirty when a command comes and
one that comes after it. Two navigations are one that waits and one that is done;
two transfers of one file are a cancelled one and its retry, two runs of a tree a
broken one and the next. Three edits are one that is uploaded, one during the upload
and one after it. Two SFTP numbers of each kind are the pair that collides and the
one after it. Three tabs are the least in which a reorder moves a tab that is not
dragged; a history of one line is full after the first line that scrolls out, which
is when the size stops telling that something moved. The pure operators have all
inputs of the smallest sizes that have every case.

Deadlock is checked for the lifecycle only, where the model stops at `closed` by
stuttering; the other systems may stop when the user does nothing more and the
bounded identities are used up.

Every property has a mutant, an operator beside the definition it replaces that
makes a plausible mistake (a signal that is not sent, a generation not compared,
a lock not taken); TLC refutes the property for it. `PROJECT.json` lists one for
each property of a run. The others, marked by the word Mutant in the modules, break
further conjuncts of the same properties: replace the definition below them to see.

### Fairness

- Tokio polls every ready task, so steps that end an operation in progress are
  weakly fair. Users, peers and clients owe nothing: `Accept`, `ClientEnds`,
  `BreakOnError`, new requests and closings have no fairness.
- A serve task that was told to stop ends: its drain is bounded by
  `DRAIN_TIMEOUT` and then aborted (`Closes`).
- The RwLock and the mpsc channel queue their waiters, so a waiting caller is
  granted its turn again and again: `Send` and `Finish` in `Lifecycle` are
  strongly fair, since another waiter may take the slot in between.
- The adapter's `select!` picks among its ready branches at random: routing,
  events and ticks are strongly fair. An enqueue ends within five seconds, with a
  permit or without.
- The connection of a client of the MCP server is checked every sixty seconds
  (`ConnectionChecked`). The manager task and the operation that holds its mutex go
  on; a bind that takes long and a server that runs owe nothing.
- Requests of the SFTP client time out, so the session loop, its tasks and the
  callers of a navigation go on; a close once started goes on. Connecting is part of
  `Loop` and ends by assumption: the handshake with a SOCKS5 proxy and the exchange
  of SSH identifications have no timeout of their own, and a peer that accepts
  and says nothing holds the session as it connects.
- Commands in the channel of a terminal come first in the select, and a page of
  history is local: `TakeCommand \/ TakeDisconnect` and `ReadHistory` are weakly fair.
  Nothing else is. The server may let a shell open for ever, take no input, and never
  close; so SessionEnds has as its premise that no wait for the server lasts for ever
  (`[]<>~WaitsForServer`).
- The loop of the SSH server polls its queue and the network by turns (`Sent`,
  `Flush`); a shell's thread takes its commands before it reads the pty (`Poll`) and
  looks at the program after it (`CheckProgram`); programs owe nothing; a
  full queue lets the tasks that wait for it in by turns (`Pump` strongly, for the
  other pumps take the same slots).
- An aborted listener task ends, and so do the relays that are aborted with it; who
  waits for the task learns that it ended (`TaskEnds`, `RelayLeaves`, `Cancelled`). The theme worker goes on and the shutdown waits for it.

## 5. Proofs

TLAPS checks the following for every value of the constants that satisfies the
named assumptions. All of them say that bounds are naturals, that a dummy
(`NoTask`, `NoPort`, `NoKey`, `NoLane`, ...) is none of the values it stands
outside of, and that a default is one of the values; TLC evaluates each on a run.
Beyond that: `ConstantsAssumption`: malformed configurations are configurations;
`LifecycleAssumption` and `RouterAssumption`: channels hold at least one
element, which tokio demands; `NetworksAssumption`: there are finitely many
configurations, so that those of one name can be counted; `FilesAssumption`: a
served directory is formed like one, a name has a node if and only if it is a
file or a directory, and a link leads to a name; `TreeAssumption`: the paths of a
tree differ, and sizes, times and edits have a bound of at least one;
`WatchAssumption`: there is a second and a try; `LocalAssumption`: the alias leads to
one of the directories, navigations and refreshes are different operations;
`PanelAssumption` and `TabsAssumption`: workspaces are numbered; `SidebarAssumption`:
the empty search, which finds every profile, is one of the searches;
`TerminalAssumption`: the screen has a row, the times of a line are kept, and the
controls are no texts; `ConnectionsAssumption`: there are finitely many clients, so
that they can be counted, and connections are numbered; `ForwardsAssumption`: 0,
which asks for any port, is none; `ShellsAssumption`: a queue holds an element.

`PortForwardProofs`
- `TypeCorrect`: TypeOK, with the limit of connections.
- `InductiveInvariant`. OneTaskPerRule alone is not inductive: that binding a
  listener keeps it needs that the old one is neither in the map nor waited for
  by then, which depends on `pc`. The strengthening has these parts: TasksServe (a
  live task serves its rule as the file has it, and the rule is enabled, or is
  the one the operation is disabling); EntryOfRule (a live task is the map entry
  of its rule or waited for) and EntryMatches (an entry is of its rule);
  WaitsOwned (tasks are waited for only at the awaits, they belong to the rule
  the operation works on, and its entry is taken out); StartsEnabled (a rule that
  is about to be started is enabled and well formed); CurIsRule.
- `NoOrphanListener`: OneTaskPerRule, from it.
- `ShownInvariant`. What is shown passes through three hands (task, snapshot,
  projection), and each may be behind the one before. Its parts: WorksOnSaved and
  TrackedEnabled (an operation works on a rule the file has, a tracked one is
  enabled), StatusMatchesFile and ShownIsStatus (snapshot and projection say what
  the file allows at each point of an operation, `runtimeIds` decides what is
  merged), UntrackedStopped (an untracked rule has no task), NothingLeft (the places
  of a shutdown), Reported, Told and Copied (a difference between task and
  snapshot is a signal not yet handled, one between snapshot and projection an
  unseen mark or an operation that publishes next), Explained (an enabled rule
  that is not served is being started, or has an error).
- `ShownAgreesWithFile` (ShownMatchesFile), `NothingIsLost` (ShownIsExplained) and
  `ShutdownIsComplete` (ShutdownReleasesAll), from both invariants.
- `Refinement`: `Spec => ImplementsContract`. Every step maps to an edit, a
  change of enabled, an opening, a closing, or leaves file and sockets alone. An
  edit needs that a disabled rule is not served, which is again a conjunct of the
  invariant: between operations a listener's rule is enabled in the file.

`LifecycleProofs`
- `TypeCorrect`; `InductiveInvariant`: Shape and Bounds (types and limits),
  BarrierInv (the flag precedes the queued writer), LockInv (the writer excludes
  readers), BusInv (each request in the bus belongs to exactly one guard holder
  that waits, and `initialize` ends before the exit can begin).
- `ExitBarrier` (NoWorkAfterDrain) and `EveryRefreshServed` (NoRefreshDropped).

`SshTerminalProofs`
- `TypeCorrect`; `InductiveInvariant`: Amounts, Flags and Shown (a version needs
  output of its own, so that it never runs ahead; what is shown was written),
  Channel (a place is kept for Disconnect while the runtime is held), Places (the
  phase decides the status, and from the end of the loop on nothing is dirty), Control
  (only the loop sends to the server).
  Places is why LastOutputShown holds: the flag is reset where the loop is left,
  two awaits before the status is set.
- `LastOutput`: LastOutputShown. Assumed is `TerminalAssumption`: the bounds are
  naturals.

`McpProofs`
- `ServerFollowsSettings`: ServedIsShown. That the server follows what is shown
  passes through the watch channel, so it needs OpenMeansManaged (while the
  channel is open its value is what is shown, and the manager lives) and
  ServerManaged (a server belongs to the manager that waits for it, with the
  channel's value unless a newer one is unseen); the file needs SavedFirst; a
  crash and a shutdown need NothingRuns and EndedQuiet.
- `CaughtUpClientsKnow`: ClientsKnow. The inductive part is ClientsFollow: of each
  session, a client that is not about to list them knows the state, or the event that
  says so is unread in the first channel or unsent in the second. An
  event may leave the first channel unread, by lag, so it also needs that whoever
  is behind will be told to list (WillList); EventsTrue (no event is
  sent before it is true) and ClosingFollows (in both channels the opening of a closed
  session is followed by its closing, or by the message that something was lost)
  exclude that an old event undoes a new one.
- `ToolsAreOfTheNamed`: ToolsActOnWhatTheyName, for every tool, session and kind of
  session, and for Control with any character. The tools that read and those
  that change a session are disjoint tables (`RowsAre`), and the answer that
  a tool waits for is the one its command has (`ResponseIsExpected`).

`SettingsProofs`
- `TunnelsAreOwned`: TunnelsFollowProfiles, with ConnectingAlone (who connects holds
  the mutex) and ClosedForEdit (an edit finds the tunnel closed, unless an opening
  overlapped it).
- `ChoicesAreKept`: NewestIsKept, from three invariants. Theme: EditsAreSaved (what is
  not in the file is marked as edited or in the hands of the worker) and
  WorkerFollowsApp, ChannelFollows. Host keys: WriterAlone (unless two
  raced, who is about to write is alone and has the file with its own entry in hand)
  and Asked (a check under way knows its host). Configurations:
  WritersAlone (CONFIG_WRITE), WritesTheShown and ConfirmedIsKept (where the list of
  a save is: in the draft, the store or on its way to what is shown).
- `StepsAreTrue`: StepsMeanWhatTheySay, an action property, from the invariants of
  the tunnels, configurations and workspaces.
- `PlacesComeTogether`: PlacesAgree. What a caller is about to do is a sequence, so
  the invariant first says which sequences there are (`Plans`, OneKind) and which of
  them belong to which protocol; then Listing, RuntimesFollow and EventsFollow say,
  for each pair of places, which rest of an operation accounts for a
  difference; OneOpener is why nobody else mends it first.
- `NoWatchIsOrphaned`: WatchesOwned, with OneOwner (a watch is in the map or in the
  hands of one caller), OfRuntimes and ListedRun.

`ServersProofs`
- `ServersRunAsShown`: ServersAreShown. Stored says which variable holds a server at each
  step of the operation that has the mutex, Owned that every live task is held by
  one, or is an SSH server that was aborted, and Kept that what is held was not told
  to stop. SettingsSaved follows the settings from the operation through the file to
  the server. GateHolds (an HTTP server that was launched has nothing to report until
  it is published), Reports (a task reports a port or an error) and Projected
  (the projection has the newest status or is told of it) carry StatusIsTrue: between
  operations the status is of the server that is held, or explains that none is.
- `HandlesAreApart`: HandlesStayApart. SessionsApart and NumbersApart: a number that is
  open belongs to one handle or to one connection that is being closed, unless
  it was given twice. NamesFollow: the name a handle was opened by leads to its
  node, or the node lost a name since; a rename, a removal and a replacement are the
  cases. Formed: the tree stays formed like a directory.
- `CommandsRunApart`: CommandsRunOnce. InOnePlace: a request waits in one place
  only, the ingress, the adapter's hands or one lane; PendingWaits: what waits is not
  answered and has not run; RunOrRefused: what was refused did not run. Without the
  first a refused request could have a twin that runs. TableHasLanes: the table has the only lane of a workspace that was not given up, and the events
  of ended lanes are about others, which matters since the router reads them
  late.
- `ClientsAreCounted`: ClientsAreAccountedFor. Of the proxies: the counter is the
  number of the clients that were taken (CounterIsTrue), what is shown of a server that
  runs is both (Published), and the list with the events that wait applied to it
  (`Listed`, `ListedAfter`) is the entries that are open (ListedAreOpen, EndedAreGone). Of
  the forwarded ports: InMapUntilAborted (a task that listens and was not
  aborted is in the map) and RelaysBounded: a relay that was not aborted has its
  listener, those of an ended one are `leaving`, and a port has never more of both
  than the bound. Of the shells: ExitIsOver (an exit that is sent, or on its way, is of
  a program that is over), Unstarted, and LastOfOutput,
  LastOfPump, LastOfQueue and ToldLast, which follow the exit through its three queues:
  behind it in each there is nothing, and when it has been told no queue before has
  anything. It is about the output that was read: what the pty holds when the thread
  finds the program over is in no queue, and no statement here says it is told.
- `TargetsAreOfTheRequest`: TargetsAreAsked, for requests with any number for a port and
  for greetings with any list of methods, any version and command and any list of
  addresses that are tried (`AnyHttpRequest`, `AnyGreeting`). The requests of the run are
  among them.

`SftpProofs`
- `ShownIsTheSaved`: ShownIsSaved, from two invariants. At the server, SessionInv:
  NavInv (InTurn: navigations go on in the order they asked for the lock; what is
  about to be saved is shown) and CommandsInv (a command in the channel or in the
  hands of the loop is there once, and somebody waits for it). Here, LocalInv:
  LockHeld (who is past the lock of navigations has it), ScansApart (scans have
  generations of their own), ScansStay (a scan that nobody navigated for lists the
  directory that is shown), SavesShown and SavedUnlessMoving.
- `TransfersEndWhole` (TransfersAreWhole) from TransfersInv: Exclusive (one transfer at
  a time is past the lock of a path), NothingYet and OwnData (what a transfer has not
  written yet, and that it writes alone), LateStops (after the write in which it was
  cancelled a transfer is not about to write), QuietEnds.
- `OnlyTheUserMoves`: RefreshNeverMoves, an action property. Two places of the code
  could move the directory, the connection and the reply to a list; the
  others leave it as it is.
- `DoneIsTheSame`: DoneMeansSame, from TreeInv. ListedBefore (what is planned has the
  source's signature, or an older one if the source was edited since), InHandFollows
  (the file in hand is a prefix of the source's), TimesTell (equal size and
  second mean equal content, unless `unlucky`), DoneIsSame.
- `SettledMeansUploaded`: SettledIsUploaded, from WatchInv. KnownIsOlder: what the
  task knows of a path is from no later second than what is there; with SecondsTell
  an equal signature is then equal content. UploadFollows (of the upload in hand, what
  changed since it was listed is named by an event), UploadedRoots and
  ProcessedIsUploaded follow a signature from the upload into the table;
  UploadedOrComing says that a change that is neither uploaded nor failed is an event
  to come, pending, in the batch or in hand.
- `PanelsMeanIt`: PanelsMeanWhatTheyShow, for both sides. Numbered (workspaces
  are numbered in the order they open, so that one that was closed does not come
  back under its number), Follows and Fresh (a projection is the context's or there is
  a change of it to be applied), Chains (of the navigations that wait for one another only the
  first has begun, and the last is what was wished for).

`WindowProofs`
- `WindowIsTrue`: WindowShowsTheContext. Of the tab bar, BarInv: BarNumbered
  (workspaces are numbered in the order of opening) and TabsApart, so that what
  was opened is told from what was there; TabsOfTheView (a tab for each session of the view,
  through all drags) and BarFollows (without news the view is the context, or the
  snapshot about to be taken is). Of the sidebar, SidebarInv: OneNewest (one
  refresh is the newest, and reads tunnels first), ReadIsStored (what it has read
  is there still unless an operation is to be answered, which starts a newer one),
  ShownIsStored (without a newest refresh the same holds of what is shown) and RowsAreShown.
- `DragMovesTheDragged`: DragFollowsThePointer, an action property, from
  TabsApart and what a sequence is that loses an element and gets it back elsewhere.
- `TerminalShowsTheScreen`: TerminalIsShown, from TerminalInv. UndamagedIsShown is
  why old lines can be reused: as long as history and offset are those of the
  last frame, what is not damaged is in it. StampsAreBegun: the times that are kept are the
  last of those that were begun, numbered from `first`, so that FrameFormed
  holds also after the oldest are given up; GridsFormed bounds both
  screens. That pages make up the history is an induction over the lines left to
  read (`PagesAreTheHistory`), with the text of lines a recursive function
  (`JoinIs`, `JoinGoesOn`).
- `PicturesAreRight`: PicturesAreTrue. The lemmas are about all inputs of a kind, and the
  inputs of the run are shown to be among them. `CopiesAreHighlights`: drags of any
  number of steps over frames of any lines, whose characters have any width and
  style. `RecursionIs` says that a function that is defined from its first value and its step
  exists, so that `FragmentsAre` can follow the fragments character by
  character: those that are selected make up the characters the selection covers. What is
  copied of a line is the same (`KeptIs`), and lines outside the selection's
  rows give nothing (`TextIs`). `ClicksAreOnCharacters`: columns never decrease
  (`ColumnsGrow`), so that the first character that ends behind the click is the one
  under it. `ThumbsStay`, for histories and screens of any length: the free part of the
  bar is a whole number of parts per line (`FreeIs`), so that rounding gives
  the line back. `ThemesAreReadable`: colours of any lightness.

The library's induction theorems take an operator and cannot be used. `SetInduction`
says the same of sets: a set that contains a natural whenever it contains all smaller
ones contains all of them; it follows from the library's facts that a set with
an element has a minimal one (`WFMin`, `NatLessThanWellFounded`). What is to
be shown of all n is then that the set of the n it holds of is such a set.

Each follows one layout: `Init => IInv`, one lemma or step per action for
`IInv /\ [Next]_vars => IInv'`, and a last step by PTL. In the proofs about MC modules
an invariant is proved from the steps of its part, and `PartSteps` (a step of the
whole is one of a part, and the others stutter) carries it to the specification.

The runs check the properties these theorems state on small instances:
`port_forward`, `lifecycle`, `ssh_terminal`, `mcp`, `settings`, `servers`, `sftp`,
`window`.

Model-checked only is all liveness (OperationsEnd, OverMeansEnded, Answered,
SessionEnds, ExitAndAnswers): it needs fairness and ENABLED, which the provers do
not have.

## 6. What is not modelled

- Database workspaces: this commit does not implement the connection; opening one
  is an error, which is a step of `Workspace`.
- The port test and the handshakes with outgoing proxies: one call without state.
- The bytes of relayed connections and of files; requests of the SSH and SFTP
  libraries, of which the models have what they may answer; authentication.
- SQL: each statement is a transaction of the library. The fields of a profile and
  their validation.
- JSON of the MCP tools, the HTTP serving and authentication of their requests.
- Layout and drawing, the forms of the settings windows, the home view, resizing of
  panels and of the terminal's grid, time stamps of lines, hue and saturation of
  colours, the copy of a wallpaper.
- The back history and the local selection of the SFTP panels: the local panel hands
  selected paths over without comparing them with what is shown
  (`gui/workspace/sftp/ui/local.rs:155`).
- Clipboard, logging, declarations of ports.
- Abstracted in what is modelled: the content of listings and the numbers of a
  progress; which operation a command executes in `McpRouter` and `Lifecycle`; the
  order in which services stop after the bus; what a deletion removes.
