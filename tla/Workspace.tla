----------------------------- MODULE Workspace -----------------------------
(***************************************************************************)
(* Opening, selecting and closing workspaces (application/session,         *)
(* data_context/workspace), with the runtimes of SSH and SFTP and the      *)
(* local watches of an SFTP workspace.                                     *)
(*                                                                         *)
(* Four places know a workspace: the profiles of the sessions, the list in *)
(* DATA_CONTEXT with its data, the map of runtimes, and whoever replays    *)
(* the lifecycle events.  An operation changes them one after the other,   *)
(* and nothing keeps the user from closing what is still being opened, or  *)
(* from closing it twice.                                                  *)
(*                                                                         *)
(* todo[c] holds the steps the operation of caller c still has to make, the*)
(* next one first.  The write lock of the profiles is not a variable: it   *)
(* is held from the change of the profiles until the events were sent.     *)
(* What a runtime does is in SftpSession; the data of a workspace appears  *)
(* and goes with its entry in the list, under the same locks.              *)
(***************************************************************************)
EXTENDS Naturals, SequencesExt

CONSTANTS
    Ids,        \* workspace ids: fresh UUIDs, each is used once
    NoId,
    Kinds,      \* of "ssh", "sftp", "database"
    NoKind,
    Callers,    \* operations that run at the same time
    Watches,    \* identities of watch tasks
    NoWatch

VARIABLES
    used,       \* ids that were generated
    profiles,   \* SessionState::profiles, by protocol
    listed,     \* DataSnapshot::workspaces, in their order
    selected,   \* DataSnapshot::selected_workspace_id
    runtimes,   \* the workspaces in the runtime maps of SSH and SFTP
    heard,      \* the workspaces as the lifecycle events tell
    watch,      \* local_watchers: the watch of a workspace (of one path)
    alive,      \* watch tasks that run
    shown,      \* the workspaces whose data lists the watch
    todo,       \* by caller: the steps left
    arg         \* by caller: the workspace, its protocol, a rollback or not,
                \* and the watch being set up

sessionVars == <<used, profiles, listed, selected, heard>>
watchVars == <<watch, alive, shown>>
vars == <<sessionVars, runtimes, watchVars, todo, arg>>

Steps == {"opened", "openedSelected", "runtime", "local", "environment",
          "closeRuntime", "drain", "closeSession", "closed", "closedSelected",
          "watchPath", "addWatch", "insertWatch", "unwatch", "removeWatch"}
NoArg == [id |-> NoId, kind |-> NoKind, undo |-> FALSE, watch |-> NoWatch]

Busy(c) == todo[c] # <<>>
At(c, step) == Busy(c) /\ Head(todo[c]) = step
Published == ToSet(listed)

TypeOK ==
    /\ used \subseteq Ids
    /\ profiles \in [Ids -> Kinds \cup {NoKind}]
    /\ Published \subseteq used /\ IsInjective(listed)
    /\ selected \in Ids \cup {NoId}
    /\ runtimes \subseteq used /\ heard \subseteq used
    /\ watch \in [Ids -> Watches \cup {NoWatch}]
    /\ alive \subseteq Watches /\ shown \subseteq used
    /\ \A c \in Callers : ToSet(todo[c]) \subseteq Steps
    /\ arg \in [Callers -> [id : Ids \cup {NoId}, kind : Kinds \cup {NoKind},
                            undo : BOOLEAN, watch : Watches \cup {NoWatch}]]

Init ==
    /\ used = {} /\ profiles = [id \in Ids |-> NoKind]
    /\ listed = <<>> /\ selected = NoId
    /\ runtimes = {} /\ heard = {}
    /\ watch = [id \in Ids |-> NoWatch] /\ alive = {} /\ shown = {}
    /\ todo = [c \in Callers |-> <<>>] /\ arg = [c \in Callers |-> NoArg]

\* Mutant: register and close release the profiles before the events are sent.
Unlocked == TRUE

\* The write lock of the profiles is free. It is held while the events are sent.
ProfilesFree ==
    \A c \in Callers, step \in {"opened", "openedSelected", "closed", "closedSelected"} :
        ~At(c, step)

\* The write lock of the SFTP runtimes can be taken: listen_local_directory
\* holds the read lock until its watch is in the map.
RuntimesFree == \A c \in Callers : ~At(c, "insertWatch")

Continue(c, steps) == todo' = [todo EXCEPT ![c] = steps]
Return(c) == Continue(c, <<>>) /\ arg' = [arg EXCEPT ![c] = NoArg]
\* The next step, or the return after the last one.
GoOn(c) == IF Len(todo[c]) = 1 THEN Return(c) ELSE Continue(c, Tail(todo[c])) /\ UNCHANGED arg

-----------------------------------------------------------------------------
(* Opening                                                                 *)

\* Mutant: register does not look whether the session is open.
OpenAgain(c, id, kind) ==
    /\ ~Busy(c) /\ ProfilesFree
    /\ used' = used \cup {id}
    /\ profiles' = [profiles EXCEPT ![id] = kind]
    /\ listed' = Append(listed, id) /\ selected' = id
    /\ Continue(c, <<"opened", "openedSelected", "runtime">>)
    /\ arg' = [arg EXCEPT ![c] = [NoArg EXCEPT !.id = id, !.kind = kind]]
    /\ UNCHANGED <<runtimes, heard, watchVars>>

\* open_session up to register: the profile and the published workspace.
Open(c, id, kind) ==
    /\ ~Busy(c) /\ id \notin used /\ ProfilesFree
    /\ used' = used \cup {id}
    /\ profiles' = [profiles EXCEPT ![id] = kind]
    /\ listed' = Append(listed, id) /\ selected' = id
    /\ Continue(c, <<"opened", "openedSelected", "runtime">>)
    /\ arg' = [arg EXCEPT ![c] = [NoArg EXCEPT !.id = id, !.kind = kind]]
    /\ UNCHANGED <<runtimes, heard, watchVars>>

NotifyOpened(c) ==
    /\ At(c, "opened")
    /\ heard' = heard \cup {arg[c].id}
    /\ GoOn(c)
    /\ UNCHANGED <<used, profiles, listed, selected, runtimes, watchVars>>

NotifySelected(c) ==
    /\ At(c, "openedSelected") \/ At(c, "closedSelected")
    /\ GoOn(c)
    /\ UNCHANGED <<sessionVars, runtimes, watchVars>>

\* What an opening that fails takes back, in this order; errors are ignored.
Rollback(kind) ==
    CASE kind = "ssh" -> <<"closeRuntime", "closeSession">>
      [] kind = "sftp" -> <<"closeRuntime", "drain", "closeSession">>
      [] OTHER -> <<"closeSession">>
Undo(c) ==
    /\ Continue(c, Rollback(arg[c].kind))
    /\ arg' = [arg EXCEPT ![c].undo = TRUE]

\* The terminal of a tunnel is sent its environment before open_session returns.
OpenSsh(c) ==
    /\ At(c, "runtime") /\ arg[c].kind = "ssh"
    /\ runtimes' = runtimes \cup {arg[c].id}
    /\ Return(c) \/ (Continue(c, <<"environment">>) /\ UNCHANGED arg)
    /\ UNCHANGED <<sessionVars, watchVars>>

EnvironmentSent(c) ==
    /\ At(c, "environment") /\ arg[c].id \in Published
    /\ Return(c)
    /\ UNCHANGED <<sessionVars, runtimes, watchVars>>

EnvironmentFails(c) ==
    /\ At(c, "environment") /\ Undo(c)
    /\ UNCHANGED <<sessionVars, runtimes, watchVars>>

\* Under the write lock: the workspace is still published, and now has a runtime.
OpenSftp(c) ==
    /\ At(c, "runtime") /\ arg[c].kind = "sftp" /\ RuntimesFree
    /\ arg[c].id \in Published
    /\ runtimes' = runtimes \cup {arg[c].id}
    /\ Continue(c, <<"local">>) /\ UNCHANGED arg
    /\ UNCHANGED <<sessionVars, watchVars>>

\* Its default directory cannot be read, or the workspace is closed meanwhile.
OpenSftpFails(c) ==
    /\ At(c, "runtime") /\ arg[c].kind = "sftp"
    /\ Undo(c)
    /\ UNCHANGED <<sessionVars, runtimes, watchVars>>

\* The local directory is listed, which may fail; what matters is whether the
\* workspace is still published afterwards.
OpenedSftp(c) ==
    /\ At(c, "local")
    /\ IF arg[c].id \in Published THEN Return(c) ELSE Undo(c)
    /\ UNCHANGED <<sessionVars, runtimes, watchVars>>

\* connect_database reports an error: there is no implementation yet.
OpenDatabase(c) ==
    /\ At(c, "runtime") /\ arg[c].kind = "database"
    /\ Undo(c)
    /\ UNCHANGED <<sessionVars, runtimes, watchVars>>

-----------------------------------------------------------------------------
(* Closing                                                                 *)

\* Mutant: SFTP is closed in the order of SSH.
ClosingRuntimeFirst(kind) ==
    CASE kind = "ssh" -> <<"closeRuntime", "closeSession">>
      [] kind = "sftp" -> <<"closeRuntime", "drain", "closeSession">>
      [] OTHER -> <<"closeSession">>

\* An SSH runtime is asked to stop first, an SFTP workspace is revoked first.
Closing(kind) ==
    CASE kind = "ssh" -> <<"closeRuntime", "closeSession">>
      [] kind = "sftp" -> <<"closeSession", "closeRuntime", "drain">>
      [] OTHER -> <<"closeSession">>

\* close_session takes a copy of the profile and goes by its protocol.
Close(c, id) ==
    /\ ~Busy(c) /\ ProfilesFree /\ profiles[id] # NoKind
    /\ Continue(c, Closing(profiles[id]))
    /\ arg' = [arg EXCEPT ![c] = [NoArg EXCEPT !.id = id, !.kind = profiles[id]]]
    /\ UNCHANGED <<sessionVars, runtimes, watchVars>>

\* A second close, or the rollback, was faster.
GiveUp(c) == IF arg[c].undo THEN GoOn(c) ELSE Return(c)

CloseSsh(c) ==
    /\ At(c, "closeRuntime") /\ arg[c].kind = "ssh"
    /\ runtimes' = runtimes \ {arg[c].id}
    /\ IF arg[c].id \in runtimes THEN GoOn(c) ELSE GiveUp(c)
    /\ UNCHANGED <<sessionVars, watchVars>>

\* The watches are drained even if there is no runtime.
CloseSftp(c) ==
    /\ At(c, "closeRuntime") /\ arg[c].kind = "sftp" /\ RuntimesFree
    /\ runtimes' = runtimes \ {arg[c].id}
    /\ GoOn(c)
    /\ UNCHANGED <<sessionVars, watchVars>>

\* A watch that is stopped uploads nothing more: its task is aborted.
Drain(c) ==
    LET id == arg[c].id IN
    /\ At(c, "drain")
    /\ alive' = alive \ {watch[id]} /\ watch' = [watch EXCEPT ![id] = NoWatch]
    /\ GoOn(c)
    /\ UNCHANGED <<sessionVars, runtimes, shown>>

\* close_workspace: the workspace after the closed one, or else the last.
Position(id) == CHOOSE i \in DOMAIN listed : listed[i] = id
NeighbourOf(id) ==
    LET rest == RemoveAt(listed, Position(id)) IN
    IF rest = <<>> THEN NoId
    ELSE rest[IF Position(id) <= Len(rest) THEN Position(id) ELSE Len(rest)]

\* The profile, the published workspace and its data go; who was selected is
\* told to everybody.
CloseSession(c) ==
    LET id == arg[c].id IN
    /\ At(c, "closeSession") /\ ProfilesFree /\ profiles[id] # NoKind
    /\ profiles' = [profiles EXCEPT ![id] = NoKind]
    /\ listed' = RemoveAt(listed, Position(id))
    /\ selected' = IF selected = id THEN NeighbourOf(id) ELSE selected
    /\ shown' = shown \ {id}
    /\ Continue(c, (IF selected = id THEN <<"closed", "closedSelected">> ELSE <<"closed">>)
                       \o Tail(todo[c]))
    /\ UNCHANGED <<used, heard, runtimes, watch, alive, arg>>

CloseSessionFails(c) ==
    /\ At(c, "closeSession") /\ ProfilesFree /\ profiles[arg[c].id] = NoKind
    /\ GiveUp(c)
    /\ UNCHANGED <<sessionVars, runtimes, watchVars>>

NotifyClosed(c) ==
    /\ At(c, "closed")
    /\ heard' = heard \ {arg[c].id}
    /\ GoOn(c)
    /\ UNCHANGED <<used, profiles, listed, selected, runtimes, watchVars>>

\* select_workspace does not touch the profiles.
Select(id) ==
    /\ id \in Published \cup {NoId} /\ selected # id
    /\ selected' = id
    /\ UNCHANGED <<used, profiles, listed, heard, runtimes, watchVars, todo, arg>>

-----------------------------------------------------------------------------
(* Watches of local directories                                            *)

Listen(c, id) ==
    /\ ~Busy(c) /\ id \in runtimes \cap Published /\ profiles[id] = "sftp"
    /\ Continue(c, <<"watchPath", "addWatch", "insertWatch">>)
    /\ arg' = [arg EXCEPT ![c] = [NoArg EXCEPT !.id = id, !.kind = "sftp"]]
    /\ UNCHANGED <<sessionVars, runtimes, watchVars>>

\* The watcher is created and its task spawned.
WatchPath(c, w) ==
    /\ At(c, "watchPath") /\ w \notin alive
    /\ alive' = alive \cup {w}
    /\ Continue(c, Tail(todo[c])) /\ arg' = [arg EXCEPT ![c].watch = w]
    /\ UNCHANGED <<sessionVars, runtimes, watch, shown>>

WatchPathFails(c) ==
    /\ At(c, "watchPath") /\ Return(c)
    /\ UNCHANGED <<sessionVars, runtimes, watchVars>>

\* Mutant: the runtime of the beginning is trusted.
AddWatchUnchecked(c) ==
    /\ At(c, "addWatch")
    /\ shown' = shown \cup ({arg[c].id} \cap Published)
    /\ GoOn(c)
    /\ UNCHANGED <<sessionVars, runtimes, watch, alive>>

\* With the read lock of the runtimes: the workspace has its runtime and data.
AddWatch(c) ==
    /\ At(c, "addWatch") /\ arg[c].id \in runtimes \cap Published
    /\ shown' = shown \cup {arg[c].id}
    /\ GoOn(c)
    /\ UNCHANGED <<sessionVars, runtimes, watch, alive>>

AddWatchFails(c) ==
    /\ At(c, "addWatch") /\ arg[c].id \notin runtimes \cap Published
    /\ alive' = alive \ {arg[c].watch}
    /\ Return(c)
    /\ UNCHANGED <<sessionVars, runtimes, watch, shown>>

\* The watch it replaces is stopped.
InsertWatch(c) ==
    LET id == arg[c].id IN
    /\ At(c, "insertWatch")
    /\ alive' = alive \ {watch[id]} /\ watch' = [watch EXCEPT ![id] = arg[c].watch]
    /\ Return(c)
    /\ UNCHANGED <<sessionVars, runtimes, shown>>

\* stop_listening_local_directory: out of the map, then out of the list.
Unlisten(c, id) ==
    /\ ~Busy(c) /\ id \in runtimes /\ watch[id] # NoWatch
    /\ Continue(c, <<"unwatch", "removeWatch">>)
    /\ arg' = [arg EXCEPT ![c] = [NoArg EXCEPT !.id = id, !.kind = "sftp"]]
    /\ UNCHANGED <<sessionVars, runtimes, watchVars>>

Unwatch(c) ==
    LET id == arg[c].id IN
    /\ At(c, "unwatch")
    /\ alive' = alive \ {watch[id]} /\ watch' = [watch EXCEPT ![id] = NoWatch]
    /\ IF watch[id] # NoWatch THEN GoOn(c) ELSE Return(c)
    /\ UNCHANGED <<sessionVars, runtimes, shown>>

RemoveWatch(c) ==
    /\ At(c, "removeWatch")
    /\ shown' = shown \ {arg[c].id}
    /\ Return(c)
    /\ UNCHANGED <<sessionVars, runtimes, watch, alive>>

-----------------------------------------------------------------------------
Opening(c) ==
    \/ NotifyOpened(c) \/ NotifySelected(c)
    \/ OpenSsh(c) \/ EnvironmentSent(c) \/ EnvironmentFails(c)
    \/ OpenSftp(c) \/ OpenSftpFails(c) \/ OpenedSftp(c) \/ OpenDatabase(c)
Closes(c) ==
    \/ CloseSsh(c) \/ CloseSftp(c) \/ Drain(c)
    \/ CloseSession(c) \/ CloseSessionFails(c) \/ NotifyClosed(c)
Watching(c) ==
    \/ \E w \in Watches : WatchPath(c, w)
    \/ WatchPathFails(c) \/ AddWatch(c) \/ AddWatchFails(c) \/ InsertWatch(c)
    \/ Unwatch(c) \/ RemoveWatch(c)

Next ==
    \/ \E c \in Callers, id \in Ids :
          \/ \E kind \in Kinds : Open(c, id, kind)
          \/ Close(c, id) \/ Listen(c, id) \/ Unlisten(c, id)
    \/ \E c \in Callers : Opening(c) \/ Closes(c) \/ Watching(c)
    \/ \E id \in Ids \cup {NoId} : Select(id)

Spec == Init /\ [][Next]_vars

-----------------------------------------------------------------------------
(* Properties                                                              *)

\* A workspace is in the profiles when it is published, except that its runtime
\* comes later and, for SSH, goes earlier; with no operation in progress all
\* three agree, whoever opened and closed it at the same time. What is selected
\* is published.
PlacesAgree ==
    /\ \A id \in Ids : profiles[id] # NoKind <=> id \in Published
    /\ selected \in Published \cup {NoId}
    /\ (\A c \in Callers : ~Busy(c)) => runtimes = Published

\* Whoever replays the events knows the published workspaces as soon as no event
\* is due: no workspace is announced after it was reported closed.
EventsAgree ==
    (\A c \in Callers : ~At(c, "opened") /\ ~At(c, "closed")) => heard = Published

\* A watch that runs is being set up, or is in the map of a workspace that has
\* its runtime or is about to drain its watches: none survives its workspace.
\* With no operation in progress a watch that is listed runs.
WatchesOwned ==
    /\ \A w \in alive :
          \/ \E c \in Callers : arg[c].watch = w
          \/ \E id \in Ids : /\ watch[id] = w
                             /\ id \in runtimes \/ \E c \in Callers :
                                                     arg[c].id = id /\ At(c, "drain")
    /\ (\A c \in Callers : ~Busy(c)) => \A id \in shown : watch[id] \in alive

\* "List local SFTP files and directories watched in the current session."
\* (src/src/infrastructure/agent_mcp/tools.rs:445): with no operation in progress
\* the watch of a published workspace is listed. The code breaks it when a watch is
\* started between the two steps that stop the one before.
RunningIsListed ==
    (\A c \in Callers : ~Busy(c)) =>
        \A id \in Published : watch[id] \in alive => id \in shown

=============================================================================
