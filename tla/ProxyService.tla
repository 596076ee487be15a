---------------------------- MODULE ProxyService ----------------------------
(***************************************************************************)
(* The three services with one skeleton: the HTTP proxy, the SOCKS5 proxy  *)
(* and the SSH server (infrastructure/http_proxy, socks5_proxy,            *)
(* ssh_server, and the initialize of each in application).  An operation   *)
(* stops the running server, binds the new settings, saves them and        *)
(* publishes the status; the server publishes connections and failures as  *)
(* long as its generation is current; a subscription copies the status to  *)
(* DATA_CONTEXT.                                                           *)
(*                                                                         *)
(* They differ where it matters, and `kind' says which one this behaviour  *)
(* is about: the HTTP server waits at a gate until its status is published *)
(* and the SOCKS5 server does not; both are waited for when they stop, and *)
(* the SSH server is aborted and left.  Which peers are connected is left  *)
(* out, and so are the sessions of the SSH server.                         *)
(***************************************************************************)
EXTENDS Integers

CONSTANTS
    Kinds,       \* of "http", "socks5", "ssh"
    Ports,
    NoPort,      \* not enabled
    Torn,        \* a settings file that cannot be read or is not valid
    Servers,     \* identities of server tasks
    NoServer,
    MaxConn,     \* MAX_CONNECTIONS (128)
    MaxCount,    \* bound: clients that are connected or not joined yet
    MaxCrashes   \* bound: crashes of the program in one behaviour

VARIABLES
    kind,
    file,      \* the settings file: the port when enabled
    pc,        \* the operation that holds the mutex `operation' (`state' in ssh)
    want,      \* its settings, and whether they are saved
    persist,
    running,   \* RuntimeState::running
    waits,     \* the server stop_running waits for
    new,       \* the server that was launched and is not published yet
    server,    \* the server tasks
    status,    \* the watch channel
    ctx,       \* what DATA_CONTEXT shows
    sub,       \* the subscription: what it has read and not set yet
    dirty,     \* its receiver has not seen the last status
    crashes

opVars == <<pc, want, persist, running, waits, new>>
shownVars == <<ctx, sub, dirty>>
vars == <<kind, file, opVars, server, status, shownVars, crashes>>

Default == [port |-> NoPort, conns |-> 0, error |-> FALSE]
Failed == [Default EXCEPT !.error = TRUE]
Up(port, conns) == [port |-> port, conns |-> conns, error |-> FALSE]
Statuses == [port : Ports \cup {NoPort}, conns : 0..MaxCount, error : BOOLEAN]
Nothing == [none |-> TRUE]

\* `at': free, gated, serving, draining, or failed (listener and clients are
\* dropped, the report is due); `conns': the counter `active'; `ended': client
\* tasks among them that gave their permit back and are not joined yet;
\* `current': its generation is the newest; `out': a status that passed the check of the generation and is being sent.
Free == [at |-> "free", port |-> NoPort, conns |-> 0, ended |-> 0,
         current |-> FALSE, stop |-> FALSE, out |-> Nothing]
Alive(s) == server[s].at # "free"
Holds(s, port) == server[s].at \in {"gated", "serving", "draining"} /\ server[s].port = port

TypeOK ==
    /\ kind \in Kinds
    /\ file \in Ports \cup {NoPort, Torn}
    /\ pc \in {"off", "load", "idle", "stop", "await", "launch", "save", "undo",
               "awaitUndo", "publish", "stopLast", "awaitLast", "ended"}
    /\ want \in Ports \cup {NoPort} /\ persist \in BOOLEAN
    /\ {running, waits, new} \subseteq Servers \cup {NoServer}
    /\ server \in [Servers ->
          [at : {"free", "gated", "serving", "draining", "failed"},
           port : Ports \cup {NoPort}, conns : 0..MaxCount, ended : 0..MaxCount,
           current : BOOLEAN, stop : BOOLEAN, out : Statuses \cup {Nothing}]]
    /\ \A s \in Servers : server[s].conns - server[s].ended \in 0..MaxConn
    /\ status \in Statuses /\ ctx \in Statuses
    /\ sub \in Statuses \cup {Nothing} /\ dirty \in BOOLEAN
    /\ crashes \in 0..MaxCrashes

Init ==
    /\ kind \in Kinds
    /\ file \in Ports \cup {NoPort, Torn}
    /\ pc = "off" /\ want = NoPort /\ persist = FALSE
    /\ running = NoServer /\ waits = NoServer /\ new = NoServer
    /\ server = [s \in Servers |-> Free]
    /\ status = Default /\ ctx = Default /\ sub = Nothing /\ dirty = FALSE
    /\ crashes = 0

\* send_replace notifies every receiver, whatever the value.
Send(value) == status' = value /\ dirty' = TRUE

-----------------------------------------------------------------------------
(* The application: initialize and the subscription                        *)

\* The subscriber's first value is set before its task is spawned.
Initialize ==
    /\ pc = "off"
    /\ pc' = "load"
    /\ ctx' = status
    /\ UNCHANGED <<kind, file, want, persist, running, waits, new, server, status,
                   sub, dirty, crashes>>

\* The settings could not be read, or are not valid: only DATA_CONTEXT knows.
LoadFails ==
    /\ pc = "load" /\ file = Torn
    /\ pc' = "idle"
    /\ ctx' = Failed
    /\ UNCHANGED <<kind, file, want, persist, running, waits, new, server, status,
                   sub, dirty, crashes>>

LoadDisabled ==
    /\ pc = "load" /\ file = NoPort
    /\ pc' = "idle"
    /\ UNCHANGED <<kind, file, want, persist, running, waits, new, server, status,
                   shownVars, crashes>>

LoadEnabled ==
    /\ pc = "load" /\ file \in Ports
    /\ pc' = "stop" /\ want' = file /\ persist' = FALSE
    /\ UNCHANGED <<kind, file, running, waits, new, server, status, shownVars, crashes>>

\* Other receivers may have sent more in the meantime: the newest is read.
SubReads ==
    /\ dirty /\ sub = Nothing
    /\ sub' = status /\ dirty' = FALSE
    /\ UNCHANGED <<kind, file, opVars, server, status, ctx, crashes>>

SubSets ==
    /\ sub # Nothing
    /\ ctx' = sub /\ sub' = Nothing
    /\ UNCHANGED <<kind, file, opVars, server, status, dirty, crashes>>

-----------------------------------------------------------------------------
(* Operations                                                              *)

\* update, with settings that passed the validation.
Update(port) ==
    /\ pc = "idle"
    /\ pc' = "stop" /\ want' = port /\ persist' = TRUE
    /\ UNCHANGED <<kind, file, running, waits, new, server, status, shownVars, crashes>>

Shutdown ==
    /\ pc = "idle"
    /\ pc' = "stopLast"
    /\ UNCHANGED <<kind, file, want, persist, running, waits, new, server, status,
                   shownVars, crashes>>

\* fetch_add: no server is of the current generation any more.
Outdated == [s \in Servers |-> [server[s] EXCEPT !.current = FALSE]]
Signalled(servers, s) ==
    IF s = NoServer THEN servers ELSE [servers EXCEPT ![s].stop = TRUE]

After == [stop |-> "await", stopLast |-> "awaitLast", undo |-> "awaitUndo"]

\* Mutant: the old server is signalled and left behind, as in the SSH server.
TakeOldAtOnce ==
    /\ pc \in {"stop", "stopLast"} /\ kind # "ssh"
    /\ pc' = After[pc]
    /\ server' = Signalled(Outdated, running)
    /\ waits' = NoServer /\ running' = NoServer
    /\ UNCHANGED <<kind, file, want, persist, new, status, shownVars, crashes>>

TakeOld ==
    /\ pc \in {"stop", "stopLast"} /\ kind # "ssh"
    /\ pc' = After[pc]
    /\ server' = Signalled(Outdated, running)
    /\ waits' = running /\ running' = NoServer
    /\ UNCHANGED <<kind, file, want, persist, new, status, shownVars, crashes>>

\* shutdown and abort, without waiting for the task.
TakeOldSsh ==
    /\ pc \in {"stop", "stopLast"} /\ kind = "ssh"
    /\ pc' = After[pc]
    /\ server' = Signalled(Outdated, running)
    /\ running' = NoServer
    /\ UNCHANGED <<kind, file, want, persist, waits, new, status, shownVars, crashes>>

\* The task has ended, or three seconds are over and it is aborted, which takes
\* effect at an await: not between the check of the generation and the send.
Stopped ==
    IF waits = NoServer THEN server' = server
    ELSE server[waits].out = Nothing /\ server' = [server EXCEPT ![waits] = Free]

Awaited ==
    /\ pc = "await" /\ Stopped
    /\ pc' = "launch" /\ waits' = NoServer
    /\ UNCHANGED <<kind, file, want, persist, running, new, status, shownVars, crashes>>

AwaitedLast ==
    /\ pc = "awaitLast" /\ Stopped
    /\ pc' = "ended" /\ waits' = NoServer
    /\ Send(Default)
    /\ UNCHANGED <<kind, file, want, persist, running, new, ctx, sub, crashes>>

LaunchNothing ==
    /\ pc = "launch" /\ want = NoPort
    /\ pc' = "save"
    /\ UNCHANGED <<kind, file, want, persist, running, waits, new, server, status,
                   shownVars, crashes>>

\* Another program may hold the port, and so may a server of ours; in the SSH
\* server the host key or the root directory may be missing.
BindFails ==
    /\ pc = "launch" /\ want \in Ports
    /\ pc' = "idle"
    /\ Send(Failed)
    /\ ctx' = IF kind # "http" /\ ~persist THEN Failed ELSE ctx
    /\ UNCHANGED <<kind, file, want, persist, running, waits, new, server, sub, crashes>>

Bind(s, at) ==
    /\ pc = "launch" /\ want \in Ports
    /\ ~Alive(s) /\ \A u \in Servers : ~Holds(u, want)
    /\ pc' = "save"
    /\ server' = [server EXCEPT ![s] = [Free EXCEPT !.at = at, !.port = want,
                                                    !.current = TRUE]]
    /\ new' = s
    /\ UNCHANGED <<kind, file, want, persist, waits, status, shownVars, crashes>>

\* Mutant: the server does not wait for its status to be published.
LaunchUngated(s) == kind = "http" /\ Bind(s, "serving") /\ UNCHANGED running
LaunchHttp(s) == kind = "http" /\ Bind(s, "gated") /\ UNCHANGED running
LaunchSocks5(s) == kind = "socks5" /\ Bind(s, "serving") /\ UNCHANGED running
\* The SSH server is stored at once.
LaunchSsh(s) == kind = "ssh" /\ Bind(s, "serving") /\ running' = s

SkipSave ==
    /\ pc = "save" /\ ~persist
    /\ pc' = "publish"
    /\ UNCHANGED <<kind, file, want, persist, running, waits, new, server, status,
                   shownVars, crashes>>

SaveSettings ==
    /\ pc = "save" /\ persist
    /\ pc' = "publish" /\ file' = want
    /\ UNCHANGED <<kind, want, persist, running, waits, new, server, status,
                   shownVars, crashes>>

\* Mutant: the error of the save is only logged.
SaveFailsUnseen ==
    /\ pc = "save" /\ persist
    /\ pc' = "publish" /\ file' \in {file, Torn}
    /\ UNCHANGED <<kind, want, persist, running, waits, new, server, status,
                   shownVars, crashes>>

\* The file is written in place, so a failure may leave a part of it.
SaveFails ==
    /\ pc = "save" /\ persist
    /\ pc' = "undo" /\ file' \in {file, Torn}
    /\ UNCHANGED <<kind, want, persist, running, waits, new, server, status,
                   shownVars, crashes>>

\* The server that was just launched is stopped again; its generation is
\* still the current one.
Undo ==
    /\ pc = "undo"
    /\ pc' = "awaitUndo"
    /\ server' = Signalled(server, new)
    /\ waits' = IF kind = "ssh" THEN NoServer ELSE new
    /\ running' = NoServer /\ new' = NoServer
    /\ UNCHANGED <<kind, file, want, persist, status, shownVars, crashes>>

\* Mutant: the error of the save is returned and not shown.
UndoneSilently ==
    /\ pc = "awaitUndo" /\ Stopped
    /\ pc' = "idle" /\ waits' = NoServer
    /\ Send(Default)
    /\ UNCHANGED <<kind, file, want, persist, running, new, ctx, sub, crashes>>

Undone ==
    /\ pc = "awaitUndo" /\ Stopped
    /\ pc' = "idle" /\ waits' = NoServer
    /\ Send(Failed)
    /\ UNCHANGED <<kind, file, want, persist, running, new, ctx, sub, crashes>>

Launched == IF new = NoServer THEN Default ELSE Up(want, 0)

\* The status first, then the gate.
PublishHttp ==
    /\ pc = "publish" /\ kind = "http"
    /\ pc' = "idle"
    /\ Send(Launched)
    /\ server' = IF new = NoServer THEN server ELSE [server EXCEPT ![new].at = "serving"]
    /\ running' = new /\ new' = NoServer
    /\ UNCHANGED <<kind, file, want, persist, waits, ctx, sub, crashes>>

\* The server is stored, then the status of its launch is published.
PublishSocks5 ==
    /\ pc = "publish" /\ kind = "socks5"
    /\ pc' = "idle"
    /\ Send(Launched)
    /\ running' = new /\ new' = NoServer
    /\ UNCHANGED <<kind, file, want, persist, waits, server, ctx, sub, crashes>>

PublishSsh ==
    /\ pc = "publish" /\ kind = "ssh"
    /\ pc' = "idle"
    /\ Send(Launched)
    /\ new' = NoServer
    /\ UNCHANGED <<kind, file, want, persist, running, waits, server, ctx, sub, crashes>>

-----------------------------------------------------------------------------
(* The server tasks                                                        *)

Serve(s, record) ==
    /\ server' = [server EXCEPT ![s] = record]
    /\ UNCHANGED <<kind, file, opVars, status, shownVars, crashes>>

\* publish_status: what is sent if the generation is current.
Reporting(record, value) == [record EXCEPT !.out = IF record.current THEN value ELSE Nothing]
Counted(s, conns) ==
    Reporting([server[s] EXCEPT !.conns = conns], Up(server[s].port, conns))
Idle(s) == server[s].out = Nothing

\* Mutant: the semaphore has one permit more.
AcceptOneMore(s) ==
    /\ server[s].at = "serving" /\ Idle(s) /\ kind # "ssh"
    /\ server[s].conns - server[s].ended <= MaxConn /\ server[s].conns < MaxCount
    /\ Serve(s, Counted(s, server[s].conns + 1))

\* A client without a permit is dropped or told that the server is busy. The
\* select may accept before it joins, so the counter can exceed the limit.
Accept(s) ==
    /\ server[s].at = "serving" /\ Idle(s) /\ kind # "ssh"
    /\ server[s].conns - server[s].ended < MaxConn /\ server[s].conns < MaxCount
    /\ Serve(s, Counted(s, server[s].conns + 1))

\* A client task drops its permit; that is also what a stop makes it do.
ClientEnds(s) ==
    /\ server[s].at \in {"serving", "draining"} /\ server[s].ended < server[s].conns
    /\ Serve(s, [server[s] EXCEPT !.ended = @ + 1])

Joined(s) ==
    /\ server[s].at \in {"serving", "draining"} /\ Idle(s) /\ server[s].ended > 0
    /\ Serve(s, [Counted(s, server[s].conns - 1) EXCEPT !.ended = @ - 1])

\* A client's target is known, or changed: the list of connections is sent again.
ConnectionEvent(s) ==
    /\ server[s].at = "serving" /\ Idle(s) /\ server[s].conns > 0
    /\ Serve(s, Counted(s, server[s].conns))

BreakOnStop(s) ==
    /\ server[s].at = "serving" /\ Idle(s) /\ server[s].stop /\ kind # "ssh"
    /\ Serve(s, [server[s] EXCEPT !.at = "draining"])

\* The gate's sender was dropped by stop_running.
GateDropped(s) ==
    /\ server[s].at = "gated" /\ server[s].stop
    /\ Serve(s, Free)

\* The rejected clients of SOCKS5 are joined too.
Drained(s) ==
    /\ server[s].at = "draining" /\ Idle(s) /\ server[s].conns = 0
    /\ Serve(s, Free)

\* run_server returns an error, and its listener and clients are dropped; then
\* the generation is checked.
Fails(s) ==
    /\ server[s].at = "serving" /\ Idle(s)
    /\ Serve(s, Reporting([server[s] EXCEPT !.at = "failed", !.conns = 0,
                                                !.ended = 0], Failed))

\* The abort of an SSH server takes effect, unless its task has just failed.
AbortedSsh(s) ==
    /\ server[s].at = "serving" /\ server[s].stop /\ kind = "ssh"
    /\ Serve(s, Free)

\* send_replace, on its own thread: nothing keeps an operation from changing
\* the generation after the check.
SendStatus(s) ==
    /\ ~Idle(s)
    /\ Send(server[s].out)
    /\ server' = [server EXCEPT ![s].out = Nothing]
    /\ UNCHANGED <<kind, file, opVars, ctx, sub, crashes>>

\* A failed server has nothing more to say; its handle stays in `running'.
FailedEnds(s) ==
    /\ server[s].at = "failed" /\ Idle(s) /\ s \notin {running, waits, new}
    /\ Serve(s, Free)

-----------------------------------------------------------------------------
Crash ==
    /\ crashes < MaxCrashes /\ pc # "off"
    /\ crashes' = crashes + 1
    /\ file' \in IF pc = "save" /\ persist THEN {file, want, Torn} ELSE {file}
    /\ pc' = "off" /\ want' = NoPort /\ persist' = FALSE
    /\ running' = NoServer /\ waits' = NoServer /\ new' = NoServer
    /\ server' = [s \in Servers |-> Free]
    /\ status' = Default /\ ctx' = Default /\ sub' = Nothing /\ dirty' = FALSE
    /\ UNCHANGED kind

Load == LoadFails \/ LoadDisabled \/ LoadEnabled
Stop == TakeOld \/ TakeOldSsh \/ Awaited \/ AwaitedLast
Launch ==
    \/ LaunchNothing \/ BindFails
    \/ \E s \in Servers : LaunchHttp(s) \/ LaunchSocks5(s) \/ LaunchSsh(s)
Save == SkipSave \/ SaveSettings \/ SaveFails \/ Undo \/ Undone
Publish == PublishHttp \/ PublishSocks5 \/ PublishSsh
Server(s) ==
    \/ Accept(s) \/ ClientEnds(s) \/ Joined(s) \/ ConnectionEvent(s) \/ BreakOnStop(s)
    \/ GateDropped(s) \/ Drained(s)
    \/ Fails(s) \/ AbortedSsh(s) \/ SendStatus(s) \/ FailedEnds(s)

Next ==
    \/ Initialize \/ Load \/ SubReads \/ SubSets
    \/ \E port \in Ports \cup {NoPort} : Update(port)
    \/ Shutdown \/ Stop \/ Launch \/ Save \/ Publish
    \/ \E s \in Servers : Server(s)
    \/ Crash

Spec == Init /\ [][Next]_vars

-----------------------------------------------------------------------------
(* Properties                                                              *)

\* Between operations, and when the next server is bound, no server is left but
\* the stored one; in the SSH server an aborted one may be.
NoServerLeftBehind ==
    pc \in {"idle", "launch", "ended"} =>
        \A s \in Servers : Alive(s) /\ s # running => kind = "ssh" /\ server[s].stop

\* With nothing in flight a service that is not stored is not shown as running,
\* and what is shown of the HTTP proxy is what its server last reported. The
\* gate is what makes the difference: a failure or a client of a SOCKS5 or SSH
\* server can be overwritten by the status of its launch.
Settled == pc = "idle" /\ sub = Nothing /\ ~dirty /\ \A s \in Servers : Idle(s)
Reported(s) ==
    IF server[s].at = "failed" THEN Failed ELSE Up(server[s].port, server[s].conns)
ShownIsTrue ==
    Settled =>
        IF running = NoServer THEN ctx.port = NoPort
        ELSE kind = "http" => ctx = Reported(running)

\* Between operations the stored server has the saved settings: a server whose
\* settings could not be saved does not stay, and the start after a crash in the
\* middle of an operation takes the file.
RunsWhatIsSaved == pc = "idle" /\ running # NoServer => server[running].port = file

\* Settings that are enabled, or cannot be read, show the running service or an
\* error: also after a failed save, a failed bind, a crash in the middle of a
\* write and the start after it.
EnabledIsExplained ==
    Settled /\ file # NoPort => ctx.port # NoPort \/ ctx.error

=============================================================================
