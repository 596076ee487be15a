----------------------------- MODULE SshTunnels -----------------------------
(***************************************************************************)
(* A saved profile and its reverse tunnel (infrastructure/ssh/             *)
(* reverse_tunnel.rs, application/ssh/external.rs, application/session).   *)
(* Opening reads the profile, connects while it holds the mutex of the     *)
(* runtimes and keeps the session in the map; then a workspace is opened   *)
(* whose shell is told the tunnel's port.  Closing takes the session out   *)
(* of the map and ends it without the mutex.  An update or a deletion of   *)
(* the profile closes the tunnel first.  Nothing else orders them.         *)
(*                                                                         *)
(* One profile: what is in the database is a version of it, every version  *)
(* with a remote port of its own; other profiles share only the mutex.     *)
(***************************************************************************)
EXTENDS Integers

CONSTANTS
    Ops,         \* operations that may run at the same time
    NoOp,
    MaxVersion   \* bound: versions of the profile

VARIABLES
    profile,     \* the version in the database, 0 when deleted
    tunnel,      \* the version whose session is in `runtimes', or 0
    listening,   \* versions whose port is forwarded at the remote host
    lock,        \* who holds the mutex of `runtimes' across an await
    ops,         \* the operations
    raced        \* history: a tunnel was stored while its profile was edited

vars == <<profile, tunnel, listening, lock, ops, raced>>

Versions == 1..MaxVersion
Idle == [at |-> "idle", edit |-> "no", version |-> 0]

TypeOK ==
    /\ {profile, tunnel} \subseteq 0..MaxVersion /\ listening \subseteq Versions
    /\ lock \in Ops \cup {NoOp}
    /\ ops \in [Ops -> [at : {"idle", "openLock", "connect", "workspace", "check",
                              "told", "closeLock", "disconnect", "write"},
                        edit : {"no", "update", "delete"}, version : 0..MaxVersion]]
    /\ raced \in BOOLEAN

Init ==
    /\ profile = 1 /\ tunnel = 0 /\ listening = {} /\ lock = NoOp
    /\ ops = [o \in Ops |-> Idle]
    /\ raced = FALSE

Step(o, at) == ops' = [ops EXCEPT ![o].at = at]
Becomes(o, record) == ops' = [ops EXCEPT ![o] = record]
Ends(o) == Becomes(o, Idle)

-----------------------------------------------------------------------------
(* Opening: open_reverse_tunnel, then a workspace with proxy variables     *)

\* find_profile; a version without valid parameters is refused here too.
Open(o) ==
    /\ ops[o].at = "idle" /\ profile # 0
    /\ Becomes(o, [Idle EXCEPT !.at = "openLock", !.version = profile])
    /\ UNCHANGED <<profile, tunnel, listening, lock, raced>>

\* An entry of the map is taken for a running tunnel.
AlreadyOpen(o) ==
    /\ ops[o].at = "openLock" /\ lock = NoOp /\ tunnel # 0
    /\ Step(o, "workspace")
    /\ UNCHANGED <<profile, tunnel, listening, lock, raced>>

\* Mutant: the mutex is released while the connection is made.
StartConnectUnlocked(o) ==
    /\ ops[o].at = "openLock" /\ lock = NoOp /\ tunnel = 0
    /\ Step(o, "connect")
    /\ UNCHANGED <<profile, tunnel, listening, lock, raced>>

StartConnect(o) ==
    /\ ops[o].at = "openLock" /\ lock = NoOp /\ tunnel = 0
    /\ lock' = o
    /\ Step(o, "connect")
    /\ UNCHANGED <<profile, tunnel, listening, raced>>

\* No route, a host key that cannot be checked, refused credentials, or the
\* remote port is taken, for one by a session that is being closed.
ConnectFails(o) ==
    /\ ops[o].at = "connect"
    /\ lock' = NoOp /\ Ends(o)
    /\ UNCHANGED <<profile, tunnel, listening, raced>>

Editing(o) == ops[o].at \in {"disconnect", "write"} /\ ops[o].edit # "no"
Connected(o) ==
    /\ ops[o].at = "connect" /\ ops[o].version \notin listening
    /\ tunnel' = ops[o].version /\ listening' = listening \cup {ops[o].version}
    /\ raced' = (raced \/ profile # ops[o].version \/ \E u \in Ops : Editing(u))
    /\ lock' = NoOp /\ Step(o, "workspace")
    /\ UNCHANGED <<profile>>

\* open_session reads the profile again ...
FindWorkspace(o) ==
    /\ ops[o].at = "workspace" /\ profile # 0
    /\ Becomes(o, [ops[o] EXCEPT !.at = "check", !.version = profile])
    /\ UNCHANGED <<profile, tunnel, listening, lock, raced>>

\* Mutant: the port of the profile is exported whether or not it has a tunnel.
OpenWorkspaceUnchecked(o) ==
    /\ ops[o].at = "check" /\ lock = NoOp
    /\ Step(o, "told")
    /\ UNCHANGED <<profile, tunnel, listening, lock, raced>>

\* ... and checks that the profile has a tunnel, of whatever version.
OpenWorkspace(o) ==
    /\ ops[o].at = "check" /\ lock = NoOp /\ tunnel # 0
    /\ Step(o, "told")
    /\ UNCHANGED <<profile, tunnel, listening, lock, raced>>

\* The workspace is open, or could not be: the profile is gone, or has another
\* address or title than the caller's list, or the tunnel is gone.  The tunnel
\* that was opened for it is not closed again.
WorkspaceEnds(o) ==
    /\ ops[o].at \in {"workspace", "check", "told"}
    /\ Ends(o)
    /\ UNCHANGED <<profile, tunnel, listening, lock, raced>>

-----------------------------------------------------------------------------
(* Closing, alone or before an edit of the profile                         *)

\* A deleted profile's tunnel cannot be closed by hand.
Close(o, edit) ==
    /\ ops[o].at = "idle" /\ (profile # 0 \/ edit = "update")
    /\ Becomes(o, [Idle EXCEPT !.at = "closeLock", !.edit = edit])
    /\ UNCHANGED <<profile, tunnel, listening, lock, raced>>

\* Mutant: the tunnel of an edited profile is left running.
TakeSessionUnlessEdited(o) ==
    /\ ops[o].at = "closeLock" /\ lock = NoOp
    /\ tunnel' = IF ops[o].edit = "update" THEN tunnel ELSE 0
    /\ Becomes(o, [ops[o] EXCEPT !.at = "disconnect", !.version = tunnel - tunnel'])
    /\ UNCHANGED <<profile, listening, lock, raced>>

TakeSession(o) ==
    /\ ops[o].at = "closeLock" /\ lock = NoOp
    /\ tunnel' = 0
    /\ Becomes(o, [ops[o] EXCEPT !.at = "disconnect", !.version = tunnel])
    /\ UNCHANGED <<profile, listening, lock, raced>>

\* The forward is cancelled, within three seconds, and the session is ended.
Disconnect(o) ==
    /\ ops[o].at = "disconnect"
    /\ listening' = listening \ {ops[o].version}
    /\ IF ops[o].edit = "no" THEN Ends(o) ELSE Step(o, "write")
    /\ UNCHANGED <<profile, tunnel, lock, raced>>

Newest == IF profile = 0 THEN 0 ELSE profile + 1

\* A statement for a profile that is gone changes nothing and is an error.
Write(o) ==
    /\ ops[o].at = "write"
    /\ ops[o].edit = "update" => Newest <= MaxVersion
    /\ profile' = IF ops[o].edit = "delete" THEN 0 ELSE Newest
    /\ Ends(o)
    /\ UNCHANGED <<tunnel, listening, lock, raced>>

WriteFails(o) ==
    /\ ops[o].at = "write"
    /\ Ends(o)
    /\ UNCHANGED <<profile, tunnel, listening, lock, raced>>

-----------------------------------------------------------------------------
\* The network or the server ends the session; its entry stays in the map.
SessionDies ==
    /\ tunnel \in listening
    /\ listening' = listening \ {tunnel}
    /\ UNCHANGED <<profile, tunnel, lock, ops, raced>>

Next ==
    \/ SessionDies
    \/ \E o \in Ops :
        \/ Open(o) \/ AlreadyOpen(o) \/ StartConnect(o) \/ ConnectFails(o) \/ Connected(o)
        \/ FindWorkspace(o) \/ OpenWorkspace(o) \/ WorkspaceEnds(o)
        \/ \E edit \in {"no", "update", "delete"} : Close(o, edit)
        \/ TakeSession(o) \/ Disconnect(o) \/ Write(o) \/ WriteFails(o)

Spec == Init /\ [][Next]_vars

-----------------------------------------------------------------------------
(* Properties                                                              *)

\* A forwarded port belongs to the session in the map or to one that an
\* operation is ending: two openings at the same time leave no session behind.
NoOrphanSession ==
    \A v \in listening : v = tunnel \/ \E o \in Ops : ops[o].at = "disconnect" /\ ops[o].version = v

\* A tunnel is the one its profile says, unless an opening had read the profile
\* before an edit of it: the tunnel of an edited or deleted profile is closed.
TunnelFollowsProfile == tunnel \notin {0, profile} => raced

\* A shell is told the port its tunnel forwards, unless the profile was edited
\* while the workspace or the tunnel was being opened.
ExportsWork ==
    [][\A o \in Ops :
          ops[o].at = "check" /\ ops'[o].at = "told" /\ ops[o].version = profile /\ ~raced
             => tunnel = ops[o].version]_vars

=============================================================================
