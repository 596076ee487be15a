---------------------------- MODULE SftpSession ----------------------------
(***************************************************************************)
(* One SFTP workspace: the session task that takes commands from a channel *)
(* (run_sftp_session), the transfer tasks it spawns, callers that navigate *)
(* under the navigation lock, transfers cancelled and retried while their  *)
(* tasks run, directory refreshes after uploads and deletions, and the     *)
(* closing of the workspace, which first revokes its data and then stops   *)
(* the session.                                                            *)
(*                                                                         *)
(* A directory has one file, which is what a transfer of that directory    *)
(* uploads or downloads in one chunk; listings, errors, progress and the   *)
(* local directory are left out.                                           *)
(***************************************************************************)
EXTENDS Naturals, Sequences

CONSTANTS
    Dirs,        \* remote directories
    InitialDir,  \* where a session starts: the saved directory, or "."
    NoDir,
    Transfers,   \* bound: transfer ids, each used once
    MaxNavs      \* bound: navigations, numbered in the order they are asked

VARIABLES
    open,        \* the workspace is published in DATA_CONTEXT
    shown,       \* its remote snapshot, and remote_navigation_generation
    cancelled,   \* cancelled_transfers
    xfer,        \* the transfers: record, command and task
    nav, goal,   \* the navigations: state of the caller, requested directory
    saved,       \* the remote directory persisted for the profile
    registered,  \* the runtime is in the runtimes map
    chan,        \* the command channel
    loop,        \* the session task, and the command it is busy with
    content,     \* whose data is in the remote file of each directory, and under
                 \* NoDir in the local file, which all downloads write (a bound)
    closing      \* the close_session call: no, revoked, waiting, ok, timeout

vars == <<open, shown, cancelled, xfer, nav, goal, saved, registered, chan,
          loop, content, closing>>

Navs == 1..MaxNavs
NoGen == 0
NoWork == [op |-> "none"]
Ends == {"new", "queued", "over"}              \* there is no task
Unlocked == Ends \cup {"lock"}
Steps == {"check", "create", "copy", "write", "tail", "finish", "judge",
          "broken", "cancelled", "done", "failed", "refresh", "commit"}
Cancellable == {"queued", "scanning", "running"}    \* is_transfer_cancellable

Running(t) == xfer[t].at \notin Ends
Pending(n) == nav[n] \notin {"new", "done", "error"}
Current(dir, gen) == shown.path = dir /\ shown.gen = gen

TypeOK ==
    /\ open \in BOOLEAN /\ registered \in BOOLEAN
    /\ shown \in [path : Dirs \cup {NoDir}, loading : BOOLEAN,
                  gen : 1..(MaxNavs + 1), status : {"connecting", "connected", "failed"}]
    /\ cancelled \subseteq Transfers
    /\ xfer \in [Transfers ->
          [at : Unlocked \cup Steps, kind : {"upload", "download"},
           status : Cancellable \cup {"none", "cancelled", "done", "failed", "gone"},
           key : Dirs \cup {NoDir}, refresh : Dirs \cup {NoDir},
           gen : NoGen..(MaxNavs + 1), late : Nat]]
    /\ nav \in [Navs -> {"new", "waiting", "loading", "sent", "saving", "done", "error"}]
    /\ goal \in [Navs -> Dirs \cup {NoDir}] /\ saved \in Dirs \cup {NoDir}
    /\ \A i \in 1..Len(chan) : chan[i].op \in {"navigate", "transfer", "delete", "disconnect"}
    /\ loop.at \in {"connecting", "recv", "navigate", "starting", "delete", "joining", "over"}
    /\ content \in [Dirs \cup {NoDir} -> SUBSET Transfers]
    /\ closing \in {"no", "revoked", "waiting", "ok", "timeout"}

Init ==
    /\ open = TRUE /\ registered = TRUE
    /\ shown = [path |-> NoDir, loading |-> TRUE, gen |-> 1, status |-> "connecting"]
    /\ cancelled = {}
    /\ xfer = [t \in Transfers |->
                 [at |-> "new", kind |-> "upload", status |-> "none", key |-> NoDir,
                  refresh |-> NoDir, gen |-> NoGen, late |-> 0]]
    /\ nav = [n \in Navs |-> "new"] /\ goal = [n \in Navs |-> NoDir]
    /\ saved = NoDir /\ chan = <<>>
    /\ loop = [at |-> "connecting", cmd |-> NoWork]
    /\ content = [d \in Dirs \cup {NoDir} |-> {}]
    /\ closing = "no"

\* Edits of a workspace that was revoked change nothing (edit_sftp_state).
Show(snapshot) == shown' = IF open THEN snapshot ELSE shown
Ended(record) == [record EXCEPT !.at = "over", !.refresh = NoDir, !.gen = NoGen, !.late = 0]
Marked(t, status) == IF open THEN status ELSE xfer[t].status

-----------------------------------------------------------------------------
(* Navigation: change_remote_directory                                     *)

Navigate(n, d) ==
    /\ registered /\ nav[n] = "new" /\ \A m \in 1..(n - 1) : nav[m] # "new"
    /\ nav' = [nav EXCEPT ![n] = "waiting"]
    /\ goal' = [goal EXCEPT ![n] = d]
    /\ UNCHANGED <<open, shown, cancelled, xfer, saved, registered, chan, loop,
                   content, closing>>

\* Mutant: the lock is released before the directory is saved.
NavGoEarly(n) ==
    /\ nav[n] = "waiting" /\ \A m \in 1..(n - 1) : Pending(m) => nav[m] = "saving"
    /\ registered
    /\ Show([shown EXCEPT !.loading = TRUE, !.gen = @ + 1])
    /\ nav' = [nav EXCEPT ![n] = "loading"]
    /\ UNCHANGED <<open, cancelled, xfer, goal, saved, registered, chan, loop,
                   content, closing>>

\* The navigation lock is granted in the order it is asked for.
Granted(n) == nav[n] = "waiting" /\ \A m \in 1..(n - 1) : ~Pending(m)

NavGo(n) ==
    /\ Granted(n) /\ registered
    /\ Show([shown EXCEPT !.loading = TRUE, !.gen = @ + 1])
    /\ nav' = [nav EXCEPT ![n] = "loading"]
    /\ UNCHANGED <<open, cancelled, xfer, goal, saved, registered, chan, loop,
                   content, closing>>

NavSend(n) ==
    /\ nav[n] = "loading" /\ loop.at # "over"
    /\ chan' = Append(chan, [op |-> "navigate", n |-> n])
    /\ nav' = [nav EXCEPT ![n] = "sent"]
    /\ UNCHANGED <<open, shown, cancelled, xfer, goal, saved, registered, loop,
                   content, closing>>

\* Mutant: a caller whose command was dropped is told only while registered.
NavRefusedRegistered(n) ==
    /\ \/ Granted(n) /\ ~registered
       \/ nav[n] = "loading" /\ loop.at = "over"
       \/ nav[n] = "sent" /\ loop.at = "over" /\ registered
    /\ nav' = [nav EXCEPT ![n] = "error"]
    /\ UNCHANGED <<open, shown, cancelled, xfer, goal, saved, registered, chan,
                   loop, content, closing>>

\* The runtime was removed, the channel is closed, or the command was dropped.
NavRefused(n) ==
    /\ \/ Granted(n) /\ ~registered
       \/ nav[n] \in {"loading", "sent"} /\ loop.at = "over"
    /\ nav' = [nav EXCEPT ![n] = "error"]
    /\ UNCHANGED <<open, shown, cancelled, xfer, goal, saved, registered, chan,
                   loop, content, closing>>

NavSaved(n) ==
    /\ nav[n] = "saving" /\ open
    /\ saved' = goal[n]
    /\ nav' = [nav EXCEPT ![n] = "done"]
    /\ UNCHANGED <<open, shown, cancelled, xfer, goal, registered, chan, loop,
                   content, closing>>

\* The workspace is closed, or the storage fails.
NavUnsaved(n) ==
    /\ nav[n] = "saving"
    /\ nav' = [nav EXCEPT ![n] = "error"]
    /\ UNCHANGED <<open, shown, cancelled, xfer, goal, saved, registered, chan,
                   loop, content, closing>>

-----------------------------------------------------------------------------
(* Transfers, as their users see them                                      *)

\* Connected: the snapshot has had a directory since set_connected.
Ready == registered /\ loop.at \notin {"connecting", "over"}

Add(t, kind, key) ==
    /\ xfer[t].at = "new"
    /\ xfer' = [xfer EXCEPT ![t] =
                  [@ EXCEPT !.at = "queued", !.kind = kind, !.key = key,
                            !.refresh = shown.path,
                            !.status = IF open THEN "queued" ELSE "gone"]]
    /\ chan' = Append(chan, [op |-> "transfer", t |-> t])
    /\ UNCHANGED <<open, shown, cancelled, nav, goal, saved, registered, loop,
                   content, closing>>

Upload(t) == Ready /\ open /\ Add(t, "upload", shown.path)
Download(t) == Ready /\ open /\ Add(t, "download", shown.path)

\* upload_path_to_remote: a watch uploads to where it was set up.
UploadWatched(t) == Ready /\ \E d \in Dirs : Add(t, "upload", d)

\* A new id; the refreshed directory is the one shown now.
Retry(t, u) ==
    /\ Ready /\ open /\ xfer[t].status \in {"failed", "cancelled"}
    /\ Add(u, xfer[t].kind, xfer[t].key)

Cancel(t) ==
    /\ registered /\ open /\ xfer[t].status \in Cancellable
    /\ cancelled' = cancelled \cup {t}
    /\ xfer' = [xfer EXCEPT ![t].status = "cancelled"]
    /\ UNCHANGED <<open, shown, nav, goal, saved, registered, chan, loop,
                   content, closing>>

\* Bound: one deletion at a time.
Delete ==
    /\ Ready /\ open
    /\ loop.at # "delete" /\ \A i \in 1..Len(chan) : chan[i].op # "delete"
    /\ chan' = Append(chan, [op |-> "delete", dir |-> shown.path])
    /\ UNCHANGED <<open, shown, cancelled, xfer, nav, goal, saved, registered,
                   loop, content, closing>>

-----------------------------------------------------------------------------
(* The session task: run_sftp_session                                      *)

Connect ==
    /\ loop.at = "connecting"
    /\ loop' = [loop EXCEPT !.at = "recv"]
    /\ Show([shown EXCEPT !.path = InitialDir, !.loading = FALSE, !.status = "connected"])
    /\ UNCHANGED <<open, cancelled, xfer, nav, goal, saved, registered, chan,
                   content, closing>>

\* set_failed; the receiver is dropped with the task.
ConnectFails ==
    /\ loop.at = "connecting"
    /\ loop' = [at |-> "over", cmd |-> NoWork] /\ chan' = <<>>
    /\ Show([shown EXCEPT !.loading = FALSE, !.status = "failed"])
    /\ UNCHANGED <<open, cancelled, xfer, nav, goal, saved, registered, content,
                   closing>>

Next1(op) == loop.at = "recv" /\ chan # <<>> /\ Head(chan).op = op

TakeNavigate ==
    /\ Next1("navigate")
    /\ loop' = [at |-> "navigate", cmd |-> Head(chan)] /\ chan' = Tail(chan)
    /\ UNCHANGED <<open, shown, cancelled, xfer, nav, goal, saved, registered,
                   content, closing>>

\* Mutant: set_directory starts a new generation as well.
NavigateEndsTwice ==
    /\ loop.at = "navigate"
    /\ Show([shown EXCEPT !.path = goal[loop.cmd.n], !.loading = FALSE, !.gen = @ + 1])
    /\ nav' = [nav EXCEPT ![loop.cmd.n] = "saving"]
    /\ loop' = [at |-> "recv", cmd |-> NoWork]
    /\ UNCHANGED <<open, cancelled, xfer, goal, saved, registered, chan, content,
                   closing>>

NavigateEnds ==
    /\ loop.at = "navigate"
    /\ Show([shown EXCEPT !.path = goal[loop.cmd.n], !.loading = FALSE])
    /\ nav' = [nav EXCEPT ![loop.cmd.n] = "saving"]
    /\ loop' = [at |-> "recv", cmd |-> NoWork]
    /\ UNCHANGED <<open, cancelled, xfer, goal, saved, registered, chan, content,
                   closing>>

\* Mutant: a failure is reported to the caller and not in the snapshot.
NavigateFailsUnseen ==
    /\ loop.at = "navigate"
    /\ nav' = [nav EXCEPT ![loop.cmd.n] = "error"]
    /\ loop' = [at |-> "recv", cmd |-> NoWork]
    /\ UNCHANGED <<open, shown, cancelled, xfer, goal, saved, registered, chan,
                   content, closing>>

NavigateFails ==
    /\ loop.at = "navigate"
    /\ Show([shown EXCEPT !.loading = FALSE])
    /\ nav' = [nav EXCEPT ![loop.cmd.n] = "error"]
    /\ loop' = [at |-> "recv", cmd |-> NoWork]
    /\ UNCHANGED <<open, cancelled, xfer, goal, saved, registered, chan, content,
                   closing>>

\* is_cancelled is asked before the record is set to scanning.
TakeTransfer ==
    /\ Next1("transfer") /\ Head(chan).t \notin cancelled
    /\ loop' = [at |-> "starting", cmd |-> Head(chan)] /\ chan' = Tail(chan)
    /\ UNCHANGED <<open, shown, cancelled, xfer, nav, goal, saved, registered,
                   content, closing>>

Start ==
    /\ loop.at = "starting"
    /\ LET t == loop.cmd.t IN
       xfer' = [xfer EXCEPT ![t].at = "lock", ![t].status = Marked(t, "scanning")]
    /\ loop' = [at |-> "recv", cmd |-> NoWork]
    /\ UNCHANGED <<open, shown, cancelled, nav, goal, saved, registered, chan,
                   content, closing>>

SkipCancelled ==
    /\ Next1("transfer") /\ Head(chan).t \in cancelled
    /\ LET t == Head(chan).t IN
       xfer' = [xfer EXCEPT ![t] = Ended([@ EXCEPT !.status = Marked(t, "cancelled")])]
    /\ chan' = Tail(chan)
    /\ UNCHANGED <<open, shown, cancelled, nav, goal, saved, registered, loop,
                   content, closing>>

GenOf(dir) == IF open /\ shown.path = dir THEN shown.gen ELSE NoGen

TakeDelete ==
    /\ Next1("delete")
    /\ loop' = [at |-> "delete",
                cmd |-> [op |-> "delete", dir |-> Head(chan).dir, gen |-> GenOf(Head(chan).dir)]]
    /\ chan' = Tail(chan)
    /\ UNCHANGED <<open, shown, cancelled, xfer, nav, goal, saved, registered,
                   content, closing>>

\* The listing, or the error, is published if nobody navigated meanwhile.
DeleteEnds ==
    /\ loop.at = "delete"
    /\ Show(IF Current(loop.cmd.dir, loop.cmd.gen)
            THEN [shown EXCEPT !.loading = FALSE] ELSE shown)
    /\ loop' = [at |-> "recv", cmd |-> NoWork]
    /\ UNCHANGED <<open, cancelled, xfer, nav, goal, saved, registered, chan,
                   content, closing>>

\* Mutant: the session ends without waiting for the transfers it aborts.
TakeDisconnectAtOnce ==
    /\ Next1("disconnect")
    /\ loop' = [at |-> "over", cmd |-> NoWork] /\ chan' = <<>>
    /\ UNCHANGED <<open, shown, cancelled, xfer, nav, goal, saved, registered,
                   content, closing>>

\* abort_all; the transfer tasks are joined before the session ends.
TakeDisconnect ==
    /\ Next1("disconnect")
    /\ loop' = [at |-> "joining", cmd |-> NoWork] /\ chan' = Tail(chan)
    /\ UNCHANGED <<open, shown, cancelled, xfer, nav, goal, saved, registered,
                   content, closing>>

Joined ==
    /\ loop.at = "joining" /\ \A t \in Transfers : ~Running(t)
    /\ loop' = [at |-> "over", cmd |-> NoWork] /\ chan' = <<>>
    /\ UNCHANGED <<open, shown, cancelled, xfer, nav, goal, saved, registered,
                   content, closing>>

-----------------------------------------------------------------------------
(* A transfer task: run_upload, run_download, upload_path, copy_with_progress*)

Step(t, from, to) == xfer[t].at = from /\ xfer' = [xfer EXCEPT ![t].at = to]
OnlyTask == UNCHANGED <<open, cancelled, nav, goal, saved, registered, chan, loop, closing>>

\* Mutant: uploads of the same file do not wait for each other.
AcquireAtOnce(t) ==
    Step(t, "lock", "check") /\ UNCHANGED <<shown, content>> /\ OnlyTask

\* The lock of the remote path in transfer_locks.
Acquire(t) ==
    /\ \A u \in Transfers : xfer[u].key = xfer[t].key => xfer[u].at \in Unlocked
    /\ Step(t, "lock", "check")
    /\ UNCHANGED <<shown, content>> /\ OnlyTask

\* Mutant: cancellation is asked for once per file.
GoOnUnchecked(t) ==
    /\ \/ t \notin cancelled /\ \E next \in {"create", "finish"} : Step(t, "check", next)
       \/ \E next \in {"write", "finish"} : Step(t, "copy", next)
       \/ Step(t, "tail", "finish")
    /\ UNCHANGED <<shown, content>> /\ OnlyTask

\* is_cancelled is asked per entry and per chunk; an unchanged file is skipped,
\* an empty one has no chunk.
GoOn(t) ==
    /\ t \notin cancelled
    /\ \/ \E next \in {"create", "finish"} : Step(t, "check", next)
       \/ \E next \in {"write", "finish"} : Step(t, "copy", next)
       \/ Step(t, "tail", "finish")
    /\ UNCHANGED <<shown, content>> /\ OnlyTask

Bail(t) ==
    /\ t \in cancelled
    /\ \E from \in {"check", "copy", "tail"} : Step(t, from, "broken")
    /\ UNCHANGED <<shown, content>> /\ OnlyTask

\* The file system or the connection fails.
IoFails(t) ==
    /\ \E from \in {"check", "create", "copy", "write", "tail", "finish"} : Step(t, from, "broken")
    /\ UNCHANGED <<shown, content>> /\ OnlyTask

Late(t) == IF t \in cancelled THEN xfer[t].late + 1 ELSE xfer[t].late
Target(t) == IF xfer[t].kind = "upload" THEN xfer[t].key ELSE NoDir
Put(t, data) == content' = [content EXCEPT ![Target(t)] = data]

\* The target is created, and truncated if it exists.
Create(t) ==
    /\ xfer[t].at = "create"
    /\ xfer' = [xfer EXCEPT ![t].at = "copy", ![t].late = Late(t)]
    /\ Put(t, {}) /\ UNCHANGED shown /\ OnlyTask

\* A chunk is written and its progress reported, whatever the status is.
Write(t) ==
    /\ xfer[t].at = "write"
    /\ xfer' = [xfer EXCEPT ![t].at = "tail", ![t].late = Late(t),
                            ![t].status = Marked(t, "running")]
    /\ Put(t, content[Target(t)] \cup {t}) /\ UNCHANGED shown /\ OnlyTask

\* The last report of progress.
Finish(t) ==
    /\ xfer[t].at = "finish"
    /\ xfer' = [xfer EXCEPT ![t].at = "judge", ![t].status = Marked(t, "running")]
    /\ UNCHANGED <<shown, content>> /\ OnlyTask

\* The outcome is chosen by asking for cancellation, and recorded later.
Judge(t) ==
    /\ \/ t \in cancelled /\ \E from \in {"judge", "broken"} : Step(t, from, "cancelled")
       \/ t \notin cancelled /\ (Step(t, "judge", "done") \/ Step(t, "broken", "failed"))
    /\ UNCHANGED <<shown, content>> /\ OnlyTask

\* Mutant: a cancelled transfer was already marked by request_cancel.
RecordOthers(t) ==
    /\ xfer[t].at \in {"cancelled", "done", "failed"}
    /\ LET record == IF xfer[t].at = "cancelled" THEN xfer[t]
                     ELSE [xfer[t] EXCEPT !.status = Marked(t, xfer[t].at)] IN
       xfer' = [xfer EXCEPT ![t] = IF xfer[t].at = "done" /\ xfer[t].kind = "upload"
                                   THEN [record EXCEPT !.at = "refresh"] ELSE Ended(record)]
    /\ UNCHANGED <<shown, content>> /\ OnlyTask

Record(t) ==
    /\ xfer[t].at \in {"cancelled", "done", "failed"}
    /\ LET record == [xfer[t] EXCEPT !.status = Marked(t, xfer[t].at)] IN
       xfer' = [xfer EXCEPT ![t] = IF xfer[t].at = "done" /\ xfer[t].kind = "upload"
                                   THEN [record EXCEPT !.at = "refresh"] ELSE Ended(record)]
    /\ UNCHANGED <<shown, content>> /\ OnlyTask

\* remote_refresh_generation, then read_directory.
Refresh(t) ==
    /\ xfer[t].at = "refresh"
    /\ LET gen == GenOf(xfer[t].refresh) IN
       xfer' = [xfer EXCEPT ![t] = IF gen = NoGen THEN Ended(@)
                                   ELSE [@ EXCEPT !.at = "commit", !.gen = gen]]
    /\ UNCHANGED <<shown, content>> /\ OnlyTask

\* Mutant: the listing is published without comparing the generation.
CommitStale(t) ==
    /\ xfer[t].at = "commit" /\ xfer' = [xfer EXCEPT ![t] = Ended(@)]
    /\ Show([shown EXCEPT !.path = xfer[t].refresh, !.loading = FALSE])
    /\ UNCHANGED content /\ OnlyTask

\* set_directory_if_current, set_error_if_current.
Commit(t) ==
    /\ xfer[t].at = "commit" /\ xfer' = [xfer EXCEPT ![t] = Ended(@)]
    /\ Show(IF Current(xfer[t].refresh, xfer[t].gen)
            THEN [shown EXCEPT !.path = xfer[t].refresh, !.loading = FALSE] ELSE shown)
    /\ UNCHANGED content /\ OnlyTask

\* The task stops where it is when the set of tasks is aborted or dropped.
Aborted(t) ==
    /\ Running(t) /\ loop.at \in {"joining", "over"}
    /\ xfer' = [xfer EXCEPT ![t] = Ended(@)]
    /\ UNCHANGED <<shown, content>> /\ OnlyTask

-----------------------------------------------------------------------------
(* close_session: the workspace is revoked, then its runtime is closed     *)

Revoke ==
    /\ open /\ closing = "no"
    /\ open' = FALSE /\ closing' = "revoked"
    /\ shown' = [shown EXCEPT !.path = NoDir, !.loading = FALSE]
    /\ xfer' = [t \in Transfers |->
                  [xfer[t] EXCEPT !.status = IF @ = "none" THEN @ ELSE "gone"]]
    /\ cancelled' = {}
    /\ UNCHANGED <<nav, goal, saved, registered, chan, loop, content>>

CloseRuntime ==
    /\ closing = "revoked"
    /\ registered' = FALSE
    /\ IF loop.at = "over"
       THEN closing' = "ok" /\ UNCHANGED chan
       ELSE closing' = "waiting" /\ chan' = Append(chan, [op |-> "disconnect"])
    /\ UNCHANGED <<open, shown, cancelled, xfer, nav, goal, saved, loop, content>>

CloseReturns ==
    /\ closing = "waiting" /\ loop.at = "over"
    /\ closing' = "ok"
    /\ UNCHANGED <<open, shown, cancelled, xfer, nav, goal, saved, registered,
                   chan, loop, content>>

\* After five seconds the session task is aborted, and its tasks with it.
CloseTimesOut ==
    /\ closing = "waiting" /\ loop.at # "over"
    /\ closing' = "timeout"
    /\ loop' = [at |-> "over", cmd |-> NoWork] /\ chan' = <<>>
    /\ UNCHANGED <<open, shown, cancelled, xfer, nav, goal, saved, registered, content>>

-----------------------------------------------------------------------------
Caller(n) == NavGo(n) \/ NavSend(n) \/ NavRefused(n) \/ NavSaved(n) \/ NavUnsaved(n)
Loop ==
    \/ Connect \/ ConnectFails
    \/ TakeNavigate \/ NavigateEnds \/ NavigateFails
    \/ TakeTransfer \/ Start \/ SkipCancelled
    \/ TakeDelete \/ DeleteEnds
    \/ TakeDisconnect \/ Joined
Task(t) ==
    \/ Acquire(t) \/ GoOn(t) \/ Bail(t) \/ IoFails(t) \/ Create(t) \/ Write(t)
    \/ Finish(t) \/ Judge(t) \/ Record(t) \/ Refresh(t) \/ Commit(t) \/ Aborted(t)
Close == CloseRuntime \/ CloseReturns \/ CloseTimesOut

Next ==
    \/ \E n \in Navs : Caller(n) \/ \E d \in Dirs : Navigate(n, d)
    \/ \E t \in Transfers :
          \/ Upload(t) \/ UploadWatched(t) \/ Download(t) \/ Cancel(t)
          \/ \E u \in Transfers : Retry(u, t)
          \/ Task(t)
    \/ Delete \/ Loop \/ Revoke \/ Close

Spec == Init /\ [][Next]_vars

\* Requests of the SFTP client time out, so the session, its tasks, the callers
\* and a started close go on. Nothing is assumed of the user.
FairSpec ==
    /\ Spec
    /\ WF_vars(Loop) /\ WF_vars(Close)
    /\ \A n \in Navs : WF_vars(Caller(n))
    /\ \A t \in Transfers : WF_vars(Task(t))

-----------------------------------------------------------------------------
(* Properties                                                              *)

\* After a cancellation was accepted the task changes its target once more at
\* most (the step it was about to make), as long as the workspace is open.
AtMostOneLateWrite == \A t \in Transfers : open => xfer[t].late <= 1

\* A transfer that is recorded as done left no other data beside its own,
\* although a retry may start while the cancelled task is still writing. The
\* lock is of the remote path: downloads of two files to one local file mix.
DoneMeansWhole ==
    \A t \in Transfers :
        /\ xfer[t].at = "done" /\ t \in content[Target(t)]
        /\ xfer[t].kind = "download" =>
              \A u \in Transfers : xfer[u].at # "new" => xfer[u].key = xfer[t].key
        => content[Target(t)] = {t}

\* Only the connection and a navigation move the user to another directory,
\* never the refresh that ends an upload or a deletion.
RefreshNeverMoves ==
    [][shown'.path # shown.path => loop.at \in {"connecting", "navigate"} \/ ~open']_vars

\* A connected workspace that shows it is loading has a navigation on the way.
LoadingIsExplained ==
    open /\ shown.status = "connected" /\ shown.loading =>
        \E n \in Navs : nav[n] \in {"loading", "sent"}

\* When the last navigation succeeded, the persisted directory is the shown one.
SavedIsShown ==
    \A n \in Navs :
        /\ open /\ nav[n] = "done"
        /\ \A m \in Navs : m > n => nav[m] \in {"new", "waiting"}
        => saved = shown.path

\* When close_session succeeds no transfer goes on behind its back.
ClosedMeansQuiet == closing = "ok" => \A t \in Transfers : ~Running(t)

\* A transfer does not stay active for ever in the list.
TransfersEnd ==
    \A t \in Transfers : xfer[t].status \in Cancellable ~> xfer[t].status \notin Cancellable

\* Every navigation is answered, also when the session ends under it.
NavigationsEnd == \A n \in Navs : Pending(n) ~> ~Pending(n)

=============================================================================
