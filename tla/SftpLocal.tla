------------------------------ MODULE SftpLocal ------------------------------
(***************************************************************************)
(* The local directory of an SFTP workspace                                *)
(* (application/sftp/core/service/directory.rs with begin_local_scan,      *)
(* finish_local_scan and fail_local_scan of data_context/sftp/core.rs).    *)
(* Four things scan a directory and show the result: the opening of the    *)
(* workspace, a navigation, the refresh after a download, and a deletion   *)
(* of files, which scans like a refresh.                                   *)
(* Only navigations exclude one another; a generation decides whose result *)
(* counts.  A navigation is saved in the profile once it is shown.         *)
(***************************************************************************)
EXTENDS Naturals

CONSTANTS
    Navigations,                         \* operations, each once
    Refreshes,                           \* refreshes after downloads, and deletions
    Opening,                             \* the one that scans when the workspace opens
    Directories,                         \* as the file system names them
    Alias,                               \* another name of Target
    Target,
    First,                               \* the directory the profile had
    None

Ops == Navigations \cup Refreshes \cup {Opening}
Paths == Directories \cup {Alias}
\* canonicalize
Resolved(path) == IF path = Alias THEN Target ELSE path

VARIABLES
    shown,        \* SftpWorkspaceData.local: [path, loading, failed]
    requested,    \* local_requested_path
    generation,   \* local_scan_generation
    saved,        \* the profile's sftp_local_path
    lock,         \* holder of local_navigation
    open,         \* the workspace is published and its runtime registered
    op,           \* operation -> [pc, path, generation]
    missed,       \* the last save failed
    overtaken     \* the opening scan has displaced a navigation

vars == <<shown, requested, generation, saved, lock, open, op, missed, overtaken>>

Init ==
    /\ shown = [path |-> First, loading |-> FALSE, failed |-> FALSE]
    /\ requested = None /\ generation = 0 /\ saved = First
    /\ lock = None /\ open = TRUE /\ missed = FALSE /\ overtaken = FALSE
    /\ op = [o \in Ops |-> [pc |-> "idle", path |-> First, generation |-> 0]]

At(o, pc) == op[o].pc = pc
Go(o, pc) == op' = [op EXCEPT ![o].pc = pc]

\* The call: a navigation waits for the lock; the others take a path as it is now.
Call(o, path) ==
    /\ At(o, "idle")
    /\ o \in Navigations \/ path = shown.path
    /\ op' = [op EXCEPT ![o] = [pc |-> "called", path |-> path, generation |-> 0]]
    /\ UNCHANGED <<shown, requested, generation, saved, lock, open, missed, overtaken>>

\* Mutant: navigations run beside one another.
LockTaken(o) ==
    /\ o \in Navigations /\ At(o, "called") /\ Go(o, "locked")
    /\ lock' = IF lock = None THEN o ELSE lock
    /\ UNCHANGED <<shown, requested, generation, saved, open, missed, overtaken>>

Lock(o) ==
    /\ o \in Navigations /\ At(o, "called") /\ lock = None
    /\ lock' = o /\ Go(o, "locked")
    /\ UNCHANGED <<shown, requested, generation, saved, open, missed, overtaken>>

\* Each way out: drops the guard if it is held.
Leave(o) == Go(o, "done") /\ lock' = IF lock = o THEN None ELSE lock

OnlyIfCurrent(o) == o \in Refreshes
IsCurrent(path) == shown.path = path /\ requested \in {None, path}

\* begin_local_scan
BeginScan(o) ==
    /\ At(o, IF o \in Navigations THEN "locked" ELSE "called")
    /\ open /\ (OnlyIfCurrent(o) => IsCurrent(op[o].path))
    /\ generation' = generation + 1 /\ requested' = op[o].path
    /\ shown' = [shown EXCEPT !.loading = TRUE, !.failed = FALSE]
    /\ op' = [op EXCEPT ![o].pc = "scanning", ![o].generation = generation + 1]
    /\ overtaken' = (overtaken \/ (o = Opening /\ (lock # None \/ shown.path # op[o].path)))
    /\ UNCHANGED <<saved, lock, open, missed>>

\* The directory is no longer shown, or the workspace is closed.
Refused(o) ==
    /\ At(o, IF o \in Navigations THEN "locked" ELSE "called")
    /\ ~open \/ (OnlyIfCurrent(o) /\ ~IsCurrent(op[o].path))
    /\ Leave(o)
    /\ UNCHANGED <<shown, requested, generation, saved, open, missed, overtaken>>

Current(o) == open /\ op[o].generation = generation

\* finish_local_scan, under the read lock of the runtimes; a stale result is dropped,
\* and with it a navigation, which is answered as expired.
FinishScan(o) ==
    /\ At(o, "scanning")
    /\ IF Current(o)
       THEN /\ shown' = [path |-> Resolved(op[o].path), loading |-> FALSE, failed |-> FALSE]
            /\ requested' = None
       ELSE UNCHANGED <<shown, requested>>
    /\ IF Current(o) /\ o \in Navigations THEN Go(o, "save") /\ lock' = lock ELSE Leave(o)
    /\ UNCHANGED <<generation, saved, open, missed, overtaken>>

\* Mutant: a failed scan ends the loading, whoever's it is.
FailScanStale(o) ==
    /\ At(o, "scanning") /\ Leave(o)
    /\ shown' = [shown EXCEPT !.loading = FALSE, !.failed = TRUE] /\ requested' = None
    /\ UNCHANGED <<generation, saved, open, missed, overtaken>>

\* fail_local_scan
FailScan(o) ==
    /\ At(o, "scanning") /\ Leave(o)
    /\ IF Current(o)
       THEN shown' = [shown EXCEPT !.loading = FALSE, !.failed = TRUE] /\ requested' = None
       ELSE UNCHANGED <<shown, requested>>
    /\ UNCHANGED <<generation, saved, open, missed, overtaken>>

\* update_sftp_local_path, or an error; nothing is saved once the workspace is gone.
Save(o) ==
    /\ At(o, "save") /\ Leave(o)
    /\ \/ open /\ saved' = Resolved(op[o].path) /\ missed' = FALSE
       \/ saved' = saved /\ missed' = TRUE
    /\ UNCHANGED <<shown, requested, generation, open, overtaken>>

Close ==
    /\ open /\ open' = FALSE
    /\ UNCHANGED <<shown, requested, generation, saved, lock, op, missed, overtaken>>

Next ==
    \/ Close
    \/ \E o \in Ops : \/ \E path \in Paths : Call(o, path)
                      \/ Lock(o) \/ BeginScan(o) \/ Refused(o)
                      \/ FinishScan(o) \/ FailScan(o) \/ Save(o)

Spec == Init /\ [][Next]_vars

-----------------------------------------------------------------------------
\* Types.
TypeOK ==
    /\ shown \in [path : Directories, loading : BOOLEAN, failed : BOOLEAN]
    /\ requested \in Paths \cup {None} /\ saved \in Directories
    /\ lock \in Navigations \cup {None}
    /\ generation \in Nat /\ open \in BOOLEAN /\ missed \in BOOLEAN /\ overtaken \in BOOLEAN
    /\ op \in [Ops -> [pc : {"idle", "called", "locked", "scanning", "save", "done"},
                      path : Paths, generation : Nat]]

\* The view is loading exactly while the scan it waits for is under way: neither for
\* ever nor shown as ready, or as failed, before that scan has ended.
LoadingIsTheScan ==
    open => (shown.loading <=> \E o \in Ops : At(o, "scanning") /\ op[o].generation = generation)

\* With no navigation under way the directory shown is the one saved for the next
\* time, whatever refreshes and deletions ran beside it; unless saving failed, or
\* the scan of the opening overtook a navigation.
ShownIsSaved ==
    open /\ ~missed /\ ~overtaken /\ lock = None => shown.path = saved
=============================================================================
