------------------------------ MODULE SftpWatch ------------------------------
(***************************************************************************)
(* The task behind one local watch (application/sftp/core/watcher.rs, with *)
(* the watcher of infrastructure/local_fs and upload_path_to_remote of     *)
(* application/sftp/core/service/transfer.rs).  Events of the file system  *)
(* only name paths; two seconds after the last one the task takes what it  *)
(* has, waits until each path has stopped changing, and uploads it unless  *)
(* its signature is the one it uploaded last.  Files go on changing        *)
(* meanwhile.  The upload itself is TreeTransfer's: here it lists the      *)
(* signatures, copies, and may fail in between.                            *)
(***************************************************************************)
EXTENDS Naturals, FiniteSets

CONSTANTS
    Folder, Inner, Outer,      \* paths: a folder, a file in it, a file beside it
    NoPath,
    MaxEdits, MaxSecond,       \* bounds: changes of files, seconds
    Debounce, Retries          \* WATCH_DEBOUNCE in seconds, STABILITY_CHECK_RETRIES

Paths == {Folder, Inner, Outer}
Files == {Inner, Outer}
\* Path::starts_with, and the number of components
Under(p, root) == p = root \/ (p = Inner /\ root = Folder)
Depth(p) == IF p = Inner THEN 2 ELSE 1

VARIABLES
    kind,        \* "file" (Outer is watched) or "directory"
    local,       \* path -> [version, size, second]; version 0: it does not exist
    remote,      \* file -> the same, with the time the upload gave it
    events,      \* paths named by events in the channel
    pending,     \* pending_paths
    batch,       \* paths still to handle in this round
    roots,       \* uploaded_roots
    processed,   \* path -> signature uploaded last, or Unknown
    at,          \* "wait", "debounce", "round", "stability", "upload", "ended"
    path,        \* path in hand
    seen,        \* its signature
    tries,
    listed,      \* the upload's list: file -> signature
    copied,      \* files it has done
    failed,      \* files changed whose upload failed or was refused
    heard,       \* second in which the last event was received
    twice,       \* files changed twice within one second
    second, edits

vars == <<kind, local, remote, events, pending, batch, roots, processed, at, path, seen,
          tries, listed, copied, failed, heard, twice, second, edits>>
world == <<local, second, edits, twice, events>>
task == <<pending, batch, roots, processed, at, path, seen, tries, heard>>
upload == <<remote, listed, copied, failed>>

Unknown == <<>>
Signatures == (1..2) \X (0..MaxSecond)
\* FileSignature: of a path, its size and the second of its last change.
Signature(file) == <<file.size, file.second>>
Node(v, size) == [version |-> v, size |-> size, second |-> second]

Watched == IF kind = "file" THEN {Outer} ELSE Paths

Init ==
    /\ kind \in {"file", "directory"}
    /\ local = [p \in Paths |-> [version |-> IF p = Folder THEN 1 ELSE 0, size |-> 1, second |-> 0]]
    /\ remote = [p \in Files |-> [version |-> 0, size |-> 1, second |-> 0]]
    /\ events = {} /\ pending = {} /\ batch = {} /\ roots = {}
    /\ processed = [p \in Paths |-> Unknown]
    /\ at = "wait" /\ path = NoPath /\ seen = Unknown /\ tries = 0
    /\ listed = [p \in {} |-> Unknown] /\ copied = {} /\ failed = {}
    /\ heard = 0 /\ twice = {} /\ second = 1 /\ edits = 0

-----------------------------------------------------------------------------
(* The file system                                                         *)

\* create_local_watcher: events that create or modify, of the paths it was asked for.
Tell(paths) == events' = events \cup (paths \cap Watched)

Edit(p) ==
    /\ edits < MaxEdits /\ edits' = edits + 1
    /\ \E size \in 1..2 :
        LET new == local[p].version = 0 /\ p = Inner IN
        /\ local' = [q \in Paths |->
              IF q = p THEN Node(edits + 1, size)
              ELSE IF q = Folder /\ new THEN [local[q] EXCEPT !.second = second] ELSE local[q]]
        /\ Tell(IF new THEN {p, Folder} ELSE {p})
    /\ failed' = failed \ {p}
    /\ twice' = IF local[p].second = second THEN twice \cup {p} ELSE twice
    /\ UNCHANGED <<kind, task, remote, listed, copied, second>>

\* Removals are not told.
Remove(p) ==
    /\ edits < MaxEdits /\ edits' = edits + 1 /\ local[p].version # 0
    /\ local' = [local EXCEPT ![p].version = 0]
    /\ UNCHANGED <<kind, task, upload, second, twice, events>>

Tick ==
    /\ second < MaxSecond /\ second' = second + 1
    /\ UNCHANGED <<kind, task, upload, local, edits, twice, events>>

-----------------------------------------------------------------------------
(* The task                                                                *)

\* recv in the outer and in the debounce loop: each event starts the two seconds again.
Collect ==
    /\ at \in {"wait", "debounce"} /\ events # {}
    /\ \E p \in events : pending' = pending \cup {p} /\ events' = events \ {p}
    /\ at' = "debounce" /\ heard' = second
    /\ UNCHANGED <<kind, batch, roots, processed, path, seen, tries, upload, local, second, edits, twice>>

TakeBatch(from) ==
    /\ at = from /\ at' = "round"
    /\ batch' = pending /\ pending' = {} /\ roots' = {}
    /\ UNCHANGED <<kind, processed, path, seen, tries, heard, upload, world>>
DebounceEnds == second >= heard + Debounce /\ TakeBatch("debounce")
\* Paths that did not stand still are taken up again at once.
TakeUnstable == pending # {} /\ TakeBatch("wait")

Shallowest(p) == \A q \in batch : Depth(p) <= Depth(q)
BelowUploaded(p) == kind = "directory" /\ \E root \in roots : Under(p, root)

\* The next path: below an uploaded one it is done; else its signature is read.
TakePath ==
    /\ at = "round"
    /\ \E p \in batch :
        /\ Shallowest(p)
        /\ batch' = batch \ {p}
        /\ IF BelowUploaded(p) THEN UNCHANGED <<at, path, seen, tries, processed>>
           ELSE IF local[p].version = 0
           THEN /\ processed' = [processed EXCEPT ![p] = Unknown]
                /\ UNCHANGED <<at, path, seen, tries>>
           ELSE /\ at' = "stability" /\ path' = p /\ seen' = Signature(local[p]) /\ tries' = 0
                /\ UNCHANGED processed
    /\ UNCHANGED <<kind, pending, roots, heard, upload, world>>

RoundEnds ==
    /\ at = "round" /\ batch = {} /\ at' = "wait"
    /\ UNCHANGED <<kind, pending, batch, roots, processed, path, seen, tries, heard, upload, world>>

BackToRound == at' = "round" /\ path' = NoPath /\ seen' = Unknown /\ tries' = 0

\* 250 ms later it is still changing: three times, then it is left for the next round.
StillChanging ==
    /\ at = "stability" /\ local[path].version # 0 /\ Signature(local[path]) # seen
    /\ IF tries + 1 < Retries
       THEN seen' = Signature(local[path]) /\ tries' = tries + 1 /\ UNCHANGED <<at, path, pending>>
       ELSE BackToRound /\ pending' = pending \cup {path}
    /\ UNCHANGED <<kind, batch, roots, processed, heard, upload, world>>

\* It is gone, or cannot be read.
Unreadable ==
    /\ at = "stability" /\ local[path].version = 0
    /\ processed' = [processed EXCEPT ![path] = Unknown] /\ BackToRound
    /\ UNCHANGED <<kind, pending, batch, roots, heard, upload, world>>

Existing(p) == {f \in Files : Under(f, p) /\ local[f].version # 0}

\* Stable: nothing to do, or the upload starts with its own list.
Stable ==
    /\ at = "stability" /\ local[path].version # 0 /\ Signature(local[path]) = seen
    /\ IF processed[path] = seen
       THEN BackToRound /\ UNCHANGED <<listed, copied>>
       ELSE /\ at' = "upload" /\ copied' = {}
            /\ listed' = [f \in Existing(path) |-> Signature(local[f])]
            /\ UNCHANGED <<path, seen, tries>>
    /\ UNCHANGED <<kind, pending, batch, roots, processed, heard, remote, failed, world>>

\* One file of the upload: skipped when the remote one has the listed signature.
UploadFile ==
    /\ at = "upload"
    /\ \E f \in DOMAIN listed \ copied :
        /\ copied' = copied \cup {f}
        /\ IF remote[f].version # 0 /\ Signature(remote[f]) = listed[f] THEN UNCHANGED remote
           ELSE /\ local[f].version # 0
                /\ remote' = [remote EXCEPT ![f] = [local[f] EXCEPT !.second = listed[f][2]]]
    /\ UNCHANGED <<kind, task, listed, failed, world>>

\* Mutant: what counts as uploaded is what is there at the end.
UploadEndsFresh ==
    /\ at = "upload" /\ copied = DOMAIN listed /\ local[path].version # 0
    /\ processed' = [processed EXCEPT ![path] = Signature(local[path])]
    /\ roots' = IF kind = "directory" THEN roots \cup {path} ELSE roots
    /\ BackToRound
    /\ UNCHANGED <<kind, pending, batch, heard, upload, world>>

\* The signature is the one read before the upload.
UploadEnds ==
    /\ at = "upload" /\ copied = DOMAIN listed
    /\ processed' = [processed EXCEPT ![path] = seen]
    /\ roots' = IF kind = "directory" THEN roots \cup {path} ELSE roots
    /\ BackToRound
    /\ UNCHANGED <<kind, pending, batch, heard, upload, world>>

\* It fails, or the session is closed: nothing is kept and nothing tried again.
UploadFails ==
    /\ at = "upload"
    /\ failed' = failed \cup {f \in Files : Under(f, path)} /\ BackToRound
    /\ UNCHANGED <<kind, pending, batch, roots, processed, heard, remote, listed, copied, world>>

\* LocalWatchRuntime::stop: the task ends where it is.
Stop ==
    /\ at # "ended" /\ at' = "ended"
    /\ UNCHANGED <<kind, pending, batch, roots, processed, path, seen, tries, heard, upload, world>>

Next ==
    \/ \E p \in Files : Edit(p) \/ Remove(p)
    \/ Tick \/ Collect \/ DebounceEnds \/ TakeUnstable \/ TakePath \/ RoundEnds
    \/ StillChanging \/ Unreadable \/ Stable \/ UploadFile \/ UploadEnds \/ UploadFails \/ Stop

Spec == Init /\ [][Next]_vars

-----------------------------------------------------------------------------
\* Types; a path in hand was read, and only files it holds are uploaded.
TypeOK ==
    /\ kind \in {"file", "directory"}
    /\ local \in [Paths -> [version : 0..MaxEdits \cup {1}, size : 1..2, second : 0..MaxSecond]]
    /\ remote \in [Files -> [version : 0..MaxEdits, size : 1..2, second : 0..MaxSecond]]
    /\ events \cup pending \cup batch \cup roots \subseteq Watched
    /\ at \in {"wait", "debounce", "round", "stability", "upload", "ended"}
    /\ (at \in {"stability", "upload"}) => path \in Watched /\ seen \in Signatures
    /\ processed \in [Paths -> Signatures \cup {Unknown}]
    /\ DOMAIN listed \subseteq Files /\ \A f \in DOMAIN listed : listed[f] \in Signatures
    /\ copied \subseteq DOMAIN listed /\ failed \cup twice \subseteq Files
    /\ tries \in 0..(Retries - 1) /\ second \in 1..MaxSecond /\ edits \in 0..MaxEdits

Settled == at = "wait" /\ events = {} /\ pending = {}

Whole(f) == local[f].version # 0 => remote[f].version = local[f].version

\* When the task has nothing left to do, every file that exists is on the server as
\* it is: no change is lost between the reading of a signature, the listing, the
\* copy and the next event.  But for a file whose upload failed, which is not tried
\* again, and for one changed twice within a second.
SettledIsUploaded ==
    Settled => \A f \in (Files \cap Watched) \ (failed \cup twice) : Whole(f)

\* "Changes are uploaded after a fixed 2-second debounce"
\* (src/src/infrastructure/agent_mcp/tools.rs:420), of every change whose upload did
\* not fail. The code breaks it for a file that changes twice within a second and
\* keeps its size: the signature is the same, and the second change is skipped.
ChangesAreUploaded == Settled => \A f \in (Files \cap Watched) \ failed : Whole(f)
=============================================================================
