---------------------------- MODULE TreeTransfer ----------------------------
(***************************************************************************)
(* One upload or download of a file or a directory, run again and again    *)
(* (infrastructure/sftp/transfer.rs, sync.rs and the comparison of         *)
(* domain/sftp.rs).  A run lists the source once, with the signature of    *)
(* every file, and then works through the list: a file whose signature the *)
(* target has already is skipped, any other is copied chunk by chunk and   *)
(* given the source's modification time, which is what makes the next run  *)
(* skip it.  Meanwhile the source may be edited, time passes, and the run  *)
(* may be cancelled or lose its connection at any point.  A signature is   *)
(* the size and the second of the last change: that is all a later run     *)
(* knows of what an earlier one left behind.                               *)
(***************************************************************************)
EXTENDS Naturals, Sequences, FiniteSets

CONSTANTS
    Root, Dir, FileA, FileB,   \* Root holds FileA and Dir, and Dir holds FileB
    NoPath,                    \* no entry in hand
    MaxSize,                   \* bound: chunks of a file
    MaxTime, MaxEdits, MaxRuns \* bounds: seconds, edits of the source, runs

Paths == {Root, Dir, FileA, FileB}
ParentOf == [p \in Paths |-> CASE p = Root -> NoPath [] p = FileB -> Dir [] OTHER -> Root]

VARIABLES
    way,       \* "upload" or "download"
    dated,     \* whether the server tells modification times
    source,    \* path -> node
    target,
    plan,      \* entries still to do: path -> signature taken when listed
    inHand,    \* the file being copied, or NoPath
    at,        \* "idle", "next", "copy", "time", "done", "failed"
    clock,
    edits,     \* edits so far: the version of the last
    runs,
    since,     \* files edited after the run listed them
    unlucky    \* files written twice in one second: edited and copied, or edited again

vars == <<way, dated, source, target, plan, inHand, at, clock, edits, runs, since, unlucky>>

Missing == [kind |-> "none", content |-> <<>>, time |-> 0]
Directory == [kind |-> "dir", content |-> <<>>, time |-> 0]
File(content, time) == [kind |-> "file", content |-> content, time |-> time]
Link(content, time) == [kind |-> "link", content |-> content, time |-> time]

Nodes == [kind : {"none", "dir", "file", "link"}, content : Seq(0..MaxEdits), time : 0..MaxTime]
Contents(v) == {[i \in 1..n |-> v] : n \in 1..MaxSize}

\* FileSignature; a link has the size of its path.  NoTime is
\* a time the server does not tell.
NoTime == 0
Signature(node, told) ==
    [dir |-> node.kind = "dir",
     size |-> IF node.kind = "link" THEN MaxSize + 1 ELSE Len(node.content),
     time |-> IF told THEN node.time ELSE NoTime]
SourceSignature(p) == Signature(source[p], way = "upload" \/ dated)
TargetSignature(p) == Signature(target[p], way = "download" \/ dated)

\* Mutant: files of one size are taken to be the same.
UnchangedSize(s, t) == s.dir = t.dir /\ (s.dir \/ s.size = t.size)
\* FileSignature::compare
Unchanged(s, t) ==
    /\ s.dir = t.dir
    /\ s.dir \/ (s.size = t.size /\ s.time # NoTime /\ s.time = t.time)

Files == {File(c, 1) : c \in Contents(1)}
Single(f) == [p \in Paths |-> IF p = Root THEN f ELSE Missing]
Full(a, b) == [p \in Paths |-> CASE p \in {Root, Dir} -> Directory [] p = FileA -> a [] p = FileB -> b]
Trees == {Single(f) : f \in Files}
         \cup UNION {{Full(a, b) : a \in Files \cup {Link(<<1>>, 1)}} : b \in Files}
Init ==
    /\ way \in {"upload", "download"} /\ dated \in BOOLEAN
    /\ source \in Trees
    \* what is there before: nothing, or a file where a directory has to be
    /\ target \in {[p \in Paths |-> IF p = f THEN File(<<0>>, 1) ELSE Missing] : f \in {NoPath, Dir}}
    /\ plan = [p \in {} |-> 0] /\ inHand = NoPath /\ at = "idle"
    /\ clock = 1 /\ edits = 1 /\ runs = 0 /\ since = {} /\ unlucky = {}

Kept == UNCHANGED <<way, dated>>
Present == {p \in Paths : source[p].kind # "none"}

-----------------------------------------------------------------------------
(* A run                                                                   *)

Begin ==
    /\ at \in {"idle", "done", "failed"} /\ runs < MaxRuns
    /\ runs' = runs + 1 /\ since' = {} /\ inHand' = NoPath
    /\ IF Root \notin Present \/ (way = "upload" /\ \E p \in Present : source[p].kind = "link")
       THEN at' = "failed" /\ plan' = [p \in {} |-> 0]     \* nothing has been written
       ELSE at' = "next" /\ plan' = [p \in Present |-> SourceSignature(p)]
    /\ UNCHANGED <<source, target, clock, edits, unlucky>> /\ Kept

\* The list is a stack: a directory comes before what it holds.
Due(p) == at = "next" /\ p \in DOMAIN plan /\ ParentOf[p] \notin DOMAIN plan
Without(p) == [q \in DOMAIN plan \ {p} |-> plan[q]]

TakeDirectory(p) ==
    /\ Due(p) /\ plan[p].dir
    /\ plan' = Without(p)
    /\ CASE target[p].kind = "dir" -> at' = at /\ target' = target
         [] target[p].kind = "none" -> at' = at /\ target' = [target EXCEPT ![p] = Directory]
         [] OTHER -> at' = "failed" /\ target' = target
    /\ UNCHANGED <<source, inHand, clock, edits, runs, since, unlucky>> /\ Kept

SkipFile(p) ==
    /\ Due(p) /\ ~plan[p].dir
    /\ target[p].kind = "file" /\ Unchanged(plan[p], TargetSignature(p))
    /\ plan' = Without(p)
    /\ UNCHANGED <<source, target, inHand, at, clock, edits, runs, since, unlucky>> /\ Kept

\* The source is opened and the target created, or emptied.
OpenFile(p) ==
    /\ Due(p) /\ ~plan[p].dir /\ target[p].kind # "dir"
    /\ ~(target[p].kind = "file" /\ Unchanged(plan[p], TargetSignature(p)))
    /\ source[p].kind \in {"file", "link"}
    /\ target' = [target EXCEPT ![p] = File(<<>>, clock)]
    /\ at' = "copy" /\ inHand' = p
    /\ UNCHANGED <<source, plan, clock, edits, runs, since, unlucky>> /\ Kept

Missed(p) ==   \* a directory in the way, or the source is gone
    /\ Due(p) /\ ~plan[p].dir
    /\ target[p].kind = "dir" \/ source[p].kind = "none"
    /\ ~(target[p].kind = "file" /\ Unchanged(plan[p], TargetSignature(p)))
    /\ at' = "failed"
    /\ UNCHANGED <<source, target, plan, inHand, clock, edits, runs, since, unlucky>> /\ Kept

Written == target[inHand].content
More == Len(Written) < Len(source[inHand].content)

CopyChunk ==
    /\ at = "copy" /\ More
    /\ target' = [target EXCEPT ![inHand] =
          File(Append(Written, source[inHand].content[Len(Written) + 1]), clock)]
    /\ unlucky' = IF inHand \in since /\ source[inHand].time = clock
                  THEN unlucky \cup {inHand} ELSE unlucky
    /\ UNCHANGED <<source, plan, inHand, at, clock, edits, runs, since>> /\ Kept

CopyEnds ==
    /\ at = "copy" /\ ~More /\ at' = "time"
    /\ UNCHANGED <<source, target, plan, inHand, clock, edits, runs, since, unlucky>> /\ Kept

NextEntry == plan' = Without(inHand) /\ inHand' = NoPath /\ at' = "next"

\* Mutant: the file's time is the one it has when it was copied.
SetTimeNow ==
    /\ at = "time" /\ NextEntry
    /\ target' = [target EXCEPT ![inHand].time = source[inHand].time]
    /\ UNCHANGED <<source, clock, edits, runs, since, unlucky>> /\ Kept

\* The time is the one that was listed, before the copy.
SetTime ==
    /\ at = "time" /\ NextEntry
    /\ target' = IF plan[inHand].time = NoTime THEN target
                 ELSE [target EXCEPT ![inHand].time = plan[inHand].time]
    /\ UNCHANGED <<source, clock, edits, runs, since, unlucky>> /\ Kept

\* An upload goes on when the server refuses it, a download fails.
SetTimeFails ==
    /\ at = "time" /\ plan[inHand].time # NoTime
    /\ IF way = "upload" THEN NextEntry ELSE at' = "failed" /\ UNCHANGED <<plan, inHand>>
    /\ UNCHANGED <<source, target, clock, edits, runs, since, unlucky>> /\ Kept

\* Cancelled between two chunks or entries, or the connection or the disk fails.
Break ==
    /\ at \in {"next", "copy", "time"}
    /\ at' = "failed"
    /\ UNCHANGED <<source, target, plan, inHand, clock, edits, runs, since, unlucky>> /\ Kept

Finish ==
    /\ at = "next" /\ DOMAIN plan = {}
    /\ at' = "done"
    /\ UNCHANGED <<source, target, plan, inHand, clock, edits, runs, since, unlucky>> /\ Kept

-----------------------------------------------------------------------------
(* The world                                                               *)

Change(p, node) ==
    /\ source' = [source EXCEPT ![p] = node]
    /\ since' = since \cup {p}
    /\ unlucky' = IF clock \in {source[p].time, target[p].time}
                  THEN unlucky \cup {p} ELSE unlucky
    /\ edits' = edits + 1
    /\ UNCHANGED <<target, plan, inHand, at, clock, runs>> /\ Kept

Edit(p) ==
    /\ edits < MaxEdits /\ source[p].kind = "file"
    /\ \E c \in Contents(edits + 1) : Change(p, File(c, clock))

Delete(p) ==
    /\ edits < MaxEdits /\ source[p].kind = "file" /\ Change(p, Missing)

Tick ==
    /\ clock < MaxTime /\ clock' = clock + 1
    /\ UNCHANGED <<source, target, plan, inHand, at, edits, runs, since, unlucky>> /\ Kept

Next ==
    \/ Begin \/ CopyChunk \/ CopyEnds \/ SetTime \/ SetTimeFails \/ Break \/ Finish \/ Tick
    \/ \E p \in Paths : TakeDirectory(p) \/ SkipFile(p) \/ OpenFile(p) \/ Missed(p)
    \/ \E p \in Paths : Edit(p) \/ Delete(p)

Spec == Init /\ [][Next]_vars

-----------------------------------------------------------------------------
\* Types; only a file is in hand, and only while it is copied.
TypeOK ==
    /\ way \in {"upload", "download"} /\ dated \in BOOLEAN
    /\ at \in {"idle", "next", "copy", "time", "done", "failed"}
    /\ DOMAIN plan \subseteq Paths /\ inHand \in Paths \cup {NoPath}
    /\ at \in {"copy", "time"} => inHand \in DOMAIN plan /\ target[inHand].kind = "file"
    /\ clock \in 1..MaxTime /\ edits \in 1..MaxEdits /\ runs \in 0..MaxRuns
    /\ source \in [Paths -> Nodes] /\ target \in [Paths -> Nodes]
    /\ since \subseteq Paths /\ unlucky \subseteq Paths
    /\ \A p \in Paths : Len(target[p].content) <= MaxSize

\* A transfer that ends well leaves the source's content at the target, also after
\* runs that broke off anywhere, and although it skips by size and second alone.
\* Except for a file that was edited in a second in which it was also written
\* otherwise, here or there, and for what changed since it was listed.
DoneMeansSame ==
    at = "done" =>
        \A p \in Present \ (since \cup unlucky) :
            source[p].kind \in {"file", "link"} =>
                target[p].kind = "file" /\ target[p].content = source[p].content

=============================================================================
