----------------------------- MODULE SftpProofs -----------------------------
(***************************************************************************)
(* What an SFTP workspace promises, for any number of directories,         *)
(* navigations, transfers, changes and workspaces: the invariants of       *)
(* MCSftp, of the session, the local directory, the transfer of a tree,    *)
(* the watch and the two panels, and that a refresh moves nobody.          *)
(*                                                                         *)
(* Each part has an invariant of its own, proved from the steps of that    *)
(* part and carried to the specification by PartSteps.                     *)
(***************************************************************************)
EXTENDS MCSftp, FiniteSetTheorems, SequenceTheorems, TLAPS

\* A step of the specification is one of a part, or leaves it.
LEMMA PartSteps ==
  [Next]_all => /\ [Session!Next]_sessionState /\ [Local!Next]_localState
                /\ [Tree!Next]_treeState /\ [Watch!Next]_watchState
                /\ [Remote!Next]_remoteState /\ [Near!Next]_nearState
BY DEF Next, all, SessionSteps, LocalSteps, TreeSteps, RemoteSteps, NearSteps, WatchSteps

-----------------------------------------------------------------------------
(* SftpSession                                                             *)

SomeDirs == Dirs \cup {NoDir}
Gens == 0..(MaxNavs + 1)
Commands ==
  [op : {"navigate"}, n : Session!Navs] \cup [op : {"transfer"}, t : Transfers]
  \cup [op : {"delete"}, dir : SomeDirs] \cup [op : {"disconnect"}]
Works == Commands \cup [op : {"none"}] \cup [op : {"delete"}, dir : SomeDirs, gen : Gens]

(* The callers. *)

\* The lock is granted in the order it is asked for.
InTurn ==
  \A m, n \in Session!Navs : m < n =>
    /\ nav[n] \notin {"new", "waiting"} => nav[m] \in {"done", "error"}
    /\ nav[n] # "new" => nav[m] # "new"
\* A navigation makes one generation.
GensCount == \A n \in Session!Navs : nav[n] \in {"new", "waiting"} => sessionShown.gen <= n
GoalsSet == \A n \in Session!Navs : nav[n] # "new" => goal[n] \in Dirs
\* What is about to be saved is shown.
SavingIsShown ==
  \A n \in Session!Navs : sessionOpen /\ nav[n] = "saving" => sessionShown.path = goal[n]
ConnectsFirst ==
  loop.at = "connecting" => \A n \in Session!Navs : nav[n] \notin {"saving", "done"}
PathIsDir ==
  sessionOpen /\ loop.at \notin {"connecting", "over"} => sessionShown.path \in Dirs
OverIsFailed == sessionOpen /\ loop.at = "over" => sessionShown.status = "failed"
NavInv == /\ InTurn /\ GensCount /\ GoalsSet /\ SavingIsShown /\ ConnectsFirst
          /\ PathIsDir /\ OverIsFailed
          /\ Session!LoadingIsExplained /\ Session!SavedIsShown

(* The commands in the channel and in hand. *)

CommandsWait ==
  \A i \in 1..Len(chan) :
    /\ chan[i].op = "navigate" => nav[chan[i].n] = "sent"
    /\ chan[i].op = "transfer" => xfer[chan[i].t].at = "queued"
    /\ chan[i].op = "disconnect" => ~sessionOpen
CommandsApart ==
  \A i, j \in 1..Len(chan) : i # j =>
    /\ chan[i].op = "navigate" /\ chan[j].op = "navigate" => chan[i].n # chan[j].n
    /\ chan[i].op = "transfer" /\ chan[j].op = "transfer" => chan[i].t # chan[j].t
InHandWaits ==
  /\ loop.at = "navigate" =>
       /\ loop.cmd \in [op : {"navigate"}, n : Session!Navs] /\ nav[loop.cmd.n] = "sent"
       /\ \A i \in 1..Len(chan) : chan[i].op = "navigate" => chan[i].n # loop.cmd.n
  /\ loop.at = "starting" =>
       /\ loop.cmd \in [op : {"transfer"}, t : Transfers] /\ xfer[loop.cmd.t].at = "queued"
       /\ \A i \in 1..Len(chan) : chan[i].op = "transfer" => chan[i].t # loop.cmd.t
LoopEnds ==
  /\ loop.at = "over" => chan = <<>>
  /\ loop.at = "joining" => ~sessionOpen
CommandsInv == /\ chan \in Seq(Commands)
               /\ loop \in [at : {"connecting", "recv", "navigate", "starting", "delete",
                                  "joining", "over"}, cmd : Works]
               /\ CommandsWait /\ CommandsApart /\ InHandWaits /\ LoopEnds

(* The transfers. *)

\* The lock of a remote path.
Exclusive ==
  \A t, u \in Transfers : t # u /\ xfer[t].key = xfer[u].key =>
    xfer[t].at \in Session!Unlocked \/ xfer[u].at \in Session!Unlocked
KeysAreDirs == \A t \in Transfers : xfer[t].at # "new" => xfer[t].key \in Dirs
NewHasNoStatus == \A t \in Transfers : xfer[t].at = "new" => xfer[t].status = "none"
\* What has not written yet has left nothing.
NothingYet ==
  \A t \in Transfers : xfer[t].at \in {"new", "queued", "lock", "check", "create"} =>
    \A d \in SomeDirs : t \notin content[d]
Alone(t) ==
  xfer[t].kind = "download" =>
    \A u \in Transfers : xfer[u].at # "new" => xfer[u].key = xfer[t].key
OwnData ==
  \A t \in Transfers : Alone(t) =>
    /\ xfer[t].at \in {"copy", "write"} => content[Session!Target(t)] = {}
    /\ xfer[t].at = "tail" => content[Session!Target(t)] = {t}
    /\ xfer[t].at \in {"finish", "judge", "done"} /\ t \in content[Session!Target(t)] =>
         content[Session!Target(t)] = {t}
\* A cancelled task is stopped before its next write.
LateStops ==
  sessionOpen => \A t \in Transfers :
    /\ xfer[t].late <= 1
    /\ xfer[t].late = 1 => t \in cancelled /\ xfer[t].at \notin {"create", "write"}
Quiet == \A t \in Transfers : ~Session!Running(t)
QuietEnds ==
  /\ loop.at = "connecting" => Quiet
  /\ loop.at = "over" /\ closing # "timeout" => Quiet
  /\ closing = "ok" => Quiet /\ loop.at = "over"
  /\ sessionOpen <=> closing = "no"
TransfersInv == /\ Exclusive /\ KeysAreDirs /\ NewHasNoStatus /\ NothingYet /\ OwnData
                /\ LateStops /\ QuietEnds

\* The types by parts.
ShownTypes ==
  /\ sessionOpen \in BOOLEAN /\ registered \in BOOLEAN
  /\ sessionShown \in [path : SomeDirs, loading : BOOLEAN, gen : 1..(MaxNavs + 1),
                       status : {"connecting", "connected", "failed"}]
  /\ closing \in {"no", "revoked", "waiting", "ok", "timeout"}
NavTypes ==
  /\ nav \in [Session!Navs ->
               {"new", "waiting", "loading", "sent", "saving", "done", "error"}]
  /\ goal \in [Session!Navs -> SomeDirs] /\ sessionSaved \in SomeDirs
TransferRecords ==
  [at : Session!Unlocked \cup Session!Steps, kind : {"upload", "download"},
   status : Session!Cancellable \cup {"none", "cancelled", "done", "failed", "gone"},
   key : SomeDirs, refresh : SomeDirs, gen : Gens, late : Nat]
TransferTypes ==
  /\ cancelled \subseteq Transfers /\ xfer \in [Transfers -> TransferRecords]
  /\ content \in [SomeDirs -> SUBSET Transfers]

SessionInv == /\ ShownTypes /\ NavTypes /\ TransferTypes
              /\ NavInv /\ CommandsInv /\ TransfersInv

LEMMA CommandKinds ==
  /\ \A c \in Commands : /\ c.op \in {"navigate", "transfer", "delete", "disconnect"}
                         /\ c.op = "navigate" => c.n \in Session!Navs
                         /\ c.op = "transfer" => c.t \in Transfers
                         /\ c.op = "delete" => c.dir \in SomeDirs
  /\ \A n \in Session!Navs : /\ [op |-> "navigate", n |-> n] \in Commands
                             /\ [op |-> "navigate", n |-> n].op = "navigate"
                             /\ [op |-> "navigate", n |-> n].n = n
  /\ \A t \in Transfers : /\ [op |-> "transfer", t |-> t] \in Commands
                          /\ [op |-> "transfer", t |-> t].op = "transfer"
                          /\ [op |-> "transfer", t |-> t].t = t
  /\ \A d \in SomeDirs : /\ [op |-> "delete", dir |-> d] \in Commands
                         /\ [op |-> "delete", dir |-> d].op = "delete"
  /\ [op |-> "disconnect"] \in Commands /\ [op |-> "disconnect"].op = "disconnect"
<1>1. \A c \in Commands : /\ c.op \in {"navigate", "transfer", "delete", "disconnect"}
                          /\ c.op = "navigate" => c.n \in Session!Navs
                          /\ c.op = "transfer" => c.t \in Transfers
                          /\ c.op = "delete" => c.dir \in SomeDirs
  BY DEF Commands
<1>2. /\ \A n \in Session!Navs : [op |-> "navigate", n |-> n] \in Commands
      /\ \A t \in Transfers : [op |-> "transfer", t |-> t] \in Commands
      /\ \A d \in SomeDirs : [op |-> "delete", dir |-> d] \in Commands
      /\ [op |-> "disconnect"] \in Commands
  BY DEF Commands
<1> QED
  BY <1>1, <1>2

LEMMA CommandsTyped ==
  ASSUME CommandsInv, NEW i \in 1..Len(chan)
  PROVE  chan[i] \in Commands
BY ElementOfSeq DEF CommandsInv

LEMMA SessionTypeOK ==
  ASSUME SessionInv
  PROVE  Session!TypeOK
<1>1. \A i \in 1..Len(chan) : chan[i].op \in {"navigate", "transfer", "delete", "disconnect"}
  <2>1. CommandsInv
    BY DEF SessionInv
  <2>2. \A i \in 1..Len(chan) : chan[i] \in Commands
    BY <2>1, CommandsTyped
  <2> QED
    BY <2>2, CommandKinds
<1>2. loop.at \in {"connecting", "recv", "navigate", "starting", "delete", "joining", "over"}
  BY DEF SessionInv, CommandsInv
<1> QED
  BY <1>1, <1>2 DEF SessionInv, ShownTypes, NavTypes, TransferTypes, TransferRecords, SomeDirs,
     Gens, Session!TypeOK, Session!NoGen

LEMMA SessionGoal ==
  ASSUME SessionInv
  PROVE  /\ Session!TypeOK /\ Session!LoadingIsExplained /\ Session!SavedIsShown
         /\ Session!AtMostOneLateWrite /\ Session!DoneMeansWhole /\ Session!ClosedMeansQuiet
<1>1. Session!LoadingIsExplained /\ Session!SavedIsShown
  BY DEF SessionInv, NavInv
<1>2. Session!AtMostOneLateWrite
  BY DEF SessionInv, TransfersInv, LateStops, Session!AtMostOneLateWrite
<1>3. Session!DoneMeansWhole
  BY DEF SessionInv, TransfersInv, OwnData, Alone, Session!DoneMeansWhole
<1>4. Session!ClosedMeansQuiet
  BY DEF SessionInv, TransfersInv, QuietEnds, Quiet, Session!ClosedMeansQuiet
<1> QED
  BY <1>1, <1>2, <1>3, <1>4, SessionTypeOK

LEMMA NavNumbers ==
  /\ MaxNavs \in Nat /\ MaxNavs + 1 \in Nat /\ Session!Navs = 1..MaxNavs
  /\ \A n \in Session!Navs : n \in Nat /\ n <= MaxNavs
BY SessionAssumption DEF Session!Navs

LEMMA SessionStarts == Session!Init => SessionInv
<1> SUFFICES ASSUME Session!Init PROVE SessionInv
  OBVIOUS
<1> USE DEF Session!Init
<1>1. ShownTypes
  BY NavNumbers DEF ShownTypes, SomeDirs
<1>2. NavTypes
  BY DEF NavTypes, SomeDirs
<1>3. TransferTypes
  BY NavNumbers DEF TransferTypes, TransferRecords, SomeDirs, Gens, Session!NoGen, Session!Unlocked,
     Session!Ends
<1>4. NavInv
  BY NavNumbers DEF NavInv, InTurn, GensCount, GoalsSet, SavingIsShown, ConnectsFirst, PathIsDir,
     OverIsFailed, Session!LoadingIsExplained, Session!SavedIsShown
<1>5. CommandsInv
  BY DEF CommandsInv, CommandsWait, CommandsApart, InHandWaits, LoopEnds, Works, Session!NoWork
<1>6. TransfersInv
  BY DEF TransfersInv, Exclusive, KeysAreDirs, NewHasNoStatus, NothingYet, OwnData, LateStops,
     QuietEnds, Quiet, Session!Running, Session!Ends, Session!Unlocked, SomeDirs
<1> QED
  BY <1>1, <1>2, <1>3, <1>4, <1>5, <1>6 DEF SessionInv

LEMMA SessionInvNext ==
  ASSUME ShownTypes', NavTypes', TransferTypes', NavInv', CommandsInv', TransfersInv'
  PROVE  SessionInv'
BY DEF SessionInv

\* Steps that leave the callers and what is shown alone, but for the end of loading.
ShownSettles ==
  /\ sessionShown' \in [path : SomeDirs, loading : BOOLEAN, gen : 1..(MaxNavs + 1),
                        status : {"connecting", "connected", "failed"}]
  /\ sessionShown'.path = sessionShown.path /\ sessionShown'.gen = sessionShown.gen
  /\ sessionShown'.status = sessionShown.status
  /\ sessionShown'.loading => sessionShown.loading
LoopGoesOn ==
  \/ loop'.at = loop.at
  \/ loop.at \notin {"connecting", "over"} /\ loop'.at \notin {"connecting", "over"}
  \/ ~sessionOpen /\ loop'.at # "connecting"
LEMMA NavFrame ==
  ASSUME NavInv, ShownSettles, LoopGoesOn, UNCHANGED <<sessionOpen, nav, goal, sessionSaved>>
  PROVE  NavInv'
<1> USE DEF NavInv, ShownSettles, LoopGoesOn
<1>1. InTurn' /\ GensCount' /\ GoalsSet' /\ SavingIsShown'
  BY DEF InTurn, GensCount, GoalsSet, SavingIsShown
<1>2. ConnectsFirst' /\ PathIsDir' /\ OverIsFailed'
  BY DEF ConnectsFirst, PathIsDir, OverIsFailed
<1>3. Session!LoadingIsExplained' /\ Session!SavedIsShown'
  BY DEF Session!LoadingIsExplained, Session!SavedIsShown
<1> QED
  BY <1>1, <1>2, <1>3

LEMMA CommandsFrame ==
  ASSUME CommandsInv, UNCHANGED <<chan, loop>>, sessionOpen' => sessionOpen,
         \A n \in Session!Navs : nav[n] = "sent" /\ loop.at # "over" => nav'[n] = "sent",
         \A t \in Transfers : xfer[t].at = "queued" => xfer'[t].at = "queued"
  PROVE  CommandsInv'
<1>1. \A i \in 1..Len(chan) : chan[i] \in Commands
  BY CommandsTyped
<1>2. CommandsWait'
  <2> SUFFICES ASSUME NEW i \in 1..Len(chan)
               PROVE  /\ chan[i].op = "navigate" => nav'[chan[i].n] = "sent"
                      /\ chan[i].op = "transfer" => xfer'[chan[i].t].at = "queued"
                      /\ chan[i].op = "disconnect" => ~sessionOpen'
    BY DEF CommandsWait
  <2>1. loop.at # "over"
    BY DEF CommandsInv, LoopEnds
  <2> QED
    BY <1>1, <2>1, CommandKinds DEF CommandsInv, CommandsWait
<1>3. CommandsApart' /\ LoopEnds'
  BY DEF CommandsInv, CommandsApart, LoopEnds
<1>4. InHandWaits'
  BY DEF CommandsInv, InHandWaits
<1> QED
  BY <1>2, <1>3, <1>4 DEF CommandsInv

LEMMA TransfersFrame ==
  ASSUME TransfersInv, UNCHANGED <<sessionOpen, cancelled, xfer, content>>,
         loop'.at = "connecting" => loop.at = "connecting",
         loop'.at = "over" => loop.at = "over" \/ Quiet \/ closing' = "timeout",
         loop.at = "over" => loop'.at = "over",
         closing' = closing
           \/ (closing \in {"revoked", "waiting"} /\ closing' \in {"waiting", "timeout"})
           \/ (closing \in {"revoked", "waiting"} /\ closing' = "ok" /\ loop'.at = "over"
               /\ loop.at = "over")
  PROVE  TransfersInv'
<1> USE DEF TransfersInv
<1>1. Exclusive' /\ KeysAreDirs' /\ NewHasNoStatus' /\ NothingYet'
  BY DEF Exclusive, KeysAreDirs, NewHasNoStatus, NothingYet
<1>2. OwnData' /\ LateStops'
  BY DEF OwnData, LateStops, Alone, Session!Target
<1>3. QuietEnds'
  <2>1. Quiet' <=> Quiet
    BY DEF Quiet, Session!Running
  <2> QED
    BY <2>1 DEF QuietEnds
<1> QED
  BY <1>1, <1>2, <1>3

LEMMA TransferTypesFrame ==
  ASSUME TransferTypes, UNCHANGED <<cancelled, xfer, content>> PROVE TransferTypes'
BY DEF TransferTypes

-----------------------------------------------------------------------------
\* A step of the task of transfer t, which gets the record r.
TaskVars == UNCHANGED <<sessionOpen, cancelled, nav, goal, sessionSaved, registered, chan,
                        loop, closing>>
TaskMoves(t, r) ==
  /\ xfer' = [xfer EXCEPT ![t] = r] /\ r.kind = xfer[t].kind /\ r.key = xfer[t].key
  /\ xfer[t].at \notin {"new", "queued", "over"} /\ r.at \notin {"new", "queued", "lock"}
  /\ \/ r.at = "over"
     \/ xfer[t].at # "lock"
     \/ \A u \in Transfers : xfer[u].key = xfer[t].key => xfer[u].at \in Session!Unlocked
  /\ sessionOpen => r.late <= 1 /\ (r.late = 1 => t \in cancelled /\ r.at \notin {"create",
       "write"})
\* Its file.
TaskWrites(t, r) ==
  /\ content' \in [SomeDirs -> SUBSET Transfers]
  /\ \/ UNCHANGED content
     \/ /\ xfer[t].at \in {"create", "write"}
        /\ \A d \in SomeDirs :
             content'[d] = content[d]
             \/ (d = Session!Target(t) /\ content'[d] \subseteq content[d] \cup {t})
  /\ r.at \in {"check", "create"} => \A d \in SomeDirs : t \notin content'[d]
  /\ Alone(t) =>
       /\ r.at \in {"copy", "write"} => content'[Session!Target(t)] = {}
       /\ r.at = "tail" => content'[Session!Target(t)] = {t}
       /\ r.at \in {"finish", "judge", "done"} /\ t \in content'[Session!Target(t)] =>
            content'[Session!Target(t)] = {t}

LEMMA TaskTransfers ==
  ASSUME TransferTypes, TransfersInv, NEW t \in Transfers, NEW r \in TransferRecords,
         TaskVars, TaskMoves(t, r), TaskWrites(t, r)
  PROVE  TransferTypes' /\ TransfersInv'
<1>0. /\ \A u \in Transfers : u # t => xfer'[u] = xfer[u]
      /\ xfer'[t] = r /\ xfer' \in [Transfers -> TransferRecords]
  BY DEF TransferTypes, TaskMoves
<1>1. TransferTypes'
  BY <1>0 DEF TransferTypes, TaskVars, TaskWrites
<1>2. Exclusive'
  <2>1. ASSUME NEW u \in Transfers, u # t, xfer[u].key = xfer[t].key,
               r.at \notin Session!Unlocked
        PROVE  xfer[u].at \in Session!Unlocked
    <3>1. xfer[t].at # "lock" => xfer[t].at \notin Session!Unlocked
      BY DEF TaskMoves, Session!Unlocked, Session!Ends
    <3>2. r.at # "over"
      BY <2>1 DEF Session!Unlocked, Session!Ends
    <3> QED
      BY <2>1, <3>1, <3>2 DEF TaskMoves, TransfersInv, Exclusive
  <2> QED
    BY <1>0, <2>1 DEF TransfersInv, Exclusive, TaskMoves
<1>3. KeysAreDirs' /\ NewHasNoStatus'
  BY <1>0 DEF TransfersInv, KeysAreDirs, NewHasNoStatus, TaskMoves
<1>4. NothingYet'
  <2>1. ASSUME NEW u \in Transfers, u # t, NEW d \in SomeDirs, u \notin content[d]
        PROVE  u \notin content'[d]
    BY <2>1 DEF TaskWrites
  <2>2. r.at \in {"new", "queued", "lock", "check", "create"} =>
          \A d \in SomeDirs : t \notin content'[d]
    BY DEF TaskMoves, TaskWrites
  <2> QED
    BY <1>0, <2>1, <2>2 DEF TransfersInv, NothingYet
<1>5. \A u \in Transfers : /\ xfer'[u].kind = xfer[u].kind /\ xfer'[u].key = xfer[u].key
                           /\ (xfer'[u].at # "new" <=> xfer[u].at # "new")
  BY <1>0 DEF TaskMoves
<1>6. \A u \in Transfers : (Alone(u)' <=> Alone(u)) /\ Session!Target(u)' = Session!Target(u)
                           /\ Session!Target(u) \in SomeDirs
  BY <1>5 DEF Alone, Session!Target, TransferTypes, TransferRecords, SomeDirs
<1>7. OwnData'
  <2>1. ASSUME NEW u \in Transfers, u # t, Alone(u),
               xfer[u].at \in {"copy", "write", "tail", "finish", "judge", "done"}
        PROVE  content'[Session!Target(u)] = content[Session!Target(u)]
    <3>1. CASE UNCHANGED content
      BY <3>1
    <3>2. CASE xfer[t].at \in {"create", "write"} /\ Session!Target(u) = Session!Target(t)
      <4>1. xfer[u].key # xfer[t].key
        BY <2>1, <3>2 DEF TransfersInv, Exclusive, Session!Unlocked, Session!Ends
      <4>2. xfer[u].key \in Dirs /\ xfer[t].key \in Dirs
        BY <2>1, <3>2 DEF TransfersInv, KeysAreDirs
      <4>3. xfer[u].kind \in {"upload", "download"} /\ xfer[t].kind \in {"upload", "download"}
        BY DEF TransferTypes, TransferRecords
      <4>4. xfer[u].kind = "download" /\ xfer[t].kind = "download"
        BY <3>2, <4>1, <4>2, <4>3, SessionAssumption DEF Session!Target
      <4> QED
        BY <2>1, <3>2, <4>1, <4>4 DEF Alone
    <3>3. CASE Session!Target(u) # Session!Target(t) /\ content' # content
      BY <1>6, <3>3 DEF TaskWrites
    <3> QED
      BY <3>1, <3>2, <3>3 DEF TaskWrites
  <2>2. ASSUME NEW u \in Transfers, u # t, Alone(u)
        PROVE  /\ xfer[u].at \in {"copy", "write"} => content'[Session!Target(u)] = {}
               /\ xfer[u].at = "tail" => content'[Session!Target(u)] = {u}
               /\ xfer[u].at \in {"finish", "judge", "done"} /\ u \in content'[Session!Target(u)] =>
                    content'[Session!Target(u)] = {u}
    BY <2>1, <2>2 DEF TransfersInv, OwnData
  <2>3. Alone(t) =>
          /\ r.at \in {"copy", "write"} => content'[Session!Target(t)] = {}
          /\ r.at = "tail" => content'[Session!Target(t)] = {t}
          /\ r.at \in {"finish", "judge", "done"} /\ t \in content'[Session!Target(t)] =>
               content'[Session!Target(t)] = {t}
    BY DEF TaskWrites
  <2> QED
    BY <1>0, <1>6, <2>2, <2>3 DEF OwnData
<1>8. LateStops'
  BY <1>0 DEF TransfersInv, LateStops, TaskVars, TaskMoves
<1>9. QuietEnds'
  <2>1. Quiet => Quiet'
    BY <1>0 DEF Quiet, Session!Running, Session!Ends, TaskMoves
  <2> QED
    BY <2>1 DEF TransfersInv, QuietEnds, TaskVars
<1> QED
  BY <1>1, <1>2, <1>3, <1>4, <1>7, <1>8, <1>9 DEF TransfersInv

LEMMA TaskKeeps ==
  ASSUME SessionInv, NEW t \in Transfers, NEW r \in TransferRecords,
         TaskVars, TaskMoves(t, r), TaskWrites(t, r), ShownSettles
  PROVE  SessionInv'
<1>1. TransferTypes' /\ TransfersInv'
  BY TaskTransfers DEF SessionInv
<1>2. \A u \in Transfers : xfer[u].at = "queued" => xfer'[u].at = "queued"
  BY DEF TaskMoves, SessionInv, TransferTypes
<1>3. CommandsInv'
  BY <1>2, CommandsFrame DEF SessionInv, TaskVars
<1>4. NavInv'
  BY NavFrame DEF SessionInv, TaskVars, LoopGoesOn
<1>5. ShownTypes' /\ NavTypes'
  BY DEF SessionInv, ShownTypes, NavTypes, TaskVars, ShownSettles
<1> QED
  BY <1>1, <1>3, <1>4, <1>5, SessionInvNext

Places == Session!Unlocked \cup Session!Steps
Statuses == Session!Cancellable \cup {"none", "cancelled", "done", "failed", "gone"}
LEMMA RecordAt ==
  ASSUME NEW x \in TransferRecords, NEW to \in Places
  PROVE  /\ [x EXCEPT !.at = to] \in TransferRecords
         /\ ([x EXCEPT !.at = to]).kind = x.kind /\ ([x EXCEPT !.at = to]).key = x.key
         /\ ([x EXCEPT !.at = to]).at = to
         /\ ([x EXCEPT !.at = to]).late = x.late
BY DEF TransferRecords, Places

LEMMA RecordStatus ==
  ASSUME NEW x \in TransferRecords, NEW s \in Statuses
  PROVE  /\ [x EXCEPT !.status = s] \in TransferRecords
         /\ ([x EXCEPT !.status = s]).kind = x.kind /\ ([x EXCEPT !.status = s]).key = x.key
         /\ ([x EXCEPT !.status = s]).at = x.at
         /\ ([x EXCEPT !.status = s]).late = x.late
         /\ ([x EXCEPT !.status = s]).status = s
BY DEF TransferRecords, Statuses

LEMMA RecordAtStatus ==
  ASSUME NEW x \in TransferRecords, NEW to \in Places, NEW s \in Statuses
  PROVE  /\ [x EXCEPT !.at = to, !.status = s] \in TransferRecords
         /\ ([x EXCEPT !.at = to, !.status = s]).kind = x.kind /\ ([x EXCEPT !.at = to,
              !.status = s]).key = x.key
         /\ ([x EXCEPT !.at = to, !.status = s]).at = to
         /\ ([x EXCEPT !.at = to, !.status = s]).late = x.late
BY DEF TransferRecords, Places, Statuses

LEMMA RecordGen ==
  ASSUME NEW x \in TransferRecords, NEW to \in Places, NEW g \in Gens
  PROVE  /\ [x EXCEPT !.at = to, !.gen = g] \in TransferRecords
         /\ ([x EXCEPT !.at = to, !.gen = g]).kind = x.kind /\ ([x EXCEPT !.at = to,
              !.gen = g]).key = x.key
         /\ ([x EXCEPT !.at = to, !.gen = g]).at = to
         /\ ([x EXCEPT !.at = to, !.gen = g]).late = x.late
BY DEF TransferRecords, Places

LEMMA RecordEnded ==
  ASSUME NEW x \in TransferRecords
  PROVE  /\ Session!Ended(x) \in TransferRecords
         /\ Session!Ended(x).kind = x.kind /\ Session!Ended(x).key = x.key
         /\ Session!Ended(x).at = "over" /\ Session!Ended(x).late = 0
         /\ Session!Ended(x).status = x.status
<1>0. 0 \in Gens /\ NoDir \in SomeDirs /\ 0 \in Nat
  BY NavNumbers DEF Gens, SomeDirs
<1>1. "over" \in Session!Unlocked \cup Session!Steps
  BY DEF Session!Unlocked, Session!Ends
<1> QED
  BY <1>0, <1>1 DEF TransferRecords, Session!Ended, Session!NoGen

LEMMA StepNames ==
  \A a : a \in Places <=>
    a \in {"new", "queued", "over", "lock", "check", "create", "copy", "write", "tail",
           "finish", "judge", "broken", "cancelled", "done", "failed", "refresh", "commit"}
BY DEF Places, Session!Unlocked, Session!Ends, Session!Steps

LEMMA OnlyTaskVars == Session!OnlyTask => TaskVars
BY DEF Session!OnlyTask, TaskVars

LEMMA ShownStays == ShownTypes /\ UNCHANGED sessionShown => ShownSettles
BY DEF ShownTypes, ShownSettles

\* The task goes from one place in its course to the next.
LEMMA StepKeeps ==
  ASSUME SessionInv, NEW t \in Transfers, NEW from, NEW to, Session!Step(t, from, to),
         Session!OnlyTask, UNCHANGED <<sessionShown, content>>,
         from \notin {"new", "queued", "over", "lock"},
         to \in {"create", "write", "finish", "broken", "cancelled", "done", "failed"},
         to \in {"create", "write"} => t \notin cancelled,
         to = "create" => from = "check", to = "write" => from = "copy",
         to = "finish" => from \in {"check", "copy", "tail"}, to = "done" => from = "judge"
  PROVE  SessionInv'
<1> DEFINE r == [xfer[t] EXCEPT !.at = to]
<1>1. xfer[t] \in TransferRecords /\ xfer \in [Transfers -> TransferRecords]
      /\ content \in [SomeDirs -> SUBSET Transfers]
  BY DEF SessionInv, TransferTypes
<1>2. /\ r \in TransferRecords /\ r.at = to /\ r.kind = xfer[t].kind /\ r.key = xfer[t].key
      /\ r.late = xfer[t].late
  BY <1>1, RecordAt, StepNames
<1>3. xfer[t].at = from /\ xfer' = [xfer EXCEPT ![t] = r]
  BY <1>1 DEF Session!Step
<1> HIDE DEF r
<1>4. TaskMoves(t, r)
  <2>1. sessionOpen => r.late <= 1
                       /\ (r.late = 1 => t \in cancelled /\ r.at \notin {"create", "write"})
    BY <1>2 DEF SessionInv, TransfersInv, LateStops
  <2> QED
    BY <1>2, <1>3, <2>1 DEF TaskMoves
<1>5. Session!Target(t) \in SomeDirs
  BY <1>1 DEF Session!Target, TransferRecords, SomeDirs
<1>6. TaskWrites(t, r)
  <2>1. r.at \in {"check", "create"} => \A d \in SomeDirs : t \notin content[d]
    BY <1>2, <1>3 DEF SessionInv, TransfersInv, NothingYet
  <2>2. ASSUME Alone(t)
        PROVE  /\ r.at \in {"copy", "write"} => content[Session!Target(t)] = {}
               /\ r.at = "tail" => content[Session!Target(t)] = {t}
               /\ r.at \in {"finish", "judge", "done"} /\ t \in content[Session!Target(t)] =>
                    content[Session!Target(t)] = {t}
    BY <1>2, <1>3, <1>5, <2>2 DEF SessionInv, TransfersInv, NothingYet, OwnData
  <2> QED
    BY <1>1, <2>1, <2>2 DEF TaskWrites
<1>7. TaskVars /\ ShownSettles
  BY OnlyTaskVars, ShownStays DEF SessionInv
<1> QED
  BY <1>2, <1>4, <1>6, <1>7, TaskKeeps

LEMMA AcquireKeeps ==
  ASSUME SessionInv, NEW t \in Transfers, Session!Acquire(t)
  PROVE  SessionInv'
<1> DEFINE r == [xfer[t] EXCEPT !.at = "check"]
<1>1. xfer[t] \in TransferRecords /\ xfer \in [Transfers -> TransferRecords]
      /\ content \in [SomeDirs -> SUBSET Transfers]
  BY DEF SessionInv, TransferTypes
<1>2. /\ r \in TransferRecords /\ r.at = "check" /\ r.kind = xfer[t].kind /\ r.key = xfer[t].key
      /\ r.late = xfer[t].late
  BY <1>1, RecordAt, StepNames
<1>3. xfer[t].at = "lock" /\ xfer' = [xfer EXCEPT ![t] = r]
  BY <1>1 DEF Session!Acquire, Session!Step
<1>8. Session!OnlyTask /\ UNCHANGED <<sessionShown, content>>
      /\ \A u \in Transfers : xfer[u].key = xfer[t].key => xfer[u].at \in Session!Unlocked
  BY DEF Session!Acquire
<1> HIDE DEF r
<1>4. TaskMoves(t, r)
  BY <1>2, <1>3, <1>8 DEF TaskMoves, SessionInv, TransfersInv, LateStops
<1>6. TaskWrites(t, r)
  BY <1>1, <1>2, <1>3, <1>8 DEF TaskWrites, SessionInv, TransfersInv, NothingYet
<1>7. TaskVars /\ ShownSettles
  BY <1>8, OnlyTaskVars, ShownStays DEF SessionInv
<1> QED
  BY <1>2, <1>4, <1>6, <1>7, TaskKeeps

LEMMA CreateKeeps ==
  ASSUME SessionInv, NEW t \in Transfers, Session!Create(t)
  PROVE  SessionInv'
<1> DEFINE l == Session!Late(t)
           r == [xfer[t] EXCEPT !.at = "copy", !.late = l]
<1>1. xfer[t] \in TransferRecords /\ xfer \in [Transfers -> TransferRecords]
      /\ content \in [SomeDirs -> SUBSET Transfers]
  BY DEF SessionInv, TransferTypes
<1>9. xfer[t].at = "create" /\ xfer[t].late \in Nat
  BY <1>1 DEF Session!Create, TransferRecords
<1>0. l \in Nat /\ (sessionOpen => l <= 1 /\ (l = 1 => t \in cancelled))
  BY <1>9 DEF Session!Late, SessionInv, TransfersInv, LateStops
<1>3. xfer' = [xfer EXCEPT ![t] = r]
  BY <1>1 DEF Session!Create
<1> HIDE DEF l
<1>2. /\ r \in TransferRecords /\ r.at = "copy" /\ r.kind = xfer[t].kind /\ r.key = xfer[t].key
      /\ r.late = l
  <2>1. xfer[t] \in TransferRecords /\ "copy" \in Places /\ l \in Nat
    BY <1>0, <1>1, StepNames
  <2> QED
    BY <2>1 DEF TransferRecords, Places
<1>8. Session!OnlyTask /\ UNCHANGED sessionShown
      /\ content' = [content EXCEPT ![Session!Target(t)] = {}]
  BY DEF Session!Create, Session!Put
<1> HIDE DEF r
<1>4. TaskMoves(t, r)
  BY <1>0, <1>2, <1>3, <1>9 DEF TaskMoves
<1>5. Session!Target(t) \in SomeDirs
  BY <1>1 DEF Session!Target, TransferRecords, SomeDirs
<1>6. TaskWrites(t, r)
  <2>1. \A d \in SomeDirs : content'[d] = IF d = Session!Target(t) THEN {} ELSE content[d]
    BY <1>1, <1>8
  <2>2. content' \in [SomeDirs -> SUBSET Transfers]
    BY <1>1, <1>8
  <2> QED
    BY <1>2, <1>5, <1>9, <2>1, <2>2 DEF TaskWrites
<1>7. TaskVars /\ ShownSettles
  BY <1>8, OnlyTaskVars, ShownStays DEF SessionInv
<1> QED
  BY <1>2, <1>4, <1>6, <1>7, TaskKeeps

LEMMA WriteKeeps ==
  ASSUME SessionInv, NEW t \in Transfers, Session!Write(t)
  PROVE  SessionInv'
<1> DEFINE l == Session!Late(t)
           s == Session!Marked(t, "running")
           r == [xfer[t] EXCEPT !.at = "tail", !.late = l, !.status = s]
<1>1. xfer[t] \in TransferRecords /\ xfer \in [Transfers -> TransferRecords]
      /\ content \in [SomeDirs -> SUBSET Transfers]
  BY DEF SessionInv, TransferTypes
<1>9. xfer[t].at = "write" /\ xfer[t].late \in Nat
  BY <1>1 DEF Session!Write, TransferRecords
<1>0. l \in Nat /\ (sessionOpen => l <= 1 /\ (l = 1 => t \in cancelled))
  BY <1>9 DEF Session!Late, SessionInv, TransfersInv, LateStops
<1>10. s \in Statuses
  BY <1>1 DEF TransferRecords, Statuses, Session!Marked, Session!Cancellable
<1>3. xfer' = [xfer EXCEPT ![t] = r]
  BY <1>1 DEF Session!Write
<1> HIDE DEF l, s
<1>2. /\ r \in TransferRecords /\ r.at = "tail" /\ r.kind = xfer[t].kind /\ r.key = xfer[t].key
      /\ r.late = l
  <2>1. xfer[t] \in TransferRecords /\ "tail" \in Places /\ l \in Nat /\ s \in Statuses
    BY <1>0, <1>1, <1>10, StepNames
  <2> QED
    BY <2>1 DEF TransferRecords, Places, Statuses
<1>8. Session!OnlyTask /\ UNCHANGED sessionShown
      /\ content' = [content EXCEPT ![Session!Target(t)] = content[Session!Target(t)] \cup {t}]
  BY DEF Session!Write, Session!Put
<1> HIDE DEF r
<1>4. TaskMoves(t, r)
  BY <1>0, <1>2, <1>3, <1>9 DEF TaskMoves
<1>5. Session!Target(t) \in SomeDirs
  BY <1>1 DEF Session!Target, TransferRecords, SomeDirs
<1>6. TaskWrites(t, r)
  <2>1. \A d \in SomeDirs :
          content'[d] = IF d = Session!Target(t) THEN content[d] \cup {t} ELSE content[d]
    BY <1>1, <1>8
  <2>2. content' \in [SomeDirs -> SUBSET Transfers]
    BY <1>1, <1>8
  <2>3. Alone(t) => content[Session!Target(t)] = {}
    BY <1>9 DEF SessionInv, TransfersInv, OwnData
  <2> QED
    BY <1>2, <1>5, <1>9, <2>1, <2>2, <2>3 DEF TaskWrites
<1>7. TaskVars /\ ShownSettles
  BY <1>8, OnlyTaskVars, ShownStays DEF SessionInv
<1> QED
  BY <1>2, <1>4, <1>6, <1>7, TaskKeeps

LEMMA CourseKeeps ==
  ASSUME SessionInv, NEW t \in Transfers,
         Session!GoOn(t) \/ Session!Bail(t) \/ Session!IoFails(t) \/ Session!Judge(t)
  PROVE  SessionInv'
<1>1. CASE Session!GoOn(t)
  <2>1. Session!OnlyTask /\ UNCHANGED <<sessionShown, content>> /\ t \notin cancelled
    BY <1>1 DEF Session!GoOn
  <2>2. \/ Session!Step(t, "check", "create") \/ Session!Step(t, "check", "finish")
        \/ Session!Step(t, "copy", "write") \/ Session!Step(t, "copy", "finish")
        \/ Session!Step(t, "tail", "finish")
    BY <1>1 DEF Session!GoOn
  <2> QED
    BY <2>1, <2>2, StepKeeps
<1>2. CASE Session!Bail(t)
  <2>1. Session!OnlyTask /\ UNCHANGED <<sessionShown, content>>
    BY <1>2 DEF Session!Bail
  <2>2. PICK from \in {"check", "copy", "tail"} : Session!Step(t, from, "broken")
    BY <1>2 DEF Session!Bail
  <2> QED
    BY <2>1, <2>2, StepKeeps
<1>3. CASE Session!IoFails(t)
  <2>1. Session!OnlyTask /\ UNCHANGED <<sessionShown, content>>
    BY <1>3 DEF Session!IoFails
  <2>2. PICK from \in {"check", "create", "copy", "write", "tail", "finish"} :
          Session!Step(t, from, "broken")
    BY <1>3 DEF Session!IoFails
  <2> QED
    BY <2>1, <2>2, StepKeeps
<1>4. CASE Session!Judge(t)
  <2>1. Session!OnlyTask /\ UNCHANGED <<sessionShown, content>>
    BY <1>4 DEF Session!Judge
  <2>2. \/ Session!Step(t, "judge", "cancelled") \/ Session!Step(t, "broken", "cancelled")
        \/ Session!Step(t, "judge", "done") \/ Session!Step(t, "broken", "failed")
    BY <1>4 DEF Session!Judge
  <2> QED
    BY <2>1, <2>2, StepKeeps
<1> QED
  BY <1>1, <1>2, <1>3, <1>4

\* The task writes no more, and what it does to the record is of no account.
LEMMA RecordKeeps ==
  ASSUME SessionInv, NEW t \in Transfers, NEW r \in TransferRecords,
         xfer' = [xfer EXCEPT ![t] = r], r.kind = xfer[t].kind, r.key = xfer[t].key,
         r.late = xfer[t].late \/ r.late = 0,
         xfer[t].at \notin {"new", "queued", "over", "lock"} \/
           (r.at = "over" /\ xfer[t].at \notin {"new", "queued", "over"}),
         r.at \in {"judge", "refresh", "commit", "over"}, r.at = "judge" => xfer[t].at = "finish",
         Session!OnlyTask, UNCHANGED content, ShownSettles
  PROVE  SessionInv'
<1>4. TaskMoves(t, r)
  <2>1. sessionOpen => r.late <= 1
                       /\ (r.late = 1 => t \in cancelled /\ r.at \notin {"create", "write"})
    BY DEF SessionInv, TransfersInv, LateStops
  <2> QED
    BY <2>1 DEF TaskMoves
<1>6. TaskWrites(t, r)
  <2>1. content \in [SomeDirs -> SUBSET Transfers]
    BY DEF SessionInv, TransferTypes
  <2>2. ASSUME Alone(t)
        PROVE  r.at \in {"finish", "judge", "done"} /\ t \in content[Session!Target(t)] =>
                    content[Session!Target(t)] = {t}
    BY <2>2 DEF SessionInv, TransfersInv, OwnData
  <2> QED
    BY <2>1, <2>2 DEF TaskWrites
<1> QED
  BY <1>4, <1>6, OnlyTaskVars, TaskKeeps

LEMMA GenTyped ==
  ASSUME ShownTypes, NEW d
  PROVE  Session!GenOf(d) \in Gens
BY NavNumbers DEF ShownTypes, Session!GenOf, Session!NoGen, Gens

LEMMA ReportKeeps ==
  ASSUME SessionInv, NEW t \in Transfers,
         Session!Finish(t) \/ Session!Record(t) \/ Session!Refresh(t) \/ Session!Aborted(t)
  PROVE  SessionInv'
<1>1. xfer[t] \in TransferRecords /\ xfer \in [Transfers -> TransferRecords]
  BY DEF SessionInv, TransferTypes
<1>2. UNCHANGED sessionShown => ShownSettles
  BY ShownStays DEF SessionInv
<1>3. CASE Session!Finish(t)
  <2> DEFINE s == Session!Marked(t, "running")
             r == [xfer[t] EXCEPT !.at = "judge", !.status = s]
  <2>1. /\ xfer[t].at = "finish" /\ xfer' = [xfer EXCEPT ![t] = r]
        /\ Session!OnlyTask /\ UNCHANGED <<sessionShown, content>>
    BY <1>1, <1>3 DEF Session!Finish
  <2>2. s \in Statuses /\ "judge" \in Places
    BY <1>1, StepNames DEF TransferRecords, Statuses, Session!Marked, Session!Cancellable
  <2> HIDE DEF s
  <2>3. /\ r \in TransferRecords /\ r.kind = xfer[t].kind /\ r.key = xfer[t].key
        /\ r.at = "judge" /\ r.late = xfer[t].late
    BY <1>1, <2>2 DEF TransferRecords, Places, Statuses
  <2> HIDE DEF r
  <2> QED
    BY <1>2, <2>1, <2>3, RecordKeeps
<1>4. CASE Session!Record(t)
  <2> DEFINE s == Session!Marked(t, xfer[t].at)
             record == [xfer[t] EXCEPT !.status = s]
             r == IF xfer[t].at = "done" /\ xfer[t].kind = "upload"
                  THEN [record EXCEPT !.at = "refresh"] ELSE Session!Ended(record)
  <2>1. /\ xfer[t].at \in {"cancelled", "done", "failed"}
        /\ Session!OnlyTask /\ UNCHANGED <<sessionShown, content>>
        /\ xfer' = [xfer EXCEPT ![t] = r]
    BY <1>4 DEF Session!Record
  <2>2. s \in Statuses
    BY <1>1, <2>1 DEF TransferRecords, Statuses, Session!Marked, Session!Cancellable
  <2> HIDE DEF s
  <2>3. /\ record \in TransferRecords /\ record.kind = xfer[t].kind /\ record.key = xfer[t].key
        /\ record.late = xfer[t].late
    BY <1>1, <2>2, RecordStatus
  <2> HIDE DEF record
  <2>4. "refresh" \in Places
    BY StepNames
  <2>5. /\ r \in TransferRecords /\ r.kind = xfer[t].kind /\ r.key = xfer[t].key
        /\ r.at \in {"refresh", "over"} /\ (r.late = xfer[t].late \/ r.late = 0)
    BY <2>3, <2>4, RecordAt, RecordEnded
  <2> HIDE DEF r
  <2> QED
    BY <1>2, <2>1, <2>5, RecordKeeps
<1>5. CASE Session!Refresh(t)
  <2> DEFINE gen == Session!GenOf(xfer[t].refresh)
             r == IF gen = 0 THEN Session!Ended(xfer[t])
                  ELSE [xfer[t] EXCEPT !.at = "commit", !.gen = gen]
  <2>1. /\ xfer[t].at = "refresh"
        /\ Session!OnlyTask /\ UNCHANGED <<sessionShown, content>>
        /\ xfer' = [xfer EXCEPT ![t] = r]
    BY <1>5 DEF Session!Refresh, Session!NoGen
  <2>2. gen \in Gens /\ "commit" \in Places
    BY GenTyped, StepNames DEF SessionInv
  <2> HIDE DEF gen
  <2>3. LET e == [xfer[t] EXCEPT !.at = "commit", !.gen = gen] IN
        /\ e \in TransferRecords /\ e.kind = xfer[t].kind /\ e.key = xfer[t].key
        /\ e.at = "commit" /\ e.late = xfer[t].late
    BY <1>1, <2>2 DEF TransferRecords, Places
  <2>4. /\ r \in TransferRecords /\ r.kind = xfer[t].kind /\ r.key = xfer[t].key
        /\ r.at \in {"commit", "over"} /\ (r.late = xfer[t].late \/ r.late = 0)
    BY <1>1, <2>3, RecordEnded
  <2> HIDE DEF r
  <2> QED
    BY <1>2, <2>1, <2>4, RecordKeeps
<1>6. CASE Session!Aborted(t)
  <2>1. /\ Session!OnlyTask /\ UNCHANGED <<sessionShown, content>>
        /\ xfer' = [xfer EXCEPT ![t] = Session!Ended(xfer[t])]
        /\ xfer[t].at \notin {"new", "queued", "over"}
    BY <1>6 DEF Session!Aborted, Session!Running, Session!Ends
  <2> QED
    BY <1>1, <1>2, <2>1, RecordEnded, RecordKeeps
<1> QED
  BY <1>3, <1>4, <1>5, <1>6

LEMMA CommitKeeps ==
  ASSUME SessionInv, NEW t \in Transfers, Session!Commit(t)
  PROVE  SessionInv'
<1>1. xfer[t] \in TransferRecords
  BY DEF SessionInv, TransferTypes
<1>2. /\ Session!OnlyTask /\ UNCHANGED content /\ xfer[t].at = "commit"
      /\ xfer' = [xfer EXCEPT ![t] = Session!Ended(xfer[t])]
  BY DEF Session!Commit
<1>3. ShownSettles
  <2>1. sessionShown' = sessionShown
        \/ (sessionShown.path = xfer[t].refresh /\
            sessionShown' = [sessionShown EXCEPT !.path = xfer[t].refresh, !.loading = FALSE])
    BY DEF Session!Commit, Session!Show, Session!Current
  <2> QED
    BY <2>1 DEF SessionInv, ShownTypes, ShownSettles
<1> QED
  BY <1>1, <1>2, <1>3, RecordEnded, RecordKeeps

LEMMA TaskStepKeeps ==
  ASSUME SessionInv, NEW t \in Transfers, Session!Task(t)
  PROVE  SessionInv'
BY AcquireKeeps, CourseKeeps, CreateKeeps, WriteKeeps, ReportKeeps, CommitKeeps DEF Session!Task

\* One navigation is past the lock: the earlier ones have ended, the later ones wait.
LEMMA OneInTurn ==
  ASSUME NavTypes, InTurn, NEW n \in Session!Navs, nav[n] \in {"loading", "sent", "saving"}
  PROVE  \A m \in Session!Navs : /\ m < n => nav[m] \in {"done", "error"}
                                 /\ m # n /\ ~(m < n) => nav[m] \in {"new", "waiting"}
<1>1. ASSUME NEW m \in Session!Navs, m # n, ~(m < n)
      PROVE  nav[m] \in {"new", "waiting"}
  <2>1. n < m
    BY <1>1, NavNumbers
  <2> QED
    BY <2>1 DEF InTurn, NavTypes
<1> QED
  BY <1>1 DEF InTurn

LEMMA TurnKept ==
  ASSUME NavTypes, InTurn, NEW n \in Session!Navs, NEW v, nav' = [nav EXCEPT ![n] = v],
         v # "new", nav[n] \notin {"done", "error"},
         nav[n] = "new" => \A m \in Session!Navs : m < n => nav[m] # "new",
         \/ v = "waiting" \/ nav[n] \notin {"new", "waiting"}
         \/ \A m \in Session!Navs : m < n => nav[m] \in {"done", "error"}
  PROVE  InTurn'
<1>1. \A m \in Session!Navs : nav'[m] = IF m = n THEN v ELSE nav[m]
  BY DEF NavTypes
<1>2. ASSUME NEW m \in Session!Navs, NEW k \in Session!Navs, m < k
      PROVE  /\ nav'[k] \notin {"new", "waiting"} => nav'[m] \in {"done", "error"}
             /\ nav'[k] # "new" => nav'[m] # "new"
  <2>1. m # k
    BY <1>2, NavNumbers
  <2>2. /\ nav[k] \notin {"new", "waiting"} => nav[m] \in {"done", "error"}
        /\ nav[k] # "new" => nav[m] # "new"
    BY <1>2 DEF InTurn
  <2>3. CASE k = n
    BY <1>1, <1>2, <2>1, <2>2, <2>3
  <2>4. CASE k # n
    BY <1>1, <2>2, <2>4
  <2> QED
    BY <2>3, <2>4
<1> QED
  BY <1>2 DEF InTurn

LEMMA GrantedFacts ==
  ASSUME SessionInv, NEW n \in Session!Navs, Session!Granted(n)
  PROVE  /\ nav[n] = "waiting"
         /\ \A m \in Session!Navs : m < n => nav[m] \in {"done", "error"}
<1>1. ASSUME NEW m \in Session!Navs, m < n
      PROVE  nav[m] \in {"done", "error"}
  <2>1. m \in 1..(n - 1)
    BY <1>1, NavNumbers
  <2>2. ~Session!Pending(m)
    BY <2>1 DEF Session!Granted
  <2>3. nav[m] # "new"
    BY <1>1 DEF Session!Granted, SessionInv, NavInv, InTurn
  <2> QED
    BY <2>2, <2>3 DEF Session!Pending
<1> QED
  BY <1>1 DEF Session!Granted

\* What a caller leaves alone.
LEMMA CallerFrame ==
  ASSUME SessionInv, UNCHANGED <<sessionOpen, cancelled, xfer, registered, loop, content, closing>>,
         NavTypes', NavInv', CommandsInv',
         sessionShown' \in [path : SomeDirs, loading : BOOLEAN, gen : 1..(MaxNavs + 1),
                            status : {"connecting", "connected", "failed"}]
  PROVE  SessionInv'
<1>1. TransfersInv'
  BY TransfersFrame DEF SessionInv
<1>2. ShownTypes' /\ TransferTypes'
  BY TransferTypesFrame DEF SessionInv, ShownTypes
<1> QED
  BY <1>1, <1>2, SessionInvNext

LEMMA SameCommands ==
  ASSUME SessionInv, UNCHANGED <<sessionOpen, xfer, chan, loop>>, NEW n \in Session!Navs, NEW v,
         nav' = [nav EXCEPT ![n] = v], nav[n] # "sent" \/ loop.at = "over"
  PROVE  CommandsInv'
<1>1. \A m \in Session!Navs : nav[m] = "sent" /\ loop.at # "over" => nav'[m] = "sent"
  BY DEF SessionInv, NavTypes
<1> QED
  BY <1>1, CommandsFrame DEF SessionInv

LEMMA NavigateKeeps ==
  ASSUME SessionInv, NEW n \in Session!Navs, NEW d \in Dirs, Session!Navigate(n, d)
  PROVE  SessionInv'
<1>0. /\ UNCHANGED <<sessionOpen, sessionShown, cancelled, xfer, sessionSaved, registered, chan,
                     loop, content, closing>>
      /\ nav[n] = "new" /\ nav' = [nav EXCEPT ![n] = "waiting"]
      /\ goal' = [goal EXCEPT ![n] = d] /\ \A m \in 1..(n - 1) : nav[m] # "new"
  BY DEF Session!Navigate
<1>1. \A m \in Session!Navs : /\ nav'[m] = IF m = n THEN "waiting" ELSE nav[m]
                              /\ goal'[m] = IF m = n THEN d ELSE goal[m]
  BY <1>0 DEF SessionInv, NavTypes
<1>2. NavTypes'
  BY <1>0 DEF SessionInv, NavTypes, SomeDirs
<1>3. CommandsInv'
  BY <1>0, SameCommands
<1>4. InTurn'
  <2>1. \A m \in Session!Navs : m < n => nav[m] # "new"
    BY <1>0, NavNumbers
  <2> QED
    BY <1>0, <2>1, TurnKept DEF SessionInv, NavInv
<1>5. GensCount' /\ GoalsSet' /\ SavingIsShown' /\ ConnectsFirst' /\ PathIsDir' /\ OverIsFailed'
  BY <1>0, <1>1 DEF SessionInv, NavInv, GensCount, GoalsSet, SavingIsShown, ConnectsFirst,
     PathIsDir, OverIsFailed
<1>6. Session!LoadingIsExplained' /\ Session!SavedIsShown'
  BY <1>0, <1>1 DEF SessionInv, NavInv, Session!LoadingIsExplained, Session!SavedIsShown
<1> QED
  BY <1>0, <1>2, <1>3, <1>4, <1>5, <1>6, CallerFrame DEF NavInv, SessionInv, ShownTypes

LEMMA NavGoKeeps ==
  ASSUME SessionInv, NEW n \in Session!Navs, Session!NavGo(n)
  PROVE  SessionInv'
<1>0. /\ UNCHANGED <<sessionOpen, cancelled, xfer, goal, sessionSaved, registered, chan,
                     loop, content, closing>>
      /\ nav' = [nav EXCEPT ![n] = "loading"] /\ nav[n] = "waiting"
      /\ \A m \in Session!Navs : m < n => nav[m] \in {"done", "error"}
  BY GrantedFacts DEF Session!NavGo
<1>1. \A m \in Session!Navs : nav'[m] = IF m = n THEN "loading" ELSE nav[m]
  BY <1>0 DEF SessionInv, NavTypes
<1>2. NavTypes'
  BY <1>0 DEF SessionInv, NavTypes
<1>3. CommandsInv'
  BY <1>0, SameCommands
<1>4. InTurn'
  BY <1>0, TurnKept DEF SessionInv, NavInv
<1>10. sessionShown.gen \in 1..(MaxNavs + 1) /\ sessionShown.gen <= n
  BY <1>0 DEF SessionInv, ShownTypes, NavInv, GensCount
<1>11. sessionShown.gen + 1 \in 1..(MaxNavs + 1)
  BY <1>10, NavNumbers
<1>12. sessionShown' = sessionShown
       \/ sessionShown' = [sessionShown EXCEPT !.loading = TRUE, !.gen = sessionShown.gen + 1]
  BY DEF Session!NavGo, Session!Show
<1>13. /\ sessionShown' \in [path : SomeDirs, loading : BOOLEAN, gen : 1..(MaxNavs + 1),
                            status : {"connecting", "connected", "failed"}]
       /\ sessionShown'.path = sessionShown.path /\ sessionShown'.status = sessionShown.status
       /\ sessionShown'.gen \in {sessionShown.gen, sessionShown.gen + 1}
  BY <1>11, <1>12 DEF SessionInv, ShownTypes
<1>5. GensCount'
  <2>1. ASSUME NEW m \in Session!Navs, nav'[m] \in {"new", "waiting"}
        PROVE  sessionShown'.gen <= m
    <3>1. m # n /\ ~(m < n)
      BY <1>0, <1>1, <2>1
    <3> QED
      BY <1>10, <1>13, <3>1, NavNumbers
  <2> QED
    BY <2>1 DEF GensCount
<1>6. GoalsSet' /\ SavingIsShown' /\ ConnectsFirst' /\ PathIsDir' /\ OverIsFailed'
  BY <1>0, <1>1, <1>13 DEF SessionInv, NavInv, GoalsSet, SavingIsShown, ConnectsFirst,
     PathIsDir, OverIsFailed
<1>7. Session!LoadingIsExplained' /\ Session!SavedIsShown'
  BY <1>0, <1>1, <1>13 DEF SessionInv, NavInv, Session!LoadingIsExplained, Session!SavedIsShown
<1> QED
  BY <1>0, <1>2, <1>3, <1>4, <1>5, <1>6, <1>7, <1>13, CallerFrame DEF NavInv

\* A command is put in the channel.
LEMMA AppendKeeps ==
  ASSUME CommandsInv, NEW c \in Commands, chan' = Append(chan, c), UNCHANGED loop,
         loop.at # "over", sessionOpen' => sessionOpen,
         \A n \in Session!Navs : nav[n] = "sent" => nav'[n] = "sent",
         \A t \in Transfers : xfer[t].at = "queued" => xfer'[t].at = "queued",
         c.op = "navigate" => nav[c.n] # "sent" /\ nav'[c.n] = "sent",
         c.op = "transfer" => xfer[c.t].at # "queued" /\ xfer'[c.t].at = "queued",
         c.op = "disconnect" => ~sessionOpen'
  PROVE  CommandsInv'
<1>0. chan \in Seq(Commands) /\ Len(chan) \in Nat
  BY LenProperties DEF CommandsInv
<1>1. /\ chan' \in Seq(Commands) /\ Len(chan') = Len(chan) + 1
      /\ \A i \in 1..Len(chan) : chan'[i] = chan[i]
      /\ chan'[Len(chan) + 1] = c
  BY <1>0, AppendProperties
<1>2. \A i \in 1..Len(chan') : (i \in 1..Len(chan) /\ chan'[i] = chan[i])
                               \/ (i = Len(chan) + 1 /\ chan'[i] = c)
  BY <1>0, <1>1
<1>3. \A i \in 1..Len(chan) : /\ chan[i] \in Commands
                              /\ chan[i].op = "navigate" => nav[chan[i].n] = "sent"
                              /\ chan[i].op = "transfer" => xfer[chan[i].t].at = "queued"
                              /\ chan[i].op = "disconnect" => ~sessionOpen
  BY CommandsTyped DEF CommandsInv, CommandsWait
<1>4. CommandsWait'
  <2> SUFFICES ASSUME NEW i \in 1..Len(chan')
               PROVE  /\ chan'[i].op = "navigate" => nav'[chan'[i].n] = "sent"
                      /\ chan'[i].op = "transfer" => xfer'[chan'[i].t].at = "queued"
                      /\ chan'[i].op = "disconnect" => ~sessionOpen'
    BY DEF CommandsWait
  <2>1. CASE i \in 1..Len(chan) /\ chan'[i] = chan[i]
    BY <1>3, <2>1, CommandKinds
  <2>2. CASE chan'[i] = c
    BY <2>2
  <2> QED
    BY <1>2, <2>1, <2>2
<1>5. CommandsApart'
  <2> SUFFICES ASSUME NEW i \in 1..Len(chan'), NEW j \in 1..Len(chan'), i # j
               PROVE  /\ chan'[i].op = "navigate" /\ chan'[j].op = "navigate" =>
                           chan'[i].n # chan'[j].n
                      /\ chan'[i].op = "transfer" /\ chan'[j].op = "transfer" =>
                           chan'[i].t # chan'[j].t
    BY DEF CommandsApart
  <2>1. CASE i \in 1..Len(chan) /\ j \in 1..Len(chan)
    BY <1>1, <2>1 DEF CommandsInv, CommandsApart
  <2>2. CASE i \in 1..Len(chan) /\ j = Len(chan) + 1
    BY <1>1, <1>3, <2>2
  <2>3. CASE j \in 1..Len(chan) /\ i = Len(chan) + 1
    BY <1>1, <1>3, <2>3
  <2> QED
    BY <1>2, <2>1, <2>2, <2>3
<1>6. InHandWaits'
  <2>1. ASSUME loop.at = "navigate"
        PROVE  /\ loop.cmd \in [op : {"navigate"}, n : Session!Navs]
               /\ nav'[loop.cmd.n] = "sent"
               /\ \A i \in 1..Len(chan') : chan'[i].op = "navigate" => chan'[i].n # loop.cmd.n
    BY <1>2, <2>1 DEF CommandsInv, InHandWaits
  <2>2. ASSUME loop.at = "starting"
        PROVE  /\ loop.cmd \in [op : {"transfer"}, t : Transfers]
               /\ xfer'[loop.cmd.t].at = "queued"
               /\ \A i \in 1..Len(chan') : chan'[i].op = "transfer" => chan'[i].t # loop.cmd.t
    BY <1>2, <2>2 DEF CommandsInv, InHandWaits
  <2> QED
    BY <2>1, <2>2 DEF InHandWaits
<1>7. LoopEnds'
  BY DEF CommandsInv, LoopEnds
<1> QED
  BY <1>1, <1>4, <1>5, <1>6, <1>7 DEF CommandsInv

LEMMA NavSendKeeps ==
  ASSUME SessionInv, NEW n \in Session!Navs, Session!NavSend(n)
  PROVE  SessionInv'
<1>0. /\ UNCHANGED <<sessionOpen, sessionShown, cancelled, xfer, goal, sessionSaved, registered,
                     loop, content, closing>>
      /\ nav[n] = "loading" /\ nav' = [nav EXCEPT ![n] = "sent"] /\ loop.at # "over"
      /\ chan' = Append(chan, [op |-> "navigate", n |-> n])
  BY DEF Session!NavSend
<1>1. \A m \in Session!Navs : nav'[m] = IF m = n THEN "sent" ELSE nav[m]
  BY <1>0 DEF SessionInv, NavTypes
<1>2. NavTypes'
  BY <1>0 DEF SessionInv, NavTypes
<1>3. CommandsInv'
  <2> DEFINE c == [op |-> "navigate", n |-> n]
  <2>1. c \in Commands /\ c.op = "navigate" /\ c.n = n
    BY CommandKinds
  <2>2. chan' = Append(chan, c)
    BY <1>0
  <2> HIDE DEF c
  <2> QED
    BY <1>0, <1>1, <2>1, <2>2, AppendKeeps DEF SessionInv
<1>4. InTurn'
  BY <1>0, TurnKept DEF SessionInv, NavInv
<1>5. GensCount' /\ GoalsSet' /\ SavingIsShown' /\ ConnectsFirst' /\ PathIsDir' /\ OverIsFailed'
  BY <1>0, <1>1 DEF SessionInv, NavInv, GensCount, GoalsSet, SavingIsShown, ConnectsFirst,
     PathIsDir, OverIsFailed
<1>6. Session!LoadingIsExplained' /\ Session!SavedIsShown'
  BY <1>0, <1>1 DEF SessionInv, NavInv, Session!LoadingIsExplained, Session!SavedIsShown
<1> QED
  BY <1>0, <1>2, <1>3, <1>4, <1>5, <1>6, CallerFrame DEF NavInv, SessionInv, ShownTypes

LEMMA NavRefusedKeeps ==
  ASSUME SessionInv, NEW n \in Session!Navs, Session!NavRefused(n)
  PROVE  SessionInv'
<1>0. /\ UNCHANGED <<sessionOpen, sessionShown, cancelled, xfer, goal, sessionSaved, registered,
                     chan, loop, content, closing>>
      /\ nav' = [nav EXCEPT ![n] = "error"]
      /\ \/ nav[n] = "waiting" /\ \A m \in Session!Navs : m < n => nav[m] \in {"done", "error"}
         \/ nav[n] \in {"loading", "sent"} /\ loop.at = "over"
  BY GrantedFacts DEF Session!NavRefused
<1>1. \A m \in Session!Navs : nav'[m] = IF m = n THEN "error" ELSE nav[m]
  BY <1>0 DEF SessionInv, NavTypes
<1>2. NavTypes'
  BY <1>0 DEF SessionInv, NavTypes
<1>3. CommandsInv'
  BY <1>0, SameCommands
<1>4. InTurn'
  BY <1>0, TurnKept DEF SessionInv, NavInv
<1>5. GensCount' /\ GoalsSet' /\ SavingIsShown' /\ ConnectsFirst' /\ PathIsDir' /\ OverIsFailed'
  BY <1>0, <1>1 DEF SessionInv, NavInv, GensCount, GoalsSet, SavingIsShown, ConnectsFirst,
     PathIsDir, OverIsFailed
<1>6. Session!LoadingIsExplained'
  BY <1>0, <1>1 DEF SessionInv, NavInv, OverIsFailed, Session!LoadingIsExplained
<1>7. Session!SavedIsShown'
  BY <1>0, <1>1 DEF SessionInv, NavInv, Session!SavedIsShown
<1> QED
  BY <1>0, <1>2, <1>3, <1>4, <1>5, <1>6, <1>7, CallerFrame DEF NavInv, SessionInv, ShownTypes

LEMMA NavSavesKeeps ==
  ASSUME SessionInv, NEW n \in Session!Navs, Session!NavSaved(n) \/ Session!NavUnsaved(n)
  PROVE  SessionInv'
<1>0. /\ UNCHANGED <<sessionOpen, sessionShown, cancelled, xfer, goal, registered,
                     chan, loop, content, closing>>
      /\ \/ nav' = [nav EXCEPT ![n] = "done"] /\ sessionSaved' = goal[n]
         \/ nav' = [nav EXCEPT ![n] = "error"] /\ sessionSaved' = sessionSaved
      /\ nav[n] = "saving"
  BY DEF Session!NavSaved, Session!NavUnsaved
<1>1. PICK w \in {"done", "error"} : nav' = [nav EXCEPT ![n] = w]
  BY <1>0
<1>8. \A m \in Session!Navs : nav'[m] = IF m = n THEN w ELSE nav[m]
  BY <1>1 DEF SessionInv, NavTypes
<1>2. NavTypes'
  BY <1>0, <1>1 DEF SessionInv, NavTypes
<1>3. CommandsInv'
  BY <1>0, <1>1, SameCommands
<1>4. InTurn'
  BY <1>0, <1>1, TurnKept DEF SessionInv, NavInv
<1>9. \A m \in Session!Navs : /\ m < n => nav[m] \in {"done", "error"}
                              /\ m # n /\ ~(m < n) => nav[m] \in {"new", "waiting"}
  BY <1>0, OneInTurn DEF SessionInv, NavInv
<1>5. GensCount' /\ GoalsSet' /\ SavingIsShown' /\ PathIsDir' /\ OverIsFailed'
  BY <1>0, <1>8 DEF SessionInv, NavInv, GensCount, GoalsSet, SavingIsShown,
     PathIsDir, OverIsFailed
<1>10. ConnectsFirst' /\ Session!LoadingIsExplained'
  BY <1>0, <1>8 DEF SessionInv, NavInv, ConnectsFirst, Session!LoadingIsExplained
<1>6. Session!SavedIsShown'
  <2> SUFFICES ASSUME NEW k \in Session!Navs, sessionOpen', nav'[k] = "done",
                      \A m \in Session!Navs : m > k => nav'[m] \in {"new", "waiting"}
               PROVE  sessionSaved' = sessionShown'.path
    BY DEF Session!SavedIsShown
  <2>1. k = n
    <3>1. CASE k # n /\ k < n
      <4>1. n > k
        BY <3>1, NavNumbers
      <4> QED
        BY <1>8, <4>1
    <3>2. CASE k # n /\ ~(k < n)
      BY <1>8, <1>9, <3>2
    <3> QED
      BY <3>1, <3>2
  <2>2. sessionSaved' = goal[n]
    <3>1. nav'[n] # "error"
      BY <2>1
    <3> QED
      BY <1>0, <3>1 DEF SessionInv, NavTypes
  <2> QED
    BY <1>0, <2>2 DEF SessionInv, NavInv, SavingIsShown
<1> QED
  BY <1>0, <1>2, <1>3, <1>4, <1>5, <1>6, <1>10, CallerFrame DEF NavInv, SessionInv, ShownTypes

LEMMA CallersKeep ==
  ASSUME SessionInv, NEW n \in Session!Navs,
         Session!Caller(n) \/ \E d \in Dirs : Session!Navigate(n, d)
  PROVE  SessionInv'
BY NavigateKeeps, NavGoKeeps, NavSendKeeps, NavRefusedKeeps, NavSavesKeeps DEF Session!Caller

\* A transfer that has no task is queued, started or skipped.
LEMMA QueueMoves ==
  ASSUME TransferTypes, TransfersInv, NEW t \in Transfers, NEW r \in TransferRecords,
         UNCHANGED <<sessionOpen, cancelled, content, closing>>, xfer' = [xfer EXCEPT ![t] = r],
         \/ xfer[t].at = "new" /\ r.at = "queued" /\ r.key \in Dirs
         \/ /\ xfer[t].at = "queued" /\ r.at \in {"lock", "over"}
            /\ r.key = xfer[t].key /\ r.kind = xfer[t].kind,
         r.late = xfer[t].late \/ r.late = 0,
         loop'.at \in {"connecting", "over"} => loop'.at = loop.at,
         loop.at = "over" => loop'.at = "over",
         r.at = "lock" => loop.at \notin {"connecting", "over"}
  PROVE  TransferTypes' /\ TransfersInv'
<1>0. /\ \A u \in Transfers : xfer'[u] = IF u = t THEN r ELSE xfer[u]
      /\ xfer' \in [Transfers -> TransferRecords]
  BY DEF TransferTypes
<1>1. TransferTypes'
  BY <1>0 DEF TransferTypes
<1>2. Exclusive' /\ KeysAreDirs' /\ NewHasNoStatus' /\ NothingYet'
  <2>1. r.at \in Session!Unlocked /\ r.at # "new"
    BY DEF Session!Unlocked, Session!Ends
  <2> QED
    BY <1>0, <2>1 DEF TransfersInv, Exclusive, KeysAreDirs, NewHasNoStatus, NothingYet
<1>3. OwnData'
  <2>1. ASSUME NEW u \in Transfers, u # t, Alone(u)'
        PROVE  Alone(u) /\ Session!Target(u)' = Session!Target(u) /\ xfer'[u] = xfer[u]
    <3>1. xfer'[u] = xfer[u]
      BY <1>0, <2>1
    <3>2. \A v \in Transfers : xfer[v].at # "new" =>
                                 xfer'[v].at # "new" /\ xfer'[v].key = xfer[v].key
      BY <1>0
    <3> QED
      BY <2>1, <3>1, <3>2 DEF Alone, Session!Target
  <2>2. r.at \notin {"copy", "write", "tail", "finish", "judge", "done"}
    OBVIOUS
  <2> QED
    BY <1>0, <2>1, <2>2 DEF TransfersInv, OwnData
<1>4. LateStops'
  BY <1>0 DEF TransfersInv, LateStops
<1>5. QuietEnds'
  <2>1. r.at # "lock" /\ Quiet => Quiet'
    BY <1>0 DEF Quiet, Session!Running, Session!Ends
  <2>2. CASE r.at # "lock"
    BY <2>1, <2>2 DEF TransfersInv, QuietEnds
  <2>3. CASE r.at = "lock"
    BY <2>3 DEF TransfersInv, QuietEnds
  <2> QED
    BY <2>2, <2>3
<1> QED
  BY <1>1, <1>2, <1>3, <1>4, <1>5 DEF TransfersInv

LEMMA AddKeeps ==
  ASSUME SessionInv, NEW t \in Transfers, NEW k \in {"upload", "download"}, NEW d \in Dirs,
         Session!Ready, Session!Add(t, k, d)
  PROVE  SessionInv'
<1> DEFINE s == IF sessionOpen THEN "queued" ELSE "gone"
           r == [xfer[t] EXCEPT !.at = "queued", !.kind = k, !.key = d,
                                !.refresh = sessionShown.path, !.status = s]
           c == [op |-> "transfer", t |-> t]
<1>1. xfer[t] \in TransferRecords /\ xfer \in [Transfers -> TransferRecords]
  BY DEF SessionInv, TransferTypes
<1>2. /\ UNCHANGED <<sessionOpen, sessionShown, cancelled, nav, goal, sessionSaved, registered,
                     loop, content, closing>>
      /\ xfer[t].at = "new" /\ chan' = Append(chan, c)
      /\ xfer' = [xfer EXCEPT ![t] = r]
  BY DEF Session!Add
<1>3. s \in Statuses /\ "queued" \in Places /\ sessionShown.path \in SomeDirs /\ d \in SomeDirs
  BY StepNames DEF Statuses, Session!Cancellable, SessionInv, ShownTypes, SomeDirs
<1> HIDE DEF s
<1>4. r \in TransferRecords /\ r.at = "queued" /\ r.key = d /\ r.late = xfer[t].late
  BY <1>1, <1>3 DEF TransferRecords, Places, Statuses
<1>5. c \in Commands /\ c.op = "transfer" /\ c.t = t
  BY CommandKinds
<1> HIDE DEF r, c
<1>6. TransferTypes' /\ TransfersInv'
  BY <1>2, <1>4, QueueMoves DEF SessionInv
<1>7. xfer'[t].at = "queued" /\ \A u \in Transfers : u # t => xfer'[u] = xfer[u]
  BY <1>1, <1>2, <1>4
<1>8. CommandsInv'
  BY <1>2, <1>5, <1>7, AppendKeeps DEF SessionInv, Session!Ready
<1>9. NavInv' /\ NavTypes' /\ ShownTypes'
  <2>1. NavInv'
    BY <1>2, ShownStays, NavFrame DEF SessionInv, LoopGoesOn
  <2> QED
    BY <1>2, <2>1 DEF SessionInv, NavTypes, ShownTypes
<1> QED
  BY <1>6, <1>8, <1>9, SessionInvNext

LEMMA UsersKeep ==
  ASSUME SessionInv, NEW t \in Transfers,
         \/ Session!Upload(t) \/ Session!UploadWatched(t) \/ Session!Download(t)
         \/ \E u \in Transfers : Session!Retry(u, t)
  PROVE  SessionInv'
<1>0. Session!Ready /\ sessionOpen => sessionShown.path \in Dirs
  BY DEF Session!Ready, SessionInv, NavInv, PathIsDir
<1>1. CASE Session!Upload(t)
  BY <1>0, <1>1, AddKeeps DEF Session!Upload
<1>2. CASE Session!UploadWatched(t)
  BY <1>2, AddKeeps DEF Session!UploadWatched
<1>3. CASE Session!Download(t)
  BY <1>0, <1>3, AddKeeps DEF Session!Download
<1>4. ASSUME NEW u \in Transfers, Session!Retry(u, t) PROVE SessionInv'
  <2>1. xfer[u].at # "new" /\ xfer[u].kind \in {"upload", "download"}
    BY <1>4 DEF Session!Retry, SessionInv, TransfersInv, NewHasNoStatus, TransferTypes,
      TransferRecords
  <2>2. xfer[u].key \in Dirs
    BY <2>1 DEF SessionInv, TransfersInv, KeysAreDirs
  <2> QED
    BY <1>4, <2>1, <2>2, AddKeeps DEF Session!Retry
<1> QED
  BY <1>1, <1>2, <1>3, <1>4

LEMMA CancelKeeps ==
  ASSUME SessionInv, NEW t \in Transfers, Session!Cancel(t)
  PROVE  SessionInv'
<1> DEFINE r == [xfer[t] EXCEPT !.status = "cancelled"]
<1>1. xfer[t] \in TransferRecords /\ xfer \in [Transfers -> TransferRecords]
  BY DEF SessionInv, TransferTypes
<1>2. /\ UNCHANGED <<sessionOpen, sessionShown, nav, goal, sessionSaved, registered, chan,
                     loop, content, closing>>
      /\ cancelled' = cancelled \cup {t} /\ xfer' = [xfer EXCEPT ![t] = r]
      /\ xfer[t].status \in Session!Cancellable
  BY <1>1 DEF Session!Cancel
<1>3. r \in TransferRecords /\ r.at = xfer[t].at /\ r.late = xfer[t].late
      /\ r.kind = xfer[t].kind /\ r.key = xfer[t].key /\ r.status = "cancelled"
  BY <1>1, RecordStatus DEF Statuses
<1>10. xfer[t].at # "new"
  BY <1>2 DEF SessionInv, TransfersInv, NewHasNoStatus, Session!Cancellable
<1> HIDE DEF r
<1>4. \A u \in Transfers : /\ xfer'[u].at = xfer[u].at /\ xfer'[u].late = xfer[u].late
                           /\ xfer'[u].kind = xfer[u].kind /\ xfer'[u].key = xfer[u].key
                           /\ u # t => xfer'[u] = xfer[u]
  BY <1>1, <1>2, <1>3
<1>5. TransferTypes'
  BY <1>1, <1>2, <1>3 DEF SessionInv, TransferTypes
<1>6. CommandsInv'
  BY <1>2, <1>4, CommandsFrame DEF SessionInv
<1>7. NavInv' /\ NavTypes' /\ ShownTypes'
  <2>1. NavInv'
    BY <1>2, ShownStays, NavFrame DEF SessionInv, LoopGoesOn
  <2> QED
    BY <1>2, <2>1 DEF SessionInv, NavTypes, ShownTypes
<1>8. Exclusive' /\ KeysAreDirs' /\ NewHasNoStatus' /\ NothingYet' /\ LateStops'
  BY <1>2, <1>4, <1>10
  DEF SessionInv, TransfersInv, Exclusive, KeysAreDirs, NewHasNoStatus, NothingYet, LateStops
<1>9. OwnData' /\ QuietEnds'
  <2>1. \A u \in Transfers : (Alone(u)' <=> Alone(u)) /\ Session!Target(u)' = Session!Target(u)
    BY <1>4 DEF Alone, Session!Target
  <2>2. Quiet' <=> Quiet
    BY <1>4 DEF Quiet, Session!Running
  <2> QED
    BY <1>2, <1>4, <2>1, <2>2 DEF SessionInv, TransfersInv, OwnData, QuietEnds
<1> QED
  BY <1>5, <1>6, <1>7, <1>8, <1>9, SessionInvNext DEF TransfersInv

LEMMA DeleteKeeps ==
  ASSUME SessionInv, Session!Delete
  PROVE  SessionInv'
<1> DEFINE c == [op |-> "delete", dir |-> sessionShown.path]
<1>1. /\ UNCHANGED <<sessionOpen, sessionShown, cancelled, xfer, nav, goal, sessionSaved,
                     registered, loop, content, closing>>
      /\ chan' = Append(chan, c) /\ loop.at # "over"
  BY DEF Session!Delete, Session!Ready
<1>2. c \in Commands /\ c.op = "delete"
  BY CommandKinds DEF SessionInv, ShownTypes
<1> HIDE DEF c
<1>3. CommandsInv'
  BY <1>1, <1>2, AppendKeeps DEF SessionInv
<1>4. NavInv'
  BY <1>1, ShownStays, NavFrame DEF SessionInv, LoopGoesOn
<1>5. TransfersInv'
  BY <1>1, TransfersFrame DEF SessionInv
<1> QED
  BY <1>1, <1>3, <1>4, <1>5, SessionInvNext
  DEF SessionInv, NavTypes, ShownTypes, TransferTypes

LoopRecords == [at : {"connecting", "recv", "navigate", "starting", "delete", "joining", "over"},
                cmd : Works]

LEMMA OverKeeps ==
  ASSUME loop' = [at |-> "over", cmd |-> Session!NoWork], chan' = <<>>
  PROVE  CommandsInv' /\ loop'.at = "over"
<1>1. Session!NoWork \in Works
  BY DEF Works, Session!NoWork
<1>2. loop' \in LoopRecords /\ loop'.at = "over"
  BY <1>1 DEF LoopRecords
<1>3. chan' \in Seq(Commands) /\ Len(chan') = 0
  OBVIOUS
<1> QED
  BY <1>2, <1>3 DEF CommandsInv, CommandsWait, CommandsApart, InHandWaits, LoopEnds, LoopRecords

\* The session task takes a command.
LEMMA TakeKeeps ==
  ASSUME CommandsInv, loop.at = "recv", chan # <<>>, chan' = Tail(chan),
         UNCHANGED <<sessionOpen, nav>>, loop' \in LoopRecords, loop'.at # "over",
         loop'.at = "navigate" => loop'.cmd = Head(chan) /\ Head(chan).op = "navigate",
         loop'.at = "starting" => loop'.cmd = Head(chan) /\ Head(chan).op = "transfer"
                                  /\ UNCHANGED xfer,
         loop'.at = "joining" => Head(chan).op = "disconnect",
         \A t \in Transfers : xfer[t].at = "queued" =>
            xfer'[t].at = "queued" \/ (Head(chan).op = "transfer" /\ Head(chan).t = t)
  PROVE  CommandsInv'
<1>0. chan \in Seq(Commands) /\ Len(chan) \in Nat
  BY LenProperties DEF CommandsInv
<1>1. /\ chan' \in Seq(Commands) /\ Len(chan') = Len(chan) - 1 /\ Len(chan) > 0
      /\ \A i \in 1..Len(chan') : chan'[i] = chan[i + 1]
      /\ Head(chan) = chan[1]
  BY <1>0, HeadTailProperties, EmptySeq
<1>2. 1 \in 1..Len(chan) /\ \A i \in 1..Len(chan') : i + 1 \in 1..Len(chan) /\ i + 1 # 1
  BY <1>0, <1>1
<1>3. \A i \in 1..Len(chan) : /\ chan[i] \in Commands
                              /\ chan[i].op = "navigate" => nav[chan[i].n] = "sent"
                              /\ chan[i].op = "transfer" => xfer[chan[i].t].at = "queued"
                              /\ chan[i].op = "disconnect" => ~sessionOpen
  BY CommandsTyped DEF CommandsInv, CommandsWait
<1>4. \A i, j \in 1..Len(chan) : i # j =>
        /\ chan[i].op = "navigate" /\ chan[j].op = "navigate" => chan[i].n # chan[j].n
        /\ chan[i].op = "transfer" /\ chan[j].op = "transfer" => chan[i].t # chan[j].t
  BY DEF CommandsInv, CommandsApart
<1>5. CommandsWait'
  <2> SUFFICES ASSUME NEW i \in 1..Len(chan')
               PROVE  /\ chan'[i].op = "navigate" => nav'[chan'[i].n] = "sent"
                      /\ chan'[i].op = "transfer" => xfer'[chan'[i].t].at = "queued"
                      /\ chan'[i].op = "disconnect" => ~sessionOpen'
    BY DEF CommandsWait
  <2>1. chan'[i] = chan[i + 1] /\ i + 1 \in 1..Len(chan) /\ i + 1 # 1
    BY <1>1, <1>2
  <2>2. chan[i + 1].op = "transfer" => chan[i + 1].t \in Transfers
    BY <1>3, <2>1, CommandKinds
  <2>3. chan[i + 1].op = "transfer" /\ Head(chan).op = "transfer" => chan[i + 1].t # Head(chan).t
    BY <1>1, <1>2, <1>4, <2>1
  <2> QED
    BY <1>3, <2>1, <2>2, <2>3
<1>6. CommandsApart'
  <2> SUFFICES ASSUME NEW i \in 1..Len(chan'), NEW j \in 1..Len(chan'), i # j
               PROVE  /\ chan'[i].op = "navigate" /\ chan'[j].op = "navigate" =>
                           chan'[i].n # chan'[j].n
                      /\ chan'[i].op = "transfer" /\ chan'[j].op = "transfer" =>
                           chan'[i].t # chan'[j].t
    BY DEF CommandsApart
  <2>1. /\ chan'[i] = chan[i + 1] /\ i + 1 \in 1..Len(chan)
        /\ chan'[j] = chan[j + 1] /\ j + 1 \in 1..Len(chan) /\ i + 1 # j + 1
    BY <1>1, <1>2
  <2> QED
    BY <1>4, <2>1
<1>7. InHandWaits'
  <2>1. ASSUME loop'.at = "navigate"
        PROVE  /\ loop'.cmd \in [op : {"navigate"}, n : Session!Navs]
               /\ nav'[loop'.cmd.n] = "sent"
               /\ \A i \in 1..Len(chan') : chan'[i].op = "navigate" => chan'[i].n # loop'.cmd.n
    <3>1. loop'.cmd = chan[1] /\ chan[1].op = "navigate" /\ chan[1] \in Commands
      BY <1>1, <1>2, <1>3, <2>1
    <3>2. chan[1] \in [op : {"navigate"}, n : Session!Navs]
      BY <3>1 DEF Commands
    <3>3. nav'[chan[1].n] = "sent"
      BY <1>2, <1>3, <3>1
    <3>4. ASSUME NEW i \in 1..Len(chan'), chan'[i].op = "navigate"
          PROVE  chan'[i].n # chan[1].n
      BY <1>1, <1>2, <1>4, <3>1, <3>4
    <3> QED
      BY <3>1, <3>2, <3>3, <3>4
  <2>2. ASSUME loop'.at = "starting"
        PROVE  /\ loop'.cmd \in [op : {"transfer"}, t : Transfers]
               /\ xfer'[loop'.cmd.t].at = "queued"
               /\ \A i \in 1..Len(chan') : chan'[i].op = "transfer" => chan'[i].t # loop'.cmd.t
    <3>1. loop'.cmd = chan[1] /\ chan[1].op = "transfer" /\ chan[1] \in Commands
      BY <1>1, <1>2, <1>3, <2>2
    <3>2. chan[1] \in [op : {"transfer"}, t : Transfers]
      BY <3>1 DEF Commands
    <3>3. xfer'[chan[1].t].at = "queued"
      BY <1>2, <1>3, <2>2, <3>1
    <3>4. ASSUME NEW i \in 1..Len(chan'), chan'[i].op = "transfer"
          PROVE  chan'[i].t # chan[1].t
      BY <1>1, <1>2, <1>4, <3>1, <3>4
    <3> QED
      BY <3>1, <3>2, <3>3, <3>4
  <2> QED
    BY <2>1, <2>2 DEF InHandWaits
<1>8. LoopEnds'
  BY <1>1, <1>2, <1>3 DEF LoopEnds
<1> QED
  BY <1>1, <1>5, <1>6, <1>7, <1>8 DEF CommandsInv, LoopRecords

\* It has done with the command.
LEMMA BackKeeps ==
  ASSUME CommandsInv, loop' = [at |-> "recv", cmd |-> Session!NoWork],
         loop.at \in {"navigate", "starting", "delete"},
         UNCHANGED <<chan, sessionOpen>>,
         \A n \in Session!Navs : nav[n] = "sent" =>
            nav'[n] = "sent" \/ (loop.at = "navigate" /\ loop.cmd.n = n),
         \A t \in Transfers : xfer[t].at = "queued" =>
            xfer'[t].at = "queued" \/ (loop.at = "starting" /\ loop.cmd.t = t)
  PROVE  CommandsInv' /\ loop'.at = "recv"
<1>1. Session!NoWork \in Works
  BY DEF Works, Session!NoWork
<1>2. loop' \in LoopRecords /\ loop'.at = "recv"
  BY <1>1 DEF LoopRecords
<1>3. \A i \in 1..Len(chan) : chan[i] \in Commands
  BY CommandsTyped
<1>4. CommandsWait'
  <2> SUFFICES ASSUME NEW i \in 1..Len(chan)
               PROVE  /\ chan[i].op = "navigate" => nav'[chan[i].n] = "sent"
                      /\ chan[i].op = "transfer" => xfer'[chan[i].t].at = "queued"
                      /\ chan[i].op = "disconnect" => ~sessionOpen'
    BY DEF CommandsWait
  <2>1. ASSUME chan[i].op = "navigate" PROVE nav'[chan[i].n] = "sent"
    BY <1>3, <2>1, CommandKinds DEF CommandsInv, CommandsWait, InHandWaits
  <2>2. ASSUME chan[i].op = "transfer" PROVE xfer'[chan[i].t].at = "queued"
    BY <1>3, <2>2, CommandKinds DEF CommandsInv, CommandsWait, InHandWaits
  <2> QED
    BY <2>1, <2>2 DEF CommandsInv, CommandsWait
<1> QED
  BY <1>2, <1>4 DEF CommandsInv, CommandsApart, InHandWaits, LoopEnds, LoopRecords

LEMMA ConnectKeeps ==
  ASSUME SessionInv, Session!Connect
  PROVE  SessionInv'
<1>1. /\ UNCHANGED <<sessionOpen, cancelled, xfer, nav, goal, sessionSaved, registered, chan,
                     content, closing>>
      /\ loop.at = "connecting" /\ loop' \in LoopRecords /\ loop'.at = "recv"
  BY DEF Session!Connect, SessionInv, CommandsInv, LoopRecords
<1>2. sessionOpen => sessionShown' = [sessionShown EXCEPT !.path = InitialDir,
                                        !.loading = FALSE, !.status = "connected"]
  BY DEF Session!Connect, Session!Show
<1>3. ~sessionOpen => sessionShown' = sessionShown
  BY DEF Session!Connect, Session!Show
<1>4. /\ sessionShown' \in [path : SomeDirs, loading : BOOLEAN, gen : 1..(MaxNavs + 1),
                            status : {"connecting", "connected", "failed"}]
      /\ sessionShown'.gen = sessionShown.gen
      /\ sessionOpen => sessionShown'.path = InitialDir /\ ~sessionShown'.loading
  <2>1. InitialDir \in SomeDirs
    BY SessionAssumption DEF SomeDirs
  <2> QED
    BY <1>2, <1>3, <2>1 DEF SessionInv, ShownTypes
<1>5. NavInv'
  <2>1. InTurn' /\ GensCount' /\ GoalsSet' /\ SavingIsShown'
    BY <1>1, <1>4 DEF SessionInv, NavInv, InTurn, GensCount, GoalsSet, SavingIsShown, ConnectsFirst
  <2>2. ConnectsFirst' /\ PathIsDir' /\ OverIsFailed'
    BY <1>1, <1>4, SessionAssumption DEF ConnectsFirst, PathIsDir, OverIsFailed
  <2>3. Session!LoadingIsExplained' /\ Session!SavedIsShown'
    BY <1>1, <1>4
    DEF SessionInv, NavInv, ConnectsFirst, Session!LoadingIsExplained, Session!SavedIsShown
  <2> QED
    BY <2>1, <2>2, <2>3 DEF NavInv
<1>6. CommandsInv'
  BY <1>1 DEF SessionInv, CommandsInv, CommandsWait, CommandsApart, InHandWaits, LoopEnds,
    LoopRecords
<1>7. TransfersInv'
  BY <1>1, TransfersFrame DEF SessionInv
<1> QED
  BY <1>1, <1>4, <1>5, <1>6, <1>7, SessionInvNext
  DEF SessionInv, ShownTypes, NavTypes, TransferTypes

LEMMA ConnectFailsKeeps ==
  ASSUME SessionInv, Session!ConnectFails
  PROVE  SessionInv'
<1>1. /\ UNCHANGED <<sessionOpen, cancelled, xfer, nav, goal, sessionSaved, registered,
                     content, closing>>
      /\ loop.at = "connecting" /\ CommandsInv' /\ loop'.at = "over"
  BY OverKeeps DEF Session!ConnectFails
<1>2. sessionOpen => sessionShown' = [sessionShown EXCEPT !.loading = FALSE, !.status = "failed"]
  BY DEF Session!ConnectFails, Session!Show
<1>3. ~sessionOpen => sessionShown' = sessionShown
  BY DEF Session!ConnectFails, Session!Show
<1>4. /\ sessionShown' \in [path : SomeDirs, loading : BOOLEAN, gen : 1..(MaxNavs + 1),
                            status : {"connecting", "connected", "failed"}]
      /\ sessionShown'.gen = sessionShown.gen /\ sessionShown'.path = sessionShown.path
      /\ sessionOpen => sessionShown'.status = "failed"
  BY <1>2, <1>3 DEF SessionInv, ShownTypes
<1>5. NavInv'
  <2>1. InTurn' /\ GensCount' /\ GoalsSet' /\ SavingIsShown'
    BY <1>1, <1>4 DEF SessionInv, NavInv, InTurn, GensCount, GoalsSet, SavingIsShown
  <2>2. ConnectsFirst' /\ PathIsDir' /\ OverIsFailed'
    BY <1>1, <1>4 DEF ConnectsFirst, PathIsDir, OverIsFailed
  <2>3. Session!LoadingIsExplained' /\ Session!SavedIsShown'
    BY <1>1, <1>4 DEF SessionInv, NavInv, Session!LoadingIsExplained, Session!SavedIsShown
  <2> QED
    BY <2>1, <2>2, <2>3 DEF NavInv
<1>7. TransfersInv'
  <2>1. Quiet
    BY <1>1 DEF SessionInv, TransfersInv, QuietEnds
  <2> QED
    BY <1>1, <2>1, TransfersFrame DEF SessionInv
<1> QED
  BY <1>1, <1>4, <1>5, <1>7, SessionInvNext DEF SessionInv, ShownTypes, NavTypes, TransferTypes

\* The command that is taken is all that changes.
LEMMA TakesKeep ==
  ASSUME SessionInv,
         \/ Session!TakeNavigate \/ Session!TakeTransfer \/ Session!TakeDelete
         \/ Session!TakeDisconnect
  PROVE  SessionInv'
<1>1. /\ UNCHANGED <<sessionOpen, sessionShown, cancelled, xfer, nav, goal, sessionSaved,
                     registered, content, closing>>
      /\ loop.at = "recv" /\ chan # <<>> /\ chan' = Tail(chan)
  BY DEF Session!TakeNavigate, Session!TakeTransfer, Session!TakeDelete, Session!TakeDisconnect,
         Session!Next1
<1>2. Head(chan) \in Commands /\ Head(chan) \in Works
  <2>1. chan \in Seq(Commands)
    BY DEF SessionInv, CommandsInv
  <2> QED
    BY <1>1, <2>1, HeadTailProperties DEF Works
<1>3. \/ loop' = [at |-> "navigate", cmd |-> Head(chan)] /\ Head(chan).op = "navigate"
      \/ loop' = [at |-> "starting", cmd |-> Head(chan)] /\ Head(chan).op = "transfer"
      \/ loop' = [at |-> "joining", cmd |-> Session!NoWork] /\ Head(chan).op = "disconnect"
      \/ /\ loop' = [at |-> "delete",
                     cmd |-> [op |-> "delete", dir |-> Head(chan).dir,
                              gen |-> Session!GenOf(Head(chan).dir)]]
         /\ Head(chan).op = "delete"
  BY DEF Session!TakeNavigate, Session!TakeTransfer, Session!TakeDelete, Session!TakeDisconnect,
         Session!Next1
<1>4. Session!NoWork \in Works
  BY DEF Works, Session!NoWork
<1>5. Head(chan).op = "delete" =>
        [op |-> "delete", dir |-> Head(chan).dir, gen |-> Session!GenOf(Head(chan).dir)] \in Works
  BY <1>2, CommandKinds, GenTyped DEF Works, SessionInv
<1>6. /\ loop' \in LoopRecords /\ loop'.at \notin {"over", "connecting"}
      /\ loop'.at = "navigate" => loop'.cmd = Head(chan) /\ Head(chan).op = "navigate"
      /\ loop'.at = "starting" => loop'.cmd = Head(chan) /\ Head(chan).op = "transfer"
      /\ loop'.at = "joining" => Head(chan).op = "disconnect"
  <2>1. \A w \in Works, a \in {"navigate", "starting", "joining", "delete"} :
          [at |-> a, cmd |-> w] \in LoopRecords
    BY DEF LoopRecords
  <2>2. \E w \in Works, a \in {"navigate", "starting", "joining", "delete"} :
          /\ loop' = [at |-> a, cmd |-> w]
          /\ a \in {"navigate", "starting"} => w = Head(chan)
          /\ a = "navigate" => Head(chan).op = "navigate"
          /\ a = "starting" => Head(chan).op = "transfer"
          /\ a = "joining" => Head(chan).op = "disconnect"
    <3>1. CASE Head(chan).op = "delete"
      BY <1>3, <1>5, <3>1
    <3>2. CASE Head(chan).op # "delete"
      BY <1>2, <1>3, <1>4, <3>2
    <3> QED
      BY <3>1, <3>2
  <2>3. PICK w \in Works, a \in {"navigate", "starting", "joining", "delete"} :
          /\ loop' = [at |-> a, cmd |-> w]
          /\ a \in {"navigate", "starting"} => w = Head(chan)
          /\ a = "navigate" => Head(chan).op = "navigate"
          /\ a = "starting" => Head(chan).op = "transfer"
          /\ a = "joining" => Head(chan).op = "disconnect"
    BY <2>2
  <2>4. loop' \in LoopRecords
    BY <2>1, <2>3
  <2>5. loop'.at = a /\ loop'.cmd = w
    BY <2>3
  <2> QED
    BY <2>3, <2>4, <2>5
<1>7. CommandsInv'
  BY <1>1, <1>6, TakeKeeps DEF SessionInv
<1>8. NavInv'
  BY <1>1, <1>6, ShownStays, NavFrame DEF SessionInv, LoopGoesOn
<1>9. TransfersInv'
  BY <1>1, <1>6, TransfersFrame DEF SessionInv
<1> QED
  BY <1>1, <1>7, <1>8, <1>9, SessionInvNext DEF SessionInv, ShownTypes, NavTypes, TransferTypes

LEMMA SkipKeeps ==
  ASSUME SessionInv, Session!SkipCancelled
  PROVE  SessionInv'
<1> DEFINE t == Head(chan).t
           s == Session!Marked(t, "cancelled")
           record == [xfer[t] EXCEPT !.status = s]
           r == Session!Ended(record)
<1>1. /\ UNCHANGED <<sessionOpen, sessionShown, cancelled, nav, goal, sessionSaved, loop,
                     registered, content, closing>>
      /\ loop.at = "recv" /\ chan # <<>> /\ chan' = Tail(chan) /\ Head(chan).op = "transfer"
      /\ xfer' = [xfer EXCEPT ![t] = r]
  BY DEF Session!SkipCancelled, Session!Next1
<1>2. t \in Transfers /\ xfer[t].at = "queued"
  <2>1. chan \in Seq(Commands) /\ CommandsInv
    BY DEF SessionInv, CommandsInv
  <2>2. Head(chan) = chan[1] /\ 1 \in 1..Len(chan)
    <3>1. Len(chan) \in Nat /\ Len(chan) # 0
      BY <1>1, <2>1, LenProperties, EmptySeq
    <3> QED
      BY <1>1, <2>1, <3>1, HeadTailProperties
  <2>3. chan[1] \in Commands
    BY <2>1, <2>2, CommandsTyped
  <2> QED
    BY <1>1, <2>1, <2>2, <2>3, CommandKinds DEF CommandsInv, CommandsWait
<1> HIDE DEF t
<1>3. xfer[t] \in TransferRecords /\ xfer \in [Transfers -> TransferRecords]
  BY <1>2 DEF SessionInv, TransferTypes
<1>4. s \in Statuses
  BY <1>3 DEF TransferRecords, Statuses, Session!Marked, Session!Cancellable
<1> HIDE DEF s
<1>5. record \in TransferRecords /\ record.kind = xfer[t].kind /\ record.key = xfer[t].key
  BY <1>3, <1>4, RecordStatus
<1> HIDE DEF record
<1>6. /\ r \in TransferRecords /\ r.kind = xfer[t].kind /\ r.key = xfer[t].key
      /\ r.at = "over" /\ r.late = 0
  BY <1>5, RecordEnded
<1> HIDE DEF r
<1>7. TransferTypes' /\ TransfersInv'
  BY <1>1, <1>2, <1>6, QueueMoves DEF SessionInv
<1>8. CommandsInv'
  <2>1. loop' \in LoopRecords /\ loop'.at = "recv"
    BY <1>1 DEF SessionInv, CommandsInv, LoopRecords
  <2>2. \A u \in Transfers : xfer[u].at = "queued" =>
          xfer'[u].at = "queued" \/ (Head(chan).op = "transfer" /\ Head(chan).t = u)
    BY <1>1, <1>3 DEF t
  <2> QED
    BY <1>1, <2>1, <2>2, TakeKeeps DEF SessionInv
<1>9. NavInv' /\ NavTypes' /\ ShownTypes'
  <2>1. NavInv'
    BY <1>1, ShownStays, NavFrame DEF SessionInv, LoopGoesOn
  <2> QED
    BY <1>1, <2>1 DEF SessionInv, NavTypes, ShownTypes
<1> QED
  BY <1>7, <1>8, <1>9, SessionInvNext

LEMMA StartKeeps ==
  ASSUME SessionInv, Session!Start
  PROVE  SessionInv'
<1> DEFINE t == loop.cmd.t
           s == Session!Marked(t, "scanning")
           r == [xfer[t] EXCEPT !.at = "lock", !.status = s]
<1>2. t \in Transfers /\ xfer[t].at = "queued"
  BY DEF Session!Start, SessionInv, CommandsInv, InHandWaits
<1>3. xfer[t] \in TransferRecords /\ xfer \in [Transfers -> TransferRecords]
  BY <1>2 DEF SessionInv, TransferTypes
<1>1. /\ UNCHANGED <<sessionOpen, sessionShown, cancelled, nav, goal, sessionSaved, chan,
                     registered, content, closing>>
      /\ loop.at = "starting" /\ loop' = [at |-> "recv", cmd |-> Session!NoWork]
      /\ xfer' = [xfer EXCEPT ![t] = r]
  BY <1>2, <1>3 DEF Session!Start
<1>4. s \in Statuses /\ "lock" \in Places
  BY <1>3, StepNames DEF TransferRecords, Statuses, Session!Marked, Session!Cancellable
<1> HIDE DEF s
<1>10. \A u \in Transfers : xfer[u].at = "queued" =>
         xfer'[u].at = "queued" \/ (loop.at = "starting" /\ loop.cmd.t = u)
  BY <1>1, <1>3
<1> HIDE DEF t
<1>6. /\ r \in TransferRecords /\ r.kind = xfer[t].kind /\ r.key = xfer[t].key
      /\ r.at = "lock" /\ r.late = xfer[t].late
  BY <1>3, <1>4 DEF TransferRecords, Places, Statuses
<1> HIDE DEF r
<1>8. CommandsInv' /\ loop'.at = "recv"
  BY <1>1, <1>10, BackKeeps DEF SessionInv
<1>7. TransferTypes' /\ TransfersInv'
  BY <1>1, <1>2, <1>6, <1>8, QueueMoves DEF SessionInv
<1>9. NavInv' /\ NavTypes' /\ ShownTypes'
  <2>1. NavInv'
    BY <1>1, <1>8, ShownStays, NavFrame DEF SessionInv, LoopGoesOn
  <2> QED
    BY <1>1, <2>1 DEF SessionInv, NavTypes, ShownTypes
<1> QED
  BY <1>7, <1>8, <1>9, SessionInvNext

LEMMA DeleteEndsKeeps ==
  ASSUME SessionInv, Session!DeleteEnds
  PROVE  SessionInv'
<1>1. /\ UNCHANGED <<sessionOpen, cancelled, xfer, nav, goal, sessionSaved, registered, chan,
                     content, closing>>
      /\ loop.at = "delete" /\ loop' = [at |-> "recv", cmd |-> Session!NoWork]
  BY DEF Session!DeleteEnds
<1>2. ShownSettles
  <2>1. sessionShown' = sessionShown
        \/ sessionShown' = [sessionShown EXCEPT !.loading = FALSE]
    BY DEF Session!DeleteEnds, Session!Show
  <2> QED
    BY <2>1 DEF SessionInv, ShownTypes, ShownSettles
<1>3. CommandsInv' /\ loop'.at = "recv"
  BY <1>1, BackKeeps DEF SessionInv
<1>4. NavInv'
  BY <1>1, <1>2, <1>3, NavFrame DEF SessionInv, LoopGoesOn
<1>5. TransfersInv'
  BY <1>1, <1>3, TransfersFrame DEF SessionInv
<1> QED
  BY <1>1, <1>2, <1>3, <1>4, <1>5, SessionInvNext
  DEF SessionInv, ShownTypes, ShownSettles, NavTypes, TransferTypes

LEMMA NavigateEndsKeeps ==
  ASSUME SessionInv, Session!NavigateEnds \/ Session!NavigateFails
  PROVE  SessionInv'
<1> DEFINE n == loop.cmd.n
<1>1. n \in Session!Navs /\ nav[n] = "sent" /\ loop.at = "navigate" /\ goal[n] \in Dirs
  BY DEF Session!NavigateEnds, Session!NavigateFails, SessionInv, CommandsInv, InHandWaits,
     NavInv, GoalsSet
<1>2. /\ UNCHANGED <<sessionOpen, cancelled, xfer, goal, sessionSaved, registered, chan,
                     content, closing>>
      /\ loop' = [at |-> "recv", cmd |-> Session!NoWork]
      /\ ~sessionOpen => sessionShown' = sessionShown
      /\ \/ /\ nav' = [nav EXCEPT ![n] = "saving"]
            /\ sessionOpen =>
                 sessionShown' = [sessionShown EXCEPT !.path = goal[n], !.loading = FALSE]
         \/ /\ nav' = [nav EXCEPT ![n] = "error"]
            /\ sessionOpen => sessionShown' = [sessionShown EXCEPT !.loading = FALSE]
  BY DEF Session!NavigateEnds, Session!NavigateFails, Session!Show
<1>12. \A m \in Session!Navs : m = n <=> m = loop.cmd.n
  OBVIOUS
<1> HIDE DEF n
<1>3. PICK v \in {"saving", "error"} :
        /\ nav' = [nav EXCEPT ![n] = v]
        /\ v = "saving" => (sessionOpen =>
             sessionShown' = [sessionShown EXCEPT !.path = goal[n], !.loading = FALSE])
        /\ v = "error" => (sessionOpen => sessionShown' = [sessionShown EXCEPT !.loading = FALSE])
  BY <1>2
<1>4. \A m \in Session!Navs : nav'[m] = IF m = n THEN v ELSE nav[m]
  BY <1>3 DEF SessionInv, NavTypes
<1>5. NavTypes'
  BY <1>1, <1>2, <1>3 DEF SessionInv, NavTypes
<1>6. /\ sessionShown' \in [path : SomeDirs, loading : BOOLEAN, gen : 1..(MaxNavs + 1),
                            status : {"connecting", "connected", "failed"}]
      /\ sessionShown'.gen = sessionShown.gen
      /\ sessionOpen => ~sessionShown'.loading
      /\ sessionOpen /\ v = "saving" => sessionShown'.path = goal[n]
      /\ sessionOpen /\ v = "error" => sessionShown'.path = sessionShown.path
  BY <1>1, <1>2, <1>3 DEF SessionInv, ShownTypes, SomeDirs
<1>7. CommandsInv' /\ loop'.at = "recv"
  <2>1. \A m \in Session!Navs : nav[m] = "sent" =>
          nav'[m] = "sent" \/ (loop.at = "navigate" /\ loop.cmd.n = m)
    BY <1>1, <1>4, <1>12
  <2> QED
    BY <1>1, <1>2, <2>1, BackKeeps DEF SessionInv
<1>8. \A m \in Session!Navs : m # n =>
        (m < n /\ nav[m] \in {"done", "error"}) \/ (m > n /\ nav[m] \in {"new", "waiting"})
  <2>1. ASSUME NEW m \in Session!Navs, m # n
        PROVE  (m < n /\ nav[m] \in {"done", "error"}) \/ (m > n /\ nav[m] \in {"new", "waiting"})
    <3>1. m < n \/ m > n
      BY <1>1, <2>1, NavNumbers
    <3>2. m > n => ~(m < n)
      BY <1>1, <2>1, NavNumbers
    <3> QED
      BY <1>1, <2>1, <3>1, <3>2, OneInTurn DEF SessionInv, NavInv
  <2> QED
    BY <2>1
<1>9. NavInv'
  <2>1. InTurn'
    BY <1>1, <1>3, TurnKept DEF SessionInv, NavInv
  <2>2. GensCount' /\ GoalsSet'
    BY <1>1, <1>2, <1>4, <1>6 DEF SessionInv, NavInv, GensCount, GoalsSet
  <2>3. SavingIsShown'
    BY <1>2, <1>4, <1>6, <1>8 DEF SavingIsShown
  <2>4. ConnectsFirst' /\ OverIsFailed' /\ Session!LoadingIsExplained'
    BY <1>2, <1>6, <1>7 DEF ConnectsFirst, OverIsFailed, Session!LoadingIsExplained
  <2>5. PathIsDir'
    BY <1>1, <1>2, <1>6, <1>7 DEF SessionInv, NavInv, PathIsDir
  <2>6. Session!SavedIsShown'
    <3>1. ASSUME NEW k \in Session!Navs, nav'[k] = "done"
          PROVE  n > k /\ nav'[n] \notin {"new", "waiting"}
      <4>1. k # n /\ nav[k] = "done"
        BY <1>1, <1>4, <3>1
      <4>2. k < n
        BY <1>8, <4>1
      <4> QED
        BY <1>1, <1>4, <4>2, NavNumbers
    <3> QED
      BY <1>1, <3>1 DEF Session!SavedIsShown
  <2> QED
    BY <2>1, <2>2, <2>3, <2>4, <2>5, <2>6 DEF NavInv
<1>10. TransfersInv'
  BY <1>1, <1>2, <1>7, TransfersFrame DEF SessionInv
<1> QED
  BY <1>2, <1>5, <1>6, <1>7, <1>9, <1>10, SessionInvNext
  DEF SessionInv, ShownTypes, TransferTypes

LEMMA JoinedKeeps ==
  ASSUME SessionInv, Session!Joined
  PROVE  SessionInv'
<1>1. /\ UNCHANGED <<sessionOpen, sessionShown, cancelled, xfer, nav, goal, sessionSaved,
                     registered, content, closing>>
      /\ loop.at = "joining" /\ Quiet /\ CommandsInv' /\ loop'.at = "over"
  BY OverKeeps DEF Session!Joined, Quiet
<1>2. ~sessionOpen
  BY <1>1 DEF SessionInv, CommandsInv, LoopEnds
<1>3. NavInv'
  BY <1>1, <1>2, ShownStays, NavFrame DEF SessionInv, LoopGoesOn
<1>4. TransfersInv'
  BY <1>1, TransfersFrame DEF SessionInv
<1> QED
  BY <1>1, <1>3, <1>4, SessionInvNext DEF SessionInv, ShownTypes, NavTypes, TransferTypes

LEMMA LoopKeeps ==
  ASSUME SessionInv, Session!Loop
  PROVE  SessionInv'
BY ConnectKeeps, ConnectFailsKeeps, TakesKeep, NavigateEndsKeeps, StartKeeps, SkipKeeps,
   DeleteEndsKeeps, JoinedKeeps DEF Session!Loop

LEMMA RevokeKeeps ==
  ASSUME SessionInv, Session!Revoke
  PROVE  SessionInv'
<1> DEFINE s(t) == IF xfer[t].status = "none" THEN "none" ELSE "gone"
<1>1. /\ UNCHANGED <<nav, goal, sessionSaved, registered, chan, loop, content>>
      /\ sessionOpen /\ ~sessionOpen' /\ closing = "no" /\ closing' = "revoked"
      /\ sessionOpen' \in BOOLEAN /\ cancelled' = {}
      /\ sessionShown' = [sessionShown EXCEPT !.path = NoDir, !.loading = FALSE]
  BY DEF Session!Revoke
<1>2. xfer' = [t \in Transfers |-> [xfer[t] EXCEPT !.status = s(t)]]
  BY DEF Session!Revoke
<1>3. xfer \in [Transfers -> TransferRecords]
  BY DEF SessionInv, TransferTypes
<1>4. \A t \in Transfers : s(t) \in Statuses /\ (s(t) = "none" <=> xfer[t].status = "none")
  BY DEF Statuses
<1> HIDE DEF s
<1>5. \A t \in Transfers :
        /\ xfer'[t] \in TransferRecords /\ xfer'[t].status = s(t)
        /\ xfer'[t].at = xfer[t].at /\ xfer'[t].late = xfer[t].late
        /\ xfer'[t].kind = xfer[t].kind /\ xfer'[t].key = xfer[t].key
  <2> SUFFICES ASSUME NEW t \in Transfers
               PROVE  /\ xfer'[t] \in TransferRecords /\ xfer'[t].status = s(t)
                      /\ xfer'[t].at = xfer[t].at /\ xfer'[t].late = xfer[t].late
                      /\ xfer'[t].kind = xfer[t].kind /\ xfer'[t].key = xfer[t].key
    OBVIOUS
  <2>1. xfer[t] \in TransferRecords /\ s(t) \in Statuses
    BY <1>3, <1>4
  <2>2. xfer'[t] = [xfer[t] EXCEPT !.status = s(t)]
    BY <1>2
  <2> QED
    BY <2>1, <2>2, RecordStatus
<1>6. TransferTypes'
  BY <1>1, <1>2, <1>5 DEF SessionInv, TransferTypes
<1>7. ShownTypes' /\ sessionShown'.gen = sessionShown.gen
  BY <1>1 DEF SessionInv, ShownTypes, SomeDirs
<1>8. NavInv'
  <2>1. InTurn' /\ GensCount' /\ GoalsSet' /\ ConnectsFirst'
    BY <1>1, <1>7 DEF SessionInv, NavInv, InTurn, GensCount, GoalsSet, ConnectsFirst
  <2>2. SavingIsShown' /\ PathIsDir' /\ OverIsFailed' /\ Session!LoadingIsExplained'
        /\ Session!SavedIsShown'
    BY <1>1 DEF SavingIsShown, PathIsDir, OverIsFailed, Session!LoadingIsExplained,
       Session!SavedIsShown
  <2> QED
    BY <2>1, <2>2 DEF NavInv
<1>9. CommandsInv'
  BY <1>1, <1>5, CommandsFrame DEF SessionInv
<1>10. TransfersInv'
  <2>1. \A t \in Transfers : (Alone(t)' <=> Alone(t)) /\ Session!Target(t)' = Session!Target(t)
    BY <1>5 DEF Alone, Session!Target
  <2>2. Quiet' <=> Quiet
    BY <1>5 DEF Quiet, Session!Running
  <2>3. Exclusive' /\ KeysAreDirs' /\ NothingYet'
    BY <1>1, <1>5 DEF SessionInv, TransfersInv, Exclusive, KeysAreDirs, NothingYet
  <2>4. NewHasNoStatus'
    BY <1>4, <1>5 DEF SessionInv, TransfersInv, NewHasNoStatus
  <2>5. OwnData'
    BY <1>1, <1>5, <2>1 DEF SessionInv, TransfersInv, OwnData
  <2>6. LateStops' /\ QuietEnds'
    BY <1>1, <2>2 DEF SessionInv, TransfersInv, LateStops, QuietEnds
  <2> QED
    BY <2>3, <2>4, <2>5, <2>6 DEF TransfersInv
<1> QED
  BY <1>1, <1>6, <1>7, <1>8, <1>9, <1>10, SessionInvNext DEF SessionInv, NavTypes

LEMMA CloseKeeps ==
  ASSUME SessionInv, Session!Close
  PROVE  SessionInv'
<1>1. /\ UNCHANGED <<sessionOpen, sessionShown, cancelled, xfer, nav, goal, sessionSaved, content>>
      /\ closing \in {"revoked", "waiting"} /\ registered' \in BOOLEAN
  BY DEF Session!Close, Session!CloseRuntime, Session!CloseReturns, Session!CloseTimesOut,
     SessionInv, ShownTypes
<1>2. ~sessionOpen
  BY <1>1 DEF SessionInv, TransfersInv, QuietEnds
<1>3. /\ CommandsInv' /\ closing' \in {"waiting", "ok", "timeout"}
      /\ loop'.at = loop.at \/ (loop'.at = "over" /\ closing' = "timeout")
      /\ closing' = "ok" => loop.at = "over" /\ loop'.at = "over"
  <2>1. CASE Session!CloseRuntime /\ loop.at = "over"
    BY <1>1, <2>1, CommandsFrame DEF Session!CloseRuntime, SessionInv
  <2>2. CASE Session!CloseRuntime /\ loop.at # "over"
    <3> DEFINE c == [op |-> "disconnect"]
    <3>1. c \in Commands /\ c.op = "disconnect" /\ chan' = Append(chan, c) /\ UNCHANGED loop
          /\ closing' = "waiting"
      BY <2>2, CommandKinds DEF Session!CloseRuntime
    <3> HIDE DEF c
    <3> QED
      BY <1>1, <1>2, <2>2, <3>1, AppendKeeps DEF SessionInv
  <2>3. CASE Session!CloseReturns
    BY <1>1, <2>3, CommandsFrame DEF Session!CloseReturns, SessionInv
  <2>4. CASE Session!CloseTimesOut
    BY <2>4, OverKeeps DEF Session!CloseTimesOut
  <2> QED
    BY <2>1, <2>2, <2>3, <2>4 DEF Session!Close
<1>4. NavInv'
  BY <1>1, <1>2, <1>3, ShownStays, NavFrame DEF SessionInv, LoopGoesOn
<1>5. TransfersInv'
  BY <1>1, <1>3, TransfersFrame DEF SessionInv
<1> QED
  BY <1>1, <1>3, <1>4, <1>5, SessionInvNext DEF SessionInv, ShownTypes, NavTypes, TransferTypes

LEMMA SessionKept ==
  ASSUME SessionInv, [Session!Next]_sessionState
  PROVE  SessionInv'
<1>1. CASE UNCHANGED sessionState
  <2>1. NavInv'
    BY <1>1, ShownStays, NavFrame DEF SessionInv, LoopGoesOn, sessionState
  <2>2. CommandsInv'
    BY <1>1, CommandsFrame DEF SessionInv, sessionState
  <2>3. TransfersInv'
    BY <1>1, TransfersFrame DEF SessionInv, sessionState
  <2> QED
    BY <1>1, <2>1, <2>2, <2>3, SessionInvNext
    DEF SessionInv, ShownTypes, NavTypes, TransferTypes, sessionState
<1>2. CASE Session!Next
  BY <1>2, CallersKeep, UsersKeep, CancelKeeps, TaskStepKeeps, DeleteKeeps, LoopKeeps, RevokeKeeps,
     CloseKeeps DEF Session!Next
<1> QED
  BY <1>1, <1>2

\* Only the connection and a navigation move the shown directory.
LEMMA OnlyNavigationsMove ==
  ASSUME SessionInv, [Session!Next]_sessionState
  PROVE  sessionShown'.path # sessionShown.path =>
           loop.at \in {"connecting", "navigate"} \/ ~sessionOpen'
<1> USE DEF SessionInv, ShownTypes
<1>1. CASE UNCHANGED sessionState
  BY <1>1 DEF sessionState
<1>2. ASSUME NEW n \in Session!Navs, Session!Caller(n) \/ \E d \in Dirs : Session!Navigate(n, d)
      PROVE  sessionShown'.path = sessionShown.path
  BY <1>2 DEF Session!Caller, Session!NavGo, Session!NavSend, Session!NavRefused,
     Session!NavSaved, Session!NavUnsaved, Session!Navigate, Session!Show
<1>3. ASSUME NEW t \in Transfers,
             \/ Session!Upload(t) \/ Session!UploadWatched(t) \/ Session!Download(t)
             \/ Session!Cancel(t) \/ \E u \in Transfers : Session!Retry(u, t)
      PROVE  sessionShown' = sessionShown
  BY <1>3 DEF Session!Upload, Session!UploadWatched, Session!Download, Session!Cancel,
     Session!Retry, Session!Add
<1>4. ASSUME NEW t \in Transfers, Session!Task(t)
      PROVE  sessionShown'.path = sessionShown.path
  <2>1. CASE Session!Commit(t)
    BY <2>1 DEF Session!Commit, Session!Show, Session!Current
  <2>2. CASE ~Session!Commit(t)
    BY <1>4, <2>2 DEF Session!Task, Session!Acquire, Session!GoOn, Session!Bail, Session!IoFails,
       Session!Create, Session!Write, Session!Finish, Session!Judge, Session!Record,
       Session!Refresh, Session!Aborted
  <2> QED
    BY <2>1, <2>2
<1>5. CASE Session!Delete
  BY <1>5 DEF Session!Delete
<1>6. CASE Session!Loop
  <2>1. CASE Session!Connect \/ Session!ConnectFails \/ Session!NavigateEnds
               \/ Session!NavigateFails
    BY <2>1 DEF Session!Connect, Session!ConnectFails, Session!NavigateEnds,
       Session!NavigateFails
  <2>2. CASE Session!DeleteEnds
    BY <2>2 DEF Session!DeleteEnds, Session!Show
  <2>3. CASE \/ Session!TakeNavigate \/ Session!TakeTransfer \/ Session!Start
             \/ Session!SkipCancelled \/ Session!TakeDelete \/ Session!TakeDisconnect
             \/ Session!Joined
    BY <2>3 DEF Session!TakeNavigate, Session!TakeTransfer, Session!Start, Session!SkipCancelled,
       Session!TakeDelete, Session!TakeDisconnect, Session!Joined
  <2> QED
    BY <1>6, <2>1, <2>2, <2>3 DEF Session!Loop
<1>7. CASE Session!Revoke
  BY <1>7 DEF Session!Revoke
<1>8. CASE Session!Close
  BY <1>8 DEF Session!Close, Session!CloseRuntime, Session!CloseReturns, Session!CloseTimesOut
<1> QED
  BY <1>1, <1>2, <1>3, <1>4, <1>5, <1>6, <1>7, <1>8 DEF Session!Next

-----------------------------------------------------------------------------
(* SftpLocal                                                               *)

\* Who is past the lock of navigations holds it, and holds it while it navigates.
HoldsLock(o) == op[o].pc \in {"locked", "scanning", "save"}
LockHeld ==
  /\ \A o \in Navigations : HoldsLock(o) => lock = o
  /\ lock # None => HoldsLock(lock)
  /\ \A o \in Local!Ops \ Navigations : op[o].pc \notin {"locked", "save"}

\* Scans have generations of their own, and the newest is the one that is shown
\* as loading.
ScansApart ==
  /\ \A o \in Local!Ops : op[o].generation <= generation
  /\ \A o, p \in Local!Ops :
       op[o].pc = "scanning" /\ op[p].pc = "scanning" /\ op[o].generation = op[p].generation
         => o = p

\* A scan that nobody navigated for lists the directory that is shown.
Newest(o) == op[o].pc = "scanning" /\ op[o].generation = generation
ScansStay ==
  localOpen /\ ~overtaken =>
    \A o \in Local!Ops \ Navigations : Newest(o) => op[o].path = localShown.path

\* A navigation moves the panel first and saves then, with the lock in hand.
SavesShown ==
  localOpen /\ ~overtaken =>
    \A o \in Navigations : op[o].pc = "save" => localShown.path = Local!Resolved(op[o].path)
SavedUnlessMoving ==
  localOpen /\ ~missed /\ ~overtaken /\ (lock = None \/ op[lock].pc \in {"locked", "scanning"})
    => localShown.path = localSaved

LocalInv == /\ Local!TypeOK /\ LockHeld /\ ScansApart /\ ScansStay /\ SavesShown
            /\ SavedUnlessMoving /\ Local!LoadingIsTheScan

LEMMA LocalPaths ==
  /\ Dirs \subseteq Local!Paths /\ \A n \in Local!Paths : Local!Resolved(n) \in Dirs
  /\ \A d \in Dirs : Local!Resolved(d) = d
  /\ Navigations \subseteq Local!Ops /\ Refreshes \subseteq Local!Ops
  /\ Opening \in Local!Ops \ Navigations
  /\ \A o \in Local!Ops \ Navigations : Local!OnlyIfCurrent(o) \/ o = Opening
  /\ \A o \in Navigations : ~Local!OnlyIfCurrent(o) /\ o # Opening
BY LocalAssumption DEF Local!Paths, Local!Resolved, Local!Ops, Local!OnlyIfCurrent

LEMMA LocalStarts == Local!Init => LocalInv
<1> SUFFICES ASSUME Local!Init PROVE LocalInv
  OBVIOUS
<1>0. InitialDir \in Dirs
  BY SessionAssumption
<1>1. \A o \in Local!Ops : op[o].pc = "idle" /\ op[o].generation = 0
  BY DEF Local!Init
<1>2. Local!TypeOK
  BY <1>0, LocalPaths DEF Local!Init, Local!TypeOK
<1>3. lock = None /\ generation = 0 /\ localShown.path = localSaved
  BY DEF Local!Init
<1>5. LockHeld /\ ScansStay /\ SavesShown /\ SavedUnlessMoving
  BY <1>1, <1>3, LocalPaths DEF LockHeld, HoldsLock, ScansStay, Newest, SavesShown,
    SavedUnlessMoving
<1>6. ScansApart
  BY <1>1, <1>3 DEF ScansApart
<1>4. Local!LoadingIsTheScan
  BY <1>1 DEF Local!Init, Local!LoadingIsTheScan, Local!At
<1> QED
  BY <1>2, <1>5, <1>6, <1>4 DEF LocalInv

LEMMA ShownRecords ==
  \A d \in Dirs : [path |-> d, loading |-> FALSE, failed |-> FALSE] \in
                     [path : Dirs, loading : BOOLEAN, failed : BOOLEAN]
OBVIOUS

LEMMA LocalTypes ==
  ASSUME LocalInv, Local!Next
  PROVE  Local!TypeOK'
<1> USE LocalPaths DEF LocalInv, Local!TypeOK, Local!At, Local!Go, Local!Leave
<1>1. CASE Local!Close
  BY <1>1 DEF Local!Close
<1>2. ASSUME NEW o \in Local!Ops, NEW name \in Local!Paths, Local!Call(o, name)
      PROVE  Local!TypeOK'
  BY <1>2 DEF Local!Call
<1>3. ASSUME NEW o \in Local!Ops, Local!Lock(o) PROVE  Local!TypeOK'
  BY <1>3 DEF Local!Lock
<1>4. ASSUME NEW o \in Local!Ops, Local!BeginScan(o) PROVE  Local!TypeOK'
  <2>1. generation + 1 \in Nat /\ op[o].path \in Local!Paths
    OBVIOUS
  <2>2. /\ localShown' \in [path : Dirs, loading : BOOLEAN, failed : BOOLEAN]
        /\ overtaken' \in BOOLEAN /\ generation' \in Nat /\ requested' \in Local!Paths
    BY <1>4, <2>1 DEF Local!BeginScan
  <2>3. [op[o] EXCEPT !.pc = "scanning", !.generation = generation + 1] \in
          [pc : {"idle", "called", "locked", "scanning", "save", "done"},
           path : Local!Paths, generation : Nat]
    BY <2>1
  <2>4. op' \in [Local!Ops -> [pc : {"idle", "called", "locked", "scanning", "save", "done"},
                              path : Local!Paths, generation : Nat]]
    BY <1>4, <2>3 DEF Local!BeginScan
  <2> QED
    BY <1>4, <2>2, <2>4 DEF Local!BeginScan
<1>5. ASSUME NEW o \in Local!Ops, Local!Refused(o) PROVE  Local!TypeOK'
  BY <1>5 DEF Local!Refused
<1>6. ASSUME NEW o \in Local!Ops, Local!FinishScan(o) PROVE  Local!TypeOK'
  <2>1. Local!Resolved(op[o].path) \in Dirs
    OBVIOUS
  <2>4. localShown' \in [path : Dirs, loading : BOOLEAN, failed : BOOLEAN]
    <3>1. localShown' = localShown \/
          localShown' = [path |-> Local!Resolved(op[o].path), loading |-> FALSE, failed |-> FALSE]
      BY <1>6 DEF Local!FinishScan
    <3>2. localShown \in [path : Dirs, loading : BOOLEAN, failed : BOOLEAN]
      OBVIOUS
    <3> QED
      BY <2>1, <3>1, <3>2, ShownRecords
  <2>2. requested' \in Local!Paths \cup {None}
    BY <1>6 DEF Local!FinishScan
  <2>3. op' \in [Local!Ops -> [pc : {"idle", "called", "locked", "scanning", "save", "done"},
                              path : Local!Paths, generation : Nat]]
    BY <1>6 DEF Local!FinishScan
  <2> QED
    BY <1>6, <2>2, <2>3, <2>4 DEF Local!FinishScan
<1>7. ASSUME NEW o \in Local!Ops, Local!FailScan(o) PROVE  Local!TypeOK'
  BY <1>7 DEF Local!FailScan
<1>8. ASSUME NEW o \in Local!Ops, Local!Save(o) PROVE  Local!TypeOK'
  <2>1. Local!Resolved(op[o].path) \in Dirs
    OBVIOUS
  <2> QED
    BY <1>8, <2>1 DEF Local!Save
<1> QED
  BY <1>1, <1>2, <1>3, <1>4, <1>5, <1>6, <1>7, <1>8 DEF Local!Next

LEMMA LocalStep ==
  ASSUME LocalInv, Local!Next
  PROVE  LocalInv'
<1> USE LocalPaths, LocalTypes, LocalAssumption
<1> USE DEF LocalInv, LockHeld, HoldsLock, ScansApart, ScansStay, Newest, SavesShown,
      SavedUnlessMoving,
     Local!LoadingIsTheScan, Local!At, Local!Go, Local!Leave, Local!TypeOK
<1>1. CASE Local!Close
  BY <1>1 DEF Local!Close
<1>2. ASSUME NEW o \in Local!Ops, NEW name \in Local!Paths, Local!Call(o, name)
      PROVE  LocalInv'
  BY <1>2 DEF Local!Call
<1>3. ASSUME NEW o \in Local!Ops, Local!Lock(o) PROVE  LocalInv'
  BY <1>3 DEF Local!Lock
<1>4. ASSUME NEW o \in Local!Ops, Local!BeginScan(o) PROVE  LocalInv'
  BY <1>4 DEF Local!BeginScan, Local!IsCurrent
<1>5. ASSUME NEW o \in Local!Ops, Local!Refused(o) PROVE  LocalInv'
  BY <1>5 DEF Local!Refused
<1>6. ASSUME NEW o \in Local!Ops, Local!FinishScan(o) PROVE  LocalInv'
  <2>1. CASE Local!Current(o) /\ o \in Navigations
    BY <1>6, <2>1 DEF Local!FinishScan, Local!Current
  <2>2. CASE Local!Current(o) /\ o \notin Navigations
    <3>1. ~overtaken => op[o].path = localShown.path
      BY <1>6, <2>2 DEF Local!FinishScan, Local!Current
    <3>2. ~overtaken => localShown'.path = localShown.path
      BY <1>6, <2>2, <3>1 DEF Local!FinishScan
    <3>3. lock' = lock /\ (lock # None => lock # o)
      BY <1>6, <2>2 DEF Local!FinishScan
    <3>4. LockHeld' /\ ScansApart'
      BY <1>6, <2>2, <3>3 DEF Local!FinishScan
    <3>5. ScansStay' /\ SavesShown' /\ SavedUnlessMoving'
      BY <1>6, <2>2, <3>2, <3>3 DEF Local!FinishScan
    <3>6. Local!LoadingIsTheScan'
      BY <1>6, <2>2 DEF Local!FinishScan, Local!Current
    <3> QED
      BY <3>4, <3>5, <3>6
  <2>3. CASE ~Local!Current(o)
    BY <1>6, <2>3 DEF Local!FinishScan, Local!Current
  <2> QED
    BY <2>1, <2>2, <2>3
<1>7. ASSUME NEW o \in Local!Ops, Local!FailScan(o) PROVE  LocalInv'
  <2>1. CASE Local!Current(o)
    <3>1. LockHeld' /\ ScansApart'
      BY <1>7 DEF Local!FailScan
    <3>7. localShown'.path = localShown.path
      BY <1>7, <2>1 DEF Local!FailScan
    <3>4. /\ localOpen' = localOpen /\ overtaken' = overtaken /\ missed' = missed
               /\ localSaved' = localSaved
          /\ generation' = generation
      BY <1>7, <2>1 DEF Local!FailScan
    <3>6. \A p \in Local!Ops : /\ op'[p].path = op[p].path /\ op'[p].generation = op[p].generation
                              /\ op'[p].pc = IF p = o THEN "done" ELSE op[p].pc
      BY <1>7 DEF Local!FailScan
    <3>5. ScansStay' /\ SavesShown'
      BY <3>4, <3>6, <3>7
    <3>2. SavedUnlessMoving'
      <4>1. CASE lock = o
        BY <1>7, <3>4, <3>7, <4>1 DEF Local!FailScan
      <4>2. CASE lock # o
        BY <1>7, <3>4, <3>6, <3>7, <4>2 DEF Local!FailScan
      <4> QED
        BY <4>1, <4>2
    <3>3. Local!LoadingIsTheScan'
      BY <1>7, <2>1 DEF Local!FailScan, Local!Current
    <3> QED
      BY <3>1, <3>2, <3>3, <3>5
  <2>2. CASE ~Local!Current(o)
    BY <1>7, <2>2 DEF Local!FailScan, Local!Current
  <2> QED
    BY <2>1, <2>2
<1>8. ASSUME NEW o \in Local!Ops, Local!Save(o) PROVE  LocalInv'
  BY <1>8 DEF Local!Save
<1> QED
  BY <1>1, <1>2, <1>3, <1>4, <1>5, <1>6, <1>7, <1>8 DEF Local!Next

LEMMA LocalGoal == LocalInv => Local!TypeOK /\ Local!LoadingIsTheScan /\ Local!ShownIsSaved
BY DEF LocalInv, SavedUnlessMoving, Local!ShownIsSaved

-----------------------------------------------------------------------------
(* TreeTransfer                                                            *)

IsData(node) == node.kind \in {"file", "link"}
Prefix(s, t) == Len(s) <= Len(t) /\ \A i \in 1..Len(s) : s[i] = t[i]
Same(p) == target[p].kind = "file" /\ target[p].content = source[p].content

\* Files are not empty and their changes not in the future.
SourceFormed ==
  \A p \in Tree!Paths : /\ IsData(source[p]) => Len(source[p].content) \in 1..MaxSize
                        /\ Len(source[p].content) <= MaxSize
                        /\ source[p].time <= clock

\* What was listed is the source, or older than it.
ListedBefore ==
  \A p \in DOMAIN plan :
    /\ plan[p].time \in 0..MaxTime
    /\ p \notin since => plan[p] = Tree!SourceSignature(p)
    /\ p \in since \ unlucky /\ IsData(source[p]) /\ plan[p].time # Tree!NoTime
         => plan[p].time < source[p].time

\* What the run has done is the same, and the file in hand as far as it is copied.
DoneIsSame ==
  /\ treeAt = "done" => DOMAIN plan = {}
  /\ treeAt \in {"next", "copy", "time", "done"} =>
       \A p \in Tree!Paths \ (since \cup unlucky) :
         IsData(source[p]) /\ p \notin DOMAIN plan => Same(p)
InHandFollows ==
  /\ treeAt \in {"copy", "time"} /\ inHand \notin since =>
       IsData(source[inHand]) /\ Prefix(target[inHand].content, source[inHand].content)
  /\ treeAt = "time" /\ inHand \notin since => Same(inHand)

\* Size and time tell two contents apart, unless two were made in one second.
TimesTell ==
  \A p \in Tree!Paths \ unlucky :
    /\ IsData(source[p]) /\ target[p].kind = "file"
    /\ Len(target[p].content) = Len(source[p].content) /\ target[p].time = source[p].time
    => target[p].content = source[p].content

TreeInv == /\ Tree!TypeOK /\ SourceFormed /\ ListedBefore /\ DoneIsSame
           /\ InHandFollows /\ TimesTell

LEMMA TreeGoal == TreeInv => Tree!TypeOK /\ Tree!DoneMeansSame
<1> SUFFICES ASSUME TreeInv PROVE Tree!DoneMeansSame
  BY DEF TreeInv
<1> QED
  BY DEF TreeInv, DoneIsSame, Same, IsData, Tree!DoneMeansSame, Tree!Present

LEMMA TreePaths ==
  /\ Tree!Paths = {Root, Folder, FileA, FileB} /\ NoPath \notin Tree!Paths
  /\ 0 \in 0..MaxTime /\ 1 \in 1..MaxTime /\ 1 \in 1..MaxChanges /\ 0 \in 0..MaxRuns
BY TreeAssumption DEF Tree!Paths

LEMMA TreeContents ==
  ASSUME NEW v \in 0..MaxChanges, NEW c \in Tree!Contents(v)
  PROVE  c \in Seq(0..MaxChanges) /\ Len(c) \in 1..MaxSize
<1>1. PICK n \in 1..MaxSize : c = [i \in 1..n |-> v]
  BY DEF Tree!Contents
<1>2. n \in Nat
  BY TreeAssumption
<1>3. c \in [1..n -> 0..MaxChanges]
  BY <1>1
<1>4. c \in Seq(0..MaxChanges)
  BY <1>2, <1>3, SeqDef
<1>5. Len(c) = n
  BY <1>1, <1>2, <1>4, LenProperties
<1> QED
  BY <1>1, <1>4, <1>5

LEMMA TreeNodes ==
  /\ Tree!Missing \in Tree!Nodes /\ Tree!Directory \in Tree!Nodes
  /\ Tree!Missing.kind = "none" /\ Tree!Directory.kind = "dir"
  /\ Tree!Missing.time = 0 /\ Tree!Directory.time = 0
  /\ Tree!Missing.content = <<>> /\ Tree!Directory.content = <<>>
  /\ \A c \in Seq(0..MaxChanges), t \in 0..MaxTime :
       /\ Tree!File(c, t) \in Tree!Nodes /\ Tree!Link(c, t) \in Tree!Nodes
       /\ Tree!File(c, t).kind = "file" /\ Tree!Link(c, t).kind = "link"
       /\ Tree!File(c, t).content = c /\ Tree!Link(c, t).content = c
       /\ Tree!File(c, t).time = t /\ Tree!Link(c, t).time = t
BY TreePaths DEF Tree!Missing, Tree!Directory, Tree!Nodes, Tree!File, Tree!Link

LEMMA TreeStarts == Tree!Init => TreeInv
<1> SUFFICES ASSUME Tree!Init PROVE TreeInv
  OBVIOUS
<1>0. 0 \in 0..MaxChanges /\ 1 \in 0..MaxChanges /\ 1 \in 0..MaxTime
  BY TreeAssumption
<1>1. <<1>> \in Seq(0..MaxChanges) /\ Len(<<1>>) = 1 /\ <<0>> \in Seq(0..MaxChanges)
        /\ Len(<<0>>) = 1
      /\ <<>> \in Seq(0..MaxChanges) /\ Len(<<>>) = 0 /\ 1 \in 1..MaxSize
  BY <1>0, TreeAssumption
<1>11. \/ \E f \in Tree!Files : source = Tree!Single(f)
       \/ \E a \in Tree!Files \cup {Tree!Link(<<1>>, 1)}, b \in Tree!Files : source = Tree!Full(a,
            b)
  BY DEF Tree!Init, Tree!Trees
<1>2. \A p \in Tree!Paths : source[p] \in Tree!Nodes /\ source[p].time <= 1
        /\ Len(source[p].content) <= MaxSize
        /\ (IsData(source[p]) => Len(source[p].content) \in 1..MaxSize)
  <2> DEFINE Good(n) == n \in Tree!Nodes /\ n.time <= 1 /\ Len(n.content) <= MaxSize
                        /\ (IsData(n) => Len(n.content) \in 1..MaxSize)
  <2>1. \A f \in Tree!Files : Good(f)
    <3>1. ASSUME NEW c \in Tree!Contents(1)
          PROVE  c \in Seq(0..MaxChanges) /\ Len(c) \in 1..MaxSize /\ Len(c) <= MaxSize
      BY <1>0, TreeContents, TreeAssumption
    <3> QED
      BY <1>0, <3>1, TreeNodes DEF IsData, Tree!Files
  <2>2. Good(Tree!Link(<<1>>, 1)) /\ Good(Tree!Missing) /\ Good(Tree!Directory)
    <3>1. Good(Tree!Missing) /\ Good(Tree!Directory)
      BY <1>1, TreeNodes, TreeAssumption DEF IsData
    <3>2. \A c \in Seq(0..MaxChanges) :
            Len(c) \in 1..MaxSize /\ Len(c) <= MaxSize => Good(Tree!Link(c, 1))
      BY <1>0, TreeNodes
    <3> HIDE DEF Good
    <3>3. Good(Tree!Link(<<1>>, 1))
      <4>1. Len(<<1>>) <= MaxSize
        BY <1>1, TreeAssumption
      <4> QED
        BY <1>1, <3>2, <4>1
    <3> QED
      BY <3>1, <3>3
  <2> HIDE DEF Good
  <2> DEFINE Linked == Tree!Files \cup {Tree!Link(<<1>>, 1)}
  <2>3. ASSUME NEW f \in Tree!Files, source = Tree!Single(f)
        PROVE  \A p \in Tree!Paths : Good(source[p])
    BY <2>1, <2>2, <2>3 DEF Tree!Single
  <2>4. ASSUME NEW a \in Linked, NEW b \in Tree!Files, source = Tree!Full(a, b)
        PROVE  \A p \in Tree!Paths : Good(source[p])
    <3>1. Good(a) /\ Good(b)
      BY <2>1, <2>2
    <3> QED
      BY <2>2, <2>4, <3>1, TreePaths, TreeAssumption DEF Tree!Full
  <2>5. \A p \in Tree!Paths : Good(source[p])
    BY <2>3, <2>4, <1>11
  <2> QED
    BY <2>5 DEF Good
<1>3. \A p \in Tree!Paths : target[p] = Tree!Missing
                             \/ (p = Folder /\ target[p] = Tree!File(<<0>>, 1))
  BY TreePaths DEF Tree!Init
<1>9. Tree!File(<<0>>, 1) \in Tree!Nodes /\ Tree!File(<<0>>, 1).content = <<0>>
  BY <1>0, <1>1, TreeNodes
<1>10. \A p \in Tree!Paths : target[p] \in Tree!Nodes
  BY <1>3, <1>9, TreeNodes
<1>4. \A p \in Tree!Paths : Len(target[p].content) <= MaxSize
  <2>1. 0 <= MaxSize /\ 1 <= MaxSize
    BY TreeAssumption
  <2>2. ASSUME NEW p \in Tree!Paths
        PROVE  Len(target[p].content) = 0 \/ Len(target[p].content) = 1
    <3>1. target[p].content = <<>> \/ target[p].content = <<0>>
      BY <1>3, <1>9, TreeNodes
    <3> QED
      BY <1>1, <3>1
  <2> QED
    BY <2>1, <2>2
<1>5. source \in [Tree!Paths -> Tree!Nodes] /\ target \in [Tree!Paths -> Tree!Nodes]
  <2>1. \E f : source = [p \in Tree!Paths |-> f[p]]
    BY <1>11 DEF Tree!Single, Tree!Full
  <2> QED
    BY <1>2, <1>10, <2>1 DEF Tree!Init
<1>6. Tree!TypeOK
  BY <1>4, <1>5, TreePaths DEF Tree!Init, Tree!TypeOK
<1>7. SourceFormed
  BY <1>2 DEF Tree!Init, SourceFormed
<1>8. TimesTell
  <2>1. ~IsData(source[Folder])
    BY <1>11, TreePaths, TreeNodes, TreeAssumption DEF Tree!Single, Tree!Full, IsData
  <2> QED
    BY <1>3, <2>1, TreeNodes DEF TimesTell
<1> QED
  BY <1>6, <1>7, <1>8 DEF Tree!Init, TreeInv, ListedBefore, DoneIsSame, InHandFollows

TreeStays == UNCHANGED <<way, dated>>

\* The types by parts.
TreeKinds == way \in {"upload", "download"} /\ dated \in BOOLEAN
          /\ clock \in 1..MaxTime /\ treeEdits \in 1..MaxChanges /\ runs \in 0..MaxRuns
TreePlace == /\ treeAt \in {"idle", "next", "copy", "time", "done", "failed"}
             /\ DOMAIN plan \subseteq Tree!Paths /\ inHand \in Tree!Paths \cup {NoPath}
             /\ treeAt \in {"copy", "time"} => inHand \in DOMAIN plan
                  /\ target[inHand].kind = "file"
TreeTrees == /\ source \in [Tree!Paths -> Tree!Nodes] /\ target \in [Tree!Paths -> Tree!Nodes]
             /\ since \subseteq Tree!Paths /\ unlucky \subseteq Tree!Paths
             /\ \A p \in Tree!Paths : Len(target[p].content) <= MaxSize
LEMMA TreeTypesByParts == Tree!TypeOK <=> TreeKinds /\ TreePlace /\ TreeTrees
BY DEF Tree!TypeOK, TreeKinds, TreePlace, TreeTrees

LEMMA TreeTypesByPartsNext ==
  ASSUME TreeKinds', TreePlace', TreeTrees' PROVE Tree!TypeOK'
BY DEF Tree!TypeOK, TreeKinds, TreePlace, TreeTrees

\* A step of the plan: everything but the plan stays.
LEMMA TreeBegin ==
  ASSUME TreeInv, Tree!Begin PROVE TreeInv'
<1> USE DEF TreeInv, Tree!Begin, Tree!Kept
<1>1. DOMAIN plan' \subseteq Tree!Paths
  BY DEF Tree!Present
<1>2. Tree!TypeOK'
  <2>1. TreeKinds'
    BY TreeAssumption DEF TreeKinds, Tree!TypeOK
  <2>2. TreePlace'
    BY <1>1 DEF TreePlace, Tree!TypeOK
  <2>3. TreeTrees'
    BY DEF TreeTrees, Tree!TypeOK
  <2> QED
    BY <2>1, <2>2, <2>3, TreeTypesByPartsNext
<1>3. \A p \in DOMAIN plan' : plan'[p] = Tree!SourceSignature(p)'
  BY DEF Tree!SourceSignature, Tree!Present
<1>4. SourceFormed' /\ TimesTell'
  BY DEF SourceFormed, TimesTell
<1>5. ListedBefore'
  <2>1. \A p \in Tree!Paths : source[p].time \in 0..MaxTime
    BY DEF Tree!TypeOK, Tree!Nodes
  <2>2. \A p \in Tree!Paths : Tree!SourceSignature(p)'.time \in 0..MaxTime
    BY <2>1, TreePaths DEF Tree!SourceSignature, Tree!Signature, Tree!NoTime
  <2> QED
    BY <1>1, <1>3, <2>2 DEF ListedBefore
<1>6. DoneIsSame'
  BY DEF DoneIsSame, Tree!Present, IsData
<1>7. InHandFollows'
  BY DEF InHandFollows
<1> QED
  BY <1>2, <1>4, <1>5, <1>6, <1>7

\* A step that leaves source, target and what is told of them.
TreeQuiet == UNCHANGED <<way, dated, source, target, since, unlucky>>
LEMMA QuietKeeps ==
  ASSUME TreeInv, TreeQuiet, clock' = clock, treeEdits' = treeEdits, runs' = runs
  PROVE  TreeKinds' /\ TreeTrees' /\ SourceFormed' /\ TimesTell'
BY DEF TreeQuiet, TreeInv, Tree!TypeOK, TreeKinds, TreeTrees, SourceFormed, TimesTell

LEMMA TreeTick ==
  ASSUME TreeInv, Tree!Tick PROVE TreeInv'
<1> USE DEF TreeInv, Tree!Tick, Tree!Kept
<1>1. TreeKinds'
  BY TreeAssumption DEF TreeKinds, Tree!TypeOK
<1>2. TreePlace' /\ TreeTrees'
  BY DEF TreePlace, TreeTrees, Tree!TypeOK
<1>3. SourceFormed'
  <2>1. ASSUME NEW p \in Tree!Paths PROVE source[p].time <= clock'
    <3>1. source[p].time <= clock /\ source[p].time \in 0..MaxTime /\ clock \in 1..MaxTime
      BY DEF SourceFormed, Tree!TypeOK, Tree!Nodes
    <3> QED
      BY <3>1, TreeAssumption
  <2> QED
    BY <2>1 DEF SourceFormed
<1>4. TimesTell' /\ DoneIsSame' /\ InHandFollows'
  BY DEF TimesTell, DoneIsSame, InHandFollows, Same
<1>5. ListedBefore'
  BY DEF ListedBefore, Tree!SourceSignature
<1> QED
  BY <1>1, <1>2, <1>3, <1>4, <1>5, TreeTypesByPartsNext

\* The run ends.
LEMMA TreeBreak ==
  ASSUME TreeInv, Tree!Break \/ \E p \in Tree!Paths : Tree!Missed(p) PROVE TreeInv'
<1> USE DEF TreeInv, Tree!Break, Tree!Missed, Tree!Kept
<1>0. TreeQuiet /\ UNCHANGED <<clock, treeEdits, runs, plan, inHand>> /\ treeAt' = "failed"
  BY DEF TreeQuiet
<1>1. TreePlace'
  BY <1>0 DEF TreePlace, Tree!TypeOK
<1>2. ListedBefore' /\ DoneIsSame' /\ InHandFollows'
  BY <1>0 DEF ListedBefore, DoneIsSame, InHandFollows, TreeQuiet, Tree!SourceSignature
<1> QED
  BY <1>0, <1>1, <1>2, QuietKeeps, TreeTypesByPartsNext

LEMMA TreeFinish ==
  ASSUME TreeInv, Tree!Finish PROVE TreeInv'
<1> USE DEF TreeInv, Tree!Finish, Tree!Kept
<1>0. TreeQuiet /\ UNCHANGED <<clock, treeEdits, runs, plan, inHand>> /\ treeAt' = "done"
  BY DEF TreeQuiet
<1>1. TreePlace'
  BY <1>0 DEF TreePlace, Tree!TypeOK
<1>2. ListedBefore' /\ DoneIsSame' /\ InHandFollows'
  BY <1>0 DEF ListedBefore, DoneIsSame, InHandFollows, TreeQuiet, Tree!SourceSignature, Same
<1> QED
  BY <1>0, <1>1, <1>2, QuietKeeps, TreeTypesByPartsNext

LEMMA TreeSkip ==
  ASSUME TreeInv, NEW p \in Tree!Paths, Tree!SkipFile(p) PROVE TreeInv'
<1> USE DEF TreeInv, Tree!SkipFile, Tree!Kept, Tree!Due
<1>0. TreeQuiet /\ UNCHANGED <<clock, treeEdits, runs, treeAt, inHand>> /\ treeAt = "next"
  BY DEF TreeQuiet
<1>1. DOMAIN plan' = DOMAIN plan \ {p} /\ \A q \in DOMAIN plan' : plan'[q] = plan[q]
  BY DEF Tree!Without
<1>2. TreePlace'
  BY <1>0, <1>1 DEF TreePlace, Tree!TypeOK
<1>3. ListedBefore' /\ InHandFollows'
  BY <1>0, <1>1 DEF ListedBefore, InHandFollows, TreeQuiet, Tree!SourceSignature
<1>4. p \notin since \cup unlucky /\ IsData(source[p]) => Same(p)
  <2> SUFFICES ASSUME p \notin since \cup unlucky, IsData(source[p]) PROVE Same(p)
    OBVIOUS
  <2>1. plan[p] = Tree!SourceSignature(p)
    BY DEF ListedBefore
  <2>2. /\ plan[p].size = Tree!TargetSignature(p).size
        /\ plan[p].time = Tree!TargetSignature(p).time /\ plan[p].time # 0
    BY DEF Tree!Unchanged, Tree!NoTime
  <2>3. target[p].kind = "file" /\ Tree!TargetSignature(p).size = Len(target[p].content)
    BY DEF Tree!TargetSignature, Tree!Signature
  <2>4. source[p].kind = "file"
    <3>1. Len(target[p].content) # MaxSize + 1
      <4>1. target[p].content \in Seq(0..MaxChanges) /\ Len(target[p].content) <= MaxSize
        BY DEF Tree!TypeOK, Tree!Nodes
      <4>2. Len(target[p].content) \in Nat
        BY <4>1, LenProperties
      <4> QED
        BY <4>1, <4>2, TreeAssumption
    <3> QED
      BY <2>1, <2>2, <2>3, <3>1 DEF IsData, Tree!SourceSignature, Tree!Signature
  <2>5. Len(source[p].content) = Len(target[p].content)
    BY <2>1, <2>2, <2>3, <2>4 DEF Tree!SourceSignature, Tree!Signature
  <2>6. source[p].time = target[p].time
    BY <2>1, <2>2 DEF Tree!SourceSignature, Tree!TargetSignature, Tree!Signature, Tree!NoTime
  <2> QED
    BY <2>3, <2>5, <2>6 DEF TimesTell, Same
<1>5. DoneIsSame'
  BY <1>0, <1>1, <1>4 DEF DoneIsSame, TreeQuiet, Same
<1> QED
  BY <1>0, <1>2, <1>3, <1>5, QuietKeeps, TreeTypesByPartsNext

\* A step that gives a path of the target another node.
Puts(p, node) == /\ target' = [target EXCEPT ![p] = node]
                 /\ UNCHANGED <<way, dated, source, clock, treeEdits, runs, since>>
LEMMA PutsKeeps ==
  ASSUME TreeInv, NEW p \in Tree!Paths, NEW node \in Tree!Nodes, Puts(p, node),
         Len(node.content) <= MaxSize, unlucky \subseteq unlucky', unlucky' \subseteq Tree!Paths,
         /\ p \notin unlucky' /\ IsData(source[p]) /\ node.kind = "file"
         /\ Len(node.content) = Len(source[p].content) /\ node.time = source[p].time
         => node.content = source[p].content
  PROVE  TreeKinds' /\ TreeTrees' /\ SourceFormed' /\ TimesTell'
<1> USE DEF Puts
<1>1. \A q \in Tree!Paths : target'[q] = IF q = p THEN node ELSE target[q]
  BY DEF TreeInv, Tree!TypeOK
<1>2. TreeKinds' /\ SourceFormed'
  BY DEF TreeInv, Tree!TypeOK, TreeKinds, SourceFormed
<1>3. target' \in [Tree!Paths -> Tree!Nodes]
  BY DEF TreeInv, Tree!TypeOK
<1>4. TreeTrees'
  BY <1>1, <1>3 DEF TreeInv, Tree!TypeOK, TreeTrees
<1>5. TimesTell'
  BY <1>1 DEF TreeInv, TimesTell
<1> QED
  BY <1>2, <1>4, <1>5

LEMMA TreeDirectory ==
  ASSUME TreeInv, NEW p \in Tree!Paths, Tree!TakeDirectory(p) PROVE TreeInv'
<1> USE DEF Tree!TakeDirectory, Tree!Kept, Tree!Due
<1>0. UNCHANGED <<way, dated, source, since, unlucky, clock, treeEdits, runs, inHand>>
      /\ treeAt = "next" /\ treeAt' \in {"next", "failed"} /\ p \in DOMAIN plan
  OBVIOUS
<1>1. DOMAIN plan' = DOMAIN plan \ {p} /\ \A q \in DOMAIN plan' : plan'[q] = plan[q]
  BY DEF Tree!Without
<1>2. TreePlace'
  BY <1>0, <1>1 DEF TreeInv, TreePlace, Tree!TypeOK
<1>3. ListedBefore' /\ InHandFollows'
  BY <1>0, <1>1 DEF TreeInv, ListedBefore, InHandFollows, Tree!SourceSignature
<1>4. p \notin since => ~IsData(source[p])
  <2> SUFFICES ASSUME p \notin since PROVE ~IsData(source[p])
    OBVIOUS
  <2>1. plan[p] = Tree!SourceSignature(p)
    BY <1>0 DEF TreeInv, ListedBefore
  <2>2. Tree!SourceSignature(p).dir => source[p].kind = "dir"
    BY DEF Tree!SourceSignature, Tree!Signature
  <2>3. plan[p].dir
    OBVIOUS
  <2> QED
    BY <2>1, <2>2, <2>3 DEF IsData
<1>5. \/ UNCHANGED target
      \/ target' = [target EXCEPT ![p] = Tree!Directory]
  OBVIOUS
<1>6. \A q \in Tree!Paths \ {p} : target'[q] = target[q]
  BY <1>5 DEF TreeInv, Tree!TypeOK
<1>7. DoneIsSame'
  BY <1>0, <1>1, <1>4, <1>6 DEF TreeInv, DoneIsSame, Same
<1>8. TreeKinds' /\ TreeTrees' /\ SourceFormed' /\ TimesTell'
  <2>1. CASE UNCHANGED target
    BY <1>0, <2>1, QuietKeeps DEF TreeQuiet
  <2>2. CASE target' = [target EXCEPT ![p] = Tree!Directory]
    <3>1. Len(Tree!Directory.content) <= MaxSize
      BY TreeNodes, TreeAssumption
    <3>2. unlucky \subseteq Tree!Paths
      BY DEF TreeInv, Tree!TypeOK
    <3> QED
      BY <1>0, <2>2, <3>1, <3>2, TreeNodes, PutsKeeps DEF Puts
  <2> QED
    BY <1>5, <2>1, <2>2
<1> QED
  BY <1>2, <1>3, <1>7, <1>8, TreeTypesByPartsNext DEF TreeInv

LEMMA TreeOpen ==
  ASSUME TreeInv, NEW p \in Tree!Paths, Tree!OpenFile(p) PROVE TreeInv'
<1> USE DEF Tree!OpenFile, Tree!Kept, Tree!Due
<1> DEFINE new == Tree!File(<<>>, clock)
<1>0. /\ UNCHANGED <<way, dated, source, plan, since, unlucky, clock, treeEdits, runs>>
      /\ treeAt = "next" /\ treeAt' = "copy" /\ inHand' = p /\ p \in DOMAIN plan
      /\ IsData(source[p]) /\ target' = [target EXCEPT ![p] = new]
  BY DEF IsData
<1>1. clock \in 0..MaxTime /\ <<>> \in Seq(0..MaxChanges) /\ Len(<<>>) = 0
  BY DEF TreeInv, Tree!TypeOK
<1>2. new \in Tree!Nodes /\ new.kind = "file" /\ new.content = <<>>
  BY <1>1, TreeNodes
<1> HIDE DEF new
<1>3. \A q \in Tree!Paths : target'[q] = IF q = p THEN new ELSE target[q]
  BY <1>0 DEF TreeInv, Tree!TypeOK
<1>4. Len(source[p].content) \in 1..MaxSize
  BY <1>0 DEF TreeInv, SourceFormed
<1>5. TreePlace'
  BY <1>0, <1>2, <1>3 DEF TreeInv, TreePlace, Tree!TypeOK
<1>6. ListedBefore'
  BY <1>0 DEF TreeInv, ListedBefore, Tree!SourceSignature
<1>7. InHandFollows'
  <2>1. Prefix(new.content, source[p].content)
    BY <1>1, <1>2, <1>4 DEF Prefix
  <2> QED
    BY <1>0, <1>3, <2>1 DEF InHandFollows
<1>8. DoneIsSame'
  BY <1>0, <1>3 DEF TreeInv, DoneIsSame, Same
<1>9. TreeKinds' /\ TreeTrees' /\ SourceFormed' /\ TimesTell'
  <2>1. Len(new.content) <= MaxSize /\ Len(new.content) # Len(source[p].content)
    BY <1>1, <1>2, <1>4, TreeAssumption
  <2>2. unlucky \subseteq Tree!Paths
    BY DEF TreeInv, Tree!TypeOK
  <2> QED
    BY <1>0, <1>2, <2>1, <2>2, PutsKeeps DEF Puts
<1> QED
  BY <1>5, <1>6, <1>7, <1>8, <1>9, TreeTypesByPartsNext DEF TreeInv

\* A prefix that is as long is the same.
LEMMA PrefixWhole ==
  ASSUME NEW S, NEW s \in Seq(S), NEW t \in Seq(S), Prefix(s, t), Len(s) = Len(t)
  PROVE  s = t
BY SeqEqual DEF Prefix

LEMMA PrefixGrows ==
  ASSUME NEW S, NEW s \in Seq(S), NEW t \in Seq(S), Len(s) < Len(t)
  PROVE  LET u == Append(s, t[Len(s) + 1]) IN
         u \in Seq(S) /\ Len(u) = Len(s) + 1 /\ Len(u) <= Len(t) /\ (Prefix(s, t) => Prefix(u, t))
<1>1. Len(s) \in Nat /\ Len(t) \in Nat
  BY LenProperties
<1>2. t[Len(s) + 1] \in S
  BY <1>1, ElementOfSeq
<1> DEFINE u == Append(s, t[Len(s) + 1])
<1>3. u \in Seq(S) /\ Len(u) = Len(s) + 1 /\ u[Len(s) + 1] = t[Len(s) + 1]
      /\ \A i \in 1..Len(s) : u[i] = s[i]
  BY <1>1, <1>2, AppendProperties
<1> HIDE DEF u
<1>4. Len(u) <= Len(t) /\ \A i \in 1..Len(u) : i \in 1..Len(s) \/ i = Len(s) + 1
  BY <1>1, <1>3
<1>5. Prefix(s, t) => Prefix(u, t)
  BY <1>3, <1>4 DEF Prefix
<1> QED
  BY <1>3, <1>4, <1>5 DEF u

LEMMA TreeCopy ==
  ASSUME TreeInv, Tree!CopyChunk PROVE TreeInv'
<1> USE DEF Tree!CopyChunk, Tree!Kept
<1> DEFINE p == inHand
           s == target[inHand].content
           t == source[inHand].content
           u == Append(s, t[Len(s) + 1])
           new == Tree!File(u, clock)
<1>0. /\ UNCHANGED <<way, dated, source, plan, inHand, treeAt, since, clock, treeEdits, runs>>
      /\ treeAt = "copy" /\ Len(s) < Len(t) /\ target' = [target EXCEPT ![p] = new]
      /\ unlucky' = IF p \in since /\ source[p].time = clock THEN unlucky \cup {p} ELSE unlucky
  BY DEF Tree!More, Tree!Written
<1>1. /\ p \in Tree!Paths /\ p \in DOMAIN plan /\ target[p].kind = "file"
      /\ source[p] \in Tree!Nodes /\ target[p] \in Tree!Nodes /\ clock \in 0..MaxTime
      /\ unlucky \subseteq Tree!Paths
  BY <1>0 DEF TreeInv, Tree!TypeOK
<1>2. s \in Seq(0..MaxChanges) /\ t \in Seq(0..MaxChanges)
  BY <1>1 DEF Tree!Nodes
<1>3. /\ u \in Seq(0..MaxChanges) /\ Len(u) <= Len(t)
      /\ Prefix(s, t) => Prefix(u, t)
  BY <1>0, <1>2, PrefixGrows
<1>4. new \in Tree!Nodes /\ new.kind = "file" /\ new.content = u /\ new.time = clock
  BY <1>1, <1>3, TreeNodes
<1> HIDE DEF new, u
<1>5. \A q \in Tree!Paths : target'[q] = IF q = p THEN new ELSE target[q]
  BY <1>0 DEF TreeInv, Tree!TypeOK
<1>6. TreePlace'
  BY <1>0, <1>1, <1>4, <1>5 DEF TreeInv, TreePlace, Tree!TypeOK
<1>7. ListedBefore'
  BY <1>0 DEF TreeInv, ListedBefore, Tree!SourceSignature
<1>8. p \notin since => IsData(source[p]) /\ Prefix(u, t)
  BY <1>0, <1>3 DEF TreeInv, InHandFollows
<1>9. InHandFollows'
  BY <1>0, <1>1, <1>4, <1>5, <1>8 DEF InHandFollows
<1>10. DoneIsSame'
  BY <1>0, <1>1, <1>5 DEF TreeInv, DoneIsSame, Same
<1>11. TreeKinds' /\ TreeTrees' /\ SourceFormed' /\ TimesTell'
  <2>1. Len(u) <= MaxSize
    <3>1. Len(t) <= MaxSize
      BY <1>1 DEF TreeInv, SourceFormed
    <3>2. Len(t) \in Nat /\ Len(u) \in Nat
      BY <1>2, <1>3, LenProperties
    <3> QED
      BY <1>3, <3>1, <3>2, TreeAssumption
  <2>2. ASSUME p \notin unlucky', Len(u) = Len(t), clock = source[p].time
        PROVE  u = t
    <3>1. Prefix(u, t)
      BY <1>0, <1>8, <2>2
    <3> QED
      BY <1>2, <1>3, <2>2, <3>1, PrefixWhole
  <2> QED
    BY <1>0, <1>1, <1>4, <2>1, <2>2, PutsKeeps DEF Puts
<1> QED
  BY <1>6, <1>7, <1>9, <1>10, <1>11, TreeTypesByPartsNext DEF TreeInv

LEMMA TreeCopyEnds ==
  ASSUME TreeInv, Tree!CopyEnds PROVE TreeInv'
<1> USE DEF Tree!CopyEnds, Tree!Kept
<1>0. /\ TreeQuiet /\ UNCHANGED <<clock, treeEdits, runs, plan, inHand>>
      /\ treeAt = "copy" /\ treeAt' = "time"
  BY DEF TreeQuiet
<1>1. TreePlace'
  BY <1>0 DEF TreeInv, TreePlace, Tree!TypeOK
<1>2. ListedBefore' /\ DoneIsSame'
  BY <1>0 DEF TreeInv, ListedBefore, DoneIsSame, TreeQuiet, Tree!SourceSignature, Same
<1>3. inHand \notin since => Same(inHand)
  <2> SUFFICES ASSUME inHand \notin since PROVE Same(inHand)
    OBVIOUS
  <2>1. /\ target[inHand].kind = "file" /\ source[inHand] \in Tree!Nodes
        /\ target[inHand] \in Tree!Nodes
    BY <1>0 DEF TreeInv, Tree!TypeOK
  <2>2. target[inHand].content \in Seq(0..MaxChanges)
          /\ source[inHand].content \in Seq(0..MaxChanges)
    BY <2>1 DEF Tree!Nodes
  <2>3. Prefix(target[inHand].content, source[inHand].content)
    BY <1>0 DEF TreeInv, InHandFollows
  <2>4. Len(target[inHand].content) \in Nat /\ Len(source[inHand].content) \in Nat
    BY <2>2, LenProperties
  <2>5. Len(target[inHand].content) = Len(source[inHand].content)
    BY <2>3, <2>4 DEF Prefix, Tree!More, Tree!Written
  <2> QED
    BY <2>1, <2>2, <2>3, <2>5, PrefixWhole DEF Same
<1>4. InHandFollows'
  BY <1>0, <1>3 DEF TreeInv, InHandFollows, TreeQuiet, Same
<1> QED
  BY <1>0, <1>1, <1>2, <1>4, QuietKeeps, TreeTypesByPartsNext DEF TreeInv

\* A file is done: the entry in hand leaves the plan.
LEMMA TreeNextEntry ==
  ASSUME TreeInv, treeAt = "time", Tree!NextEntry, NEW node \in Tree!Nodes,
         Puts(inHand, node), unlucky' = unlucky,
         node.kind = "file", node.content = target[inHand].content,
         node.time = target[inHand].time
           \/ (node.time = plan[inHand].time /\ plan[inHand].time # Tree!NoTime)
  PROVE  TreeInv'
<1> USE DEF Tree!NextEntry
<1>0. /\ UNCHANGED <<way, dated, source, since, unlucky, clock, treeEdits, runs>>
      /\ treeAt' = "next" /\ target' = [target EXCEPT ![inHand] = node]
  BY DEF Puts
<1>1. inHand \in Tree!Paths /\ inHand \in DOMAIN plan /\ target[inHand].kind = "file"
      /\ target[inHand] \in Tree!Nodes /\ unlucky \subseteq Tree!Paths
      /\ Len(target[inHand].content) <= MaxSize
  BY DEF TreeInv, Tree!TypeOK
<1>2. DOMAIN plan' = DOMAIN plan \ {inHand} /\ \A q \in DOMAIN plan' : plan'[q] = plan[q]
  BY DEF Tree!Without
<1>3. \A q \in Tree!Paths : target'[q] = IF q = inHand THEN node ELSE target[q]
  BY <1>0 DEF TreeInv, Tree!TypeOK
<1>4. TreePlace'
  BY <1>0, <1>2 DEF TreeInv, TreePlace, Tree!TypeOK
<1>5. ListedBefore' /\ InHandFollows'
  BY <1>0, <1>2 DEF TreeInv, ListedBefore, InHandFollows, Tree!SourceSignature
<1>6. inHand \notin since => Same(inHand)
  BY DEF TreeInv, InHandFollows
<1>7. DoneIsSame'
  BY <1>0, <1>1, <1>2, <1>3, <1>6 DEF TreeInv, DoneIsSame, Same
<1>8. inHand \notin unlucky /\ IsData(source[inHand])
      /\ Len(node.content) = Len(source[inHand].content) /\ node.time = source[inHand].time
      => node.content = source[inHand].content
  <2> SUFFICES ASSUME inHand \notin unlucky, IsData(source[inHand]),
                      Len(node.content) = Len(source[inHand].content),
                      node.time = source[inHand].time
               PROVE  node.content = source[inHand].content
    OBVIOUS
  <2>1. CASE inHand \notin since
    BY <1>6, <2>1 DEF Same
  <2>2. CASE node.time = target[inHand].time
    BY <1>1, <2>2 DEF TreeInv, TimesTell
  <2>3. CASE inHand \in since /\ node.time = plan[inHand].time /\ plan[inHand].time # Tree!NoTime
    <3>1. plan[inHand].time < source[inHand].time
      BY <1>1, <2>3 DEF TreeInv, ListedBefore
    <3>2. plan[inHand].time \in Nat /\ source[inHand].time \in Nat
      BY <1>1, TreeAssumption DEF TreeInv, ListedBefore, Tree!TypeOK, Tree!Nodes
    <3> QED
      BY <2>3, <3>1, <3>2
  <2> QED
    BY <2>1, <2>2, <2>3
<1>9. TreeKinds' /\ TreeTrees' /\ SourceFormed' /\ TimesTell'
  BY <1>0, <1>1, <1>8, PutsKeeps
<1> QED
  BY <1>4, <1>5, <1>7, <1>9, TreeTypesByPartsNext DEF TreeInv

LEMMA TreeSetTime ==
  ASSUME TreeInv, Tree!SetTime PROVE TreeInv'
<1> USE DEF Tree!SetTime, Tree!Kept
<1>1. inHand \in Tree!Paths /\ inHand \in DOMAIN plan /\ target[inHand].kind = "file"
      /\ target[inHand] \in Tree!Nodes /\ target \in [Tree!Paths -> Tree!Nodes]
  BY DEF TreeInv, Tree!TypeOK
<1>2. plan[inHand].time \in 0..MaxTime
  BY <1>1 DEF TreeInv, ListedBefore
<1>3. CASE plan[inHand].time = Tree!NoTime
  <2>1. target' = [target EXCEPT ![inHand] = target[inHand]]
    BY <1>1, <1>3
  <2> QED
    BY <1>1, <2>1, TreeNextEntry DEF Puts
<1>4. CASE plan[inHand].time # Tree!NoTime
  <2> DEFINE node == [target[inHand] EXCEPT !.time = plan[inHand].time]
  <2>1. node \in Tree!Nodes /\ node.kind = "file" /\ node.content = target[inHand].content
        /\ node.time = plan[inHand].time
    BY <1>1, <1>2 DEF Tree!Nodes
  <2>2. target' = [target EXCEPT ![inHand] = node]
    BY <1>1, <1>4
  <2> HIDE DEF node
  <2> QED
    BY <1>4, <2>1, <2>2, TreeNextEntry DEF Puts
<1> QED
  BY <1>3, <1>4

LEMMA TreeSetTimeFails ==
  ASSUME TreeInv, Tree!SetTimeFails PROVE TreeInv'
<1> USE DEF Tree!SetTimeFails, Tree!Kept
<1>1. CASE way = "upload"
  <2>1. inHand \in Tree!Paths /\ inHand \in DOMAIN plan /\ target[inHand].kind = "file"
        /\ target[inHand] \in Tree!Nodes /\ target \in [Tree!Paths -> Tree!Nodes]
    BY DEF TreeInv, Tree!TypeOK
  <2>2. target' = [target EXCEPT ![inHand] = target[inHand]]
    BY <2>1
  <2> QED
    BY <1>1, <2>1, <2>2, TreeNextEntry DEF Puts
<1>2. CASE way # "upload"
  <2>0. TreeQuiet /\ UNCHANGED <<clock, treeEdits, runs, plan, inHand>> /\ treeAt' = "failed"
    BY <1>2 DEF TreeQuiet
  <2>1. TreePlace'
    BY <2>0 DEF TreeInv, TreePlace, Tree!TypeOK
  <2>2. ListedBefore' /\ DoneIsSame' /\ InHandFollows'
    BY <2>0 DEF TreeInv, ListedBefore, DoneIsSame, InHandFollows, TreeQuiet, Tree!SourceSignature
  <2> QED
    BY <2>0, <2>1, <2>2, QuietKeeps, TreeTypesByPartsNext DEF TreeInv
<1> QED
  BY <1>1, <1>2

LEMMA TreeChange ==
  ASSUME TreeInv, NEW p \in Tree!Paths, NEW node \in Tree!Nodes, Tree!Change(p, node),
         source[p].kind = "file", treeEdits < MaxChanges, Len(node.content) <= MaxSize,
         (~IsData(node) /\ node.time = 0)
           \/ (node.time = clock /\ Len(node.content) \in 1..MaxSize)
  PROVE  TreeInv'
<1> USE DEF Tree!Change, Tree!Kept
<1>0. /\ UNCHANGED <<way, dated, target, plan, inHand, treeAt, clock, runs>>
      /\ source' = [source EXCEPT ![p] = node] /\ since' = since \cup {p}
      /\ unlucky \subseteq unlucky' /\ unlucky' \subseteq unlucky \cup {p}
      /\ p \notin unlucky' => clock # source[p].time /\ clock # target[p].time
  OBVIOUS
<1>1. \A q \in Tree!Paths : source'[q] = IF q = p THEN node ELSE source[q]
  BY <1>0 DEF TreeInv, Tree!TypeOK
<1>2. clock \in Nat /\ source[p].time \in Nat /\ source[p].time <= clock
  BY TreeAssumption DEF TreeInv, Tree!TypeOK, Tree!Nodes, SourceFormed
<1>3. TreeKinds'
  BY <1>0, TreeAssumption DEF TreeInv, Tree!TypeOK, TreeKinds
<1>4. TreePlace'
  BY <1>0 DEF TreeInv, Tree!TypeOK, TreePlace
<1>5. TreeTrees'
  BY <1>0 DEF TreeInv, Tree!TypeOK, TreeTrees
<1>6. SourceFormed'
  <2>1. node.time <= clock
    BY <1>2
  <2> QED
    BY <1>0, <1>1, <2>1 DEF TreeInv, SourceFormed
<1>7. \A q \in Tree!Paths \ {p} : Tree!SourceSignature(q)' = Tree!SourceSignature(q)
  BY <1>0, <1>1 DEF Tree!SourceSignature
<1>8. p \in DOMAIN plan /\ p \notin unlucky' /\ IsData(node) /\ plan[p].time # Tree!NoTime
        => plan[p].time < node.time
  <2> SUFFICES ASSUME p \in DOMAIN plan, p \notin unlucky', IsData(node),
                      plan[p].time # Tree!NoTime
               PROVE  plan[p].time < clock
    OBVIOUS
  <2>1. plan[p].time \in Nat
    BY TreeAssumption DEF TreeInv, ListedBefore
  <2>2. CASE p \in since
    <3>1. plan[p].time < source[p].time
      BY <1>0, <2>2 DEF TreeInv, ListedBefore, IsData
    <3> QED
      BY <1>2, <2>1, <3>1
  <2>3. CASE p \notin since
    <3>1. plan[p] = Tree!SourceSignature(p)
      BY <2>3 DEF TreeInv, ListedBefore
    <3>2. plan[p].time = source[p].time
      BY <3>1 DEF Tree!SourceSignature, Tree!Signature
    <3> QED
      BY <1>0, <1>2, <2>1, <3>2
  <2> QED
    BY <2>2, <2>3
<1>9. ListedBefore'
  <2>1. ASSUME NEW q \in DOMAIN plan, q # p
        PROVE  /\ q \notin since' => plan[q] = Tree!SourceSignature(q)'
               /\ q \in since' \ unlucky' /\ IsData(source'[q]) /\ plan[q].time # Tree!NoTime
                    => plan[q].time < source'[q].time
    <3>1. q \in Tree!Paths
      BY DEF TreeInv, Tree!TypeOK
    <3>2. source'[q] = source[q] /\ Tree!SourceSignature(q)' = Tree!SourceSignature(q)
          /\ (q \in since' <=> q \in since) /\ (q \in unlucky' <=> q \in unlucky)
      BY <1>0, <1>1, <1>7, <2>1, <3>1
    <3> QED
      BY <3>2 DEF TreeInv, ListedBefore
  <2>2. p \in since' /\ source'[p] = node
    BY <1>0, <1>1
  <2>3. \A q \in DOMAIN plan : plan[q].time \in 0..MaxTime
    BY DEF TreeInv, ListedBefore
  <2> QED
    BY <1>0, <1>8, <2>1, <2>2, <2>3 DEF ListedBefore
<1>10. DoneIsSame'
  BY <1>0, <1>1 DEF TreeInv, DoneIsSame, Same
<1>11. InHandFollows'
  BY <1>0, <1>1 DEF TreeInv, Tree!TypeOK, InHandFollows, Same
<1>12. TimesTell'
  <2>1. p \notin unlucky' /\ IsData(node) => target[p].time # node.time
    BY <1>0
  <2> QED
    BY <1>0, <1>1, <2>1 DEF TreeInv, TimesTell
<1> QED
  BY <1>3, <1>4, <1>5, <1>6, <1>9, <1>10, <1>11, <1>12, TreeTypesByPartsNext DEF TreeInv

LEMMA TreeStep ==
  ASSUME TreeInv, Tree!Next PROVE TreeInv'
<1>1. ASSUME NEW p \in Tree!Paths, Tree!Edit(p) PROVE TreeInv'
  <2>1. PICK c \in Tree!Contents(treeEdits + 1) : Tree!Change(p, Tree!File(c, clock))
    BY <1>1 DEF Tree!Edit
  <2>2. treeEdits + 1 \in 0..MaxChanges /\ clock \in 0..MaxTime /\ treeEdits < MaxChanges
    BY <1>1, TreeAssumption DEF Tree!Edit, TreeInv, Tree!TypeOK
  <2>3. c \in Seq(0..MaxChanges) /\ Len(c) \in 1..MaxSize
    BY <2>2, TreeContents
  <2>4. Len(c) <= MaxSize
    BY <2>3, TreeAssumption
  <2>5. Tree!File(c, clock) \in Tree!Nodes /\ Tree!File(c, clock).time = clock
        /\ Tree!File(c, clock).content = c
    BY <2>2, <2>3, TreeNodes
  <2> QED
    BY <1>1, <2>1, <2>2, <2>3, <2>4, <2>5, TreeChange DEF Tree!Edit
<1>2. ASSUME NEW p \in Tree!Paths, Tree!Delete(p) PROVE TreeInv'
  <2>1. Len(Tree!Missing.content) <= MaxSize
    BY TreeNodes, TreeAssumption
  <2> QED
    BY <1>2, <2>1, TreeNodes, TreeChange DEF Tree!Delete, IsData
<1> QED
  BY <1>1, <1>2, TreeBegin, TreeCopy, TreeCopyEnds, TreeSetTime, TreeSetTimeFails, TreeBreak,
     TreeFinish, TreeTick, TreeDirectory, TreeSkip, TreeOpen DEF Tree!Next

-----------------------------------------------------------------------------
(* SftpWatch                                                               *)

TheFiles == Watch!Files \cap Watch!Watched
Exists(f) == watchLocal[f].version # 0
\* What the task knows of a file is from no later second than the file's last change.
Older(f, signature) == \A size \in 1..2, s \in 0..MaxSecond :
                          signature = <<size, s>> => s <= watchLocal[f].second
KnownIsOlder ==
  /\ \A p \in Watch!Paths : watchLocal[p].second <= second
  /\ \A f \in Watch!Files :
       /\ remote[f].second <= watchLocal[f].second /\ Older(f, processed[f])
       /\ f \in DOMAIN listed => Older(f, listed[f])
       /\ watchAt \in {"stability", "upload"} /\ path = f => Older(f, seen)
\* The second of a change tells the version, unless two were made in it.
SecondsTell ==
  \A f \in Watch!Files \ twice :
    Exists(f) /\ remote[f].version # 0 /\ remote[f].second = watchLocal[f].second
      => Watch!Whole(f)
\* What has been processed is there.
ProcessedIsUploaded ==
  \A f \in Watch!Files \ twice :
    Exists(f) /\ processed[f] = Watch!Signature(watchLocal[f]) => Watch!Whole(f)

InRound == watchAt \in {"round", "stability", "upload"}
UploadedRoots ==
  InRound => \A root \in roots, f \in TheFiles \ twice :
    Watch!Under(f, root) /\ Exists(f) => Watch!Whole(f) \/ f \in events
\* The upload in hand: what it has not listed, listed or copied as it is now is
\* named by an event.
UploadFollows ==
  watchAt = "upload" =>
    /\ \A f \in TheFiles \ twice : Watch!Under(f, path) /\ Exists(f) /\ f \notin events =>
         /\ f \in DOMAIN listed /\ listed[f] = Watch!Signature(watchLocal[f])
         /\ f \in copied => Watch!Whole(f)
    /\ path \in Watch!Files =>
         /\ path \in DOMAIN listed /\ listed[path] = seen
         /\ path \notin twice /\ Exists(path) /\ seen = Watch!Signature(watchLocal[path])
            /\ path \in copied => Watch!Whole(path)
InHand(f) == watchAt \in {"stability", "upload"} /\ path = f
UploadedOrComing ==
  /\ watchAt \in {"wait", "debounce"} => batch = {}
  /\ watchAt # "ended" => \A f \in TheFiles \ (failed \cup twice) :
       Exists(f) => Watch!Whole(f) \/ f \in events \cup pending \cup batch \/ InHand(f)

\* Versions count the edits.
VersionsCount == \A f \in Watch!Files : watchLocal[f].version <= watchEdits

WatchInv == /\ Watch!TypeOK /\ VersionsCount /\ KnownIsOlder /\ SecondsTell /\ ProcessedIsUploaded
            /\ UploadedRoots /\ UploadFollows /\ UploadedOrComing

LEMMA WatchGoal == WatchInv => Watch!TypeOK /\ Watch!SettledIsUploaded
<1> SUFFICES ASSUME WatchInv, Watch!Settled, NEW f \in TheFiles \ (failed \cup twice)
             PROVE  Watch!Whole(f)
  BY DEF WatchInv, Watch!SettledIsUploaded, TheFiles
<1>1. watchAt = "wait" /\ events \cup pending \cup batch = {}
  BY DEF Watch!Settled, WatchInv, UploadedOrComing
<1>2. Exists(f) => Watch!Whole(f)
  BY <1>1 DEF WatchInv, UploadedOrComing, InHand
<1> QED
  BY <1>2 DEF Exists, Watch!Whole

LEMMA WatchPaths ==
  /\ Watch!Paths = {Folder, FileB, FileA} /\ Watch!Files = {FileB, FileA}
  /\ Folder \notin Watch!Files /\ FileA # FileB
  /\ Watch!Watched \subseteq Watch!Paths /\ TheFiles \subseteq Watch!Files
  /\ TheFiles \subseteq Watch!Watched
  /\ \A p \in Watch!Paths : Watch!Under(p, p)
BY TreeAssumption DEF Watch!Paths, Watch!Files, Watch!Watched, Watch!Under, TheFiles

WatchNodes == [version : 0..MaxWatched \cup {1}, size : 1..2, second : 0..MaxSecond]

LEMMA WatchNumbers ==
  /\ 0 \in 0..MaxWatched /\ 1 \in 1..2 /\ 2 \in 1..2 /\ 0 \in 0..MaxSecond /\ 1 \in 1..MaxSecond
  /\ 0 \in 0..(Retries - 1) /\ \A n \in 1..MaxSecond : n \in 0..MaxSecond
  /\ \A n \in 0..MaxSecond : n \in Int /\ 0 <= n
  /\ MaxWatched \in Nat /\ MaxSecond \in Nat /\ Retries \in Nat
BY WatchAssumption

\* What is known of no file, and of one.
LEMMA SignaturesTell ==
  /\ \A size, s : Watch!Unknown # <<size, s>>
  /\ \A n, s, u, v : <<n, s>> = <<u, v>> <=> n = u /\ s = v
<1>1. \A size, s : DOMAIN <<size, s>> = 1..2
  OBVIOUS
<1>2. DOMAIN Watch!Unknown = {}
  BY DEF Watch!Unknown
<1>3. 1 \in 1..2
  OBVIOUS
<1> QED
  BY <1>1, <1>2, <1>3

\* The signature of a file is as old as the file, and nothing is older than Unknown.
LEMMA SignaturesAge ==
  ASSUME NEW f \in Watch!Files
  PROVE  Older(f, Watch!Unknown) /\ Older(f, Watch!Signature(watchLocal[f]))
<1>1. Older(f, Watch!Unknown)
  BY SignaturesTell DEF Older
<1>2. \A size \in 1..2, s \in 0..MaxSecond :
        Watch!Signature(watchLocal[f]) = <<size, s>> => s = watchLocal[f].second
  BY SignaturesTell DEF Watch!Signature
<1>3. \A s \in 0..MaxSecond : s = watchLocal[f].second => s <= watchLocal[f].second
  BY WatchNumbers
<1> QED
  BY <1>1, <1>2, <1>3 DEF Older

LEMMA WatchStarts == Watch!Init => WatchInv
<1> SUFFICES ASSUME Watch!Init PROVE WatchInv
  OBVIOUS
<1> USE DEF Watch!Init
<1>1. /\ watchAt = "wait" /\ events = {} /\ pending = {} /\ batch = {} /\ roots = {}
      /\ DOMAIN listed = {} /\ copied = {} /\ failed = {} /\ twice = {} /\ tries = 0
      /\ second = 1 /\ watchEdits = 0 /\ kind \in {"file", "directory"}
  OBVIOUS
<1>2. /\ \A f \in Watch!Files : ~Exists(f) /\ remote[f].version = 0 /\ remote[f].second = 0
                                 /\ processed[f] = Watch!Unknown
      /\ \A p \in Watch!Paths : watchLocal[p].second = 0
      /\ \A f \in Watch!Files : watchLocal[f].version = 0
  BY WatchPaths DEF Exists
<1>3. Watch!TypeOK
  <2>1. watchLocal \in [Watch!Paths -> WatchNodes]
    BY WatchNumbers DEF WatchNodes
  <2>2. remote \in [Watch!Files -> [version : 0..MaxWatched, size : 1..2, second : 0..MaxSecond]]
    BY WatchNumbers
  <2> QED
    BY <1>1, <2>1, <2>2, WatchNumbers DEF Watch!TypeOK, WatchNodes
<1>4. KnownIsOlder
  <2>1. \A p \in Watch!Paths : watchLocal[p].second <= second
    BY <1>1, <1>2
  <2>2. \A f \in Watch!Files : remote[f].second <= watchLocal[f].second
    BY <1>2, WatchPaths
  <2>3. \A f \in Watch!Files : Older(f, processed[f])
    BY <1>2, SignaturesAge
  <2> QED
    BY <1>1, <2>1, <2>2, <2>3 DEF KnownIsOlder
<1>5. SecondsTell /\ ProcessedIsUploaded /\ UploadedRoots /\ UploadFollows /\ UploadedOrComing
  BY <1>1, <1>2, WatchPaths DEF SecondsTell, ProcessedIsUploaded, UploadedRoots, InRound,
    UploadFollows,
     UploadedOrComing
<1>6. VersionsCount
  <2>1. 0 <= 0
    OBVIOUS
  <2> QED
    BY <1>1, <1>2, <2>1 DEF VersionsCount
<1> QED
  BY <1>3, <1>4, <1>5, <1>6 DEF WatchInv

LEMMA WatchRemove ==
  ASSUME WatchInv, NEW p \in Watch!Files, Watch!Remove(p) PROVE WatchInv'
<1> USE DEF Watch!Remove, Watch!task, Watch!upload
<1>0. /\ UNCHANGED <<kind, pending, batch, roots, processed, watchAt, path, seen, tries, heard,
                     remote, listed, copied, failed, second, twice, events>>
      /\ watchLocal' = [watchLocal EXCEPT ![p].version = 0]
      /\ watchEdits' = watchEdits + 1 /\ watchEdits < MaxWatched
  OBVIOUS
<1>1. /\ \A q \in Watch!Paths : watchLocal'[q].second = watchLocal[q].second
                                 /\ watchLocal'[q].size = watchLocal[q].size
      /\ \A q \in Watch!Paths : q # p => watchLocal'[q] = watchLocal[q]
      /\ watchLocal'[p].version = 0 /\ ~Exists(p)'
  BY <1>0, WatchPaths DEF WatchInv, Watch!TypeOK, Exists
<1>2. watchEdits + 1 \in 0..MaxWatched /\ watchEdits <= watchEdits + 1 /\ 0 <= watchEdits + 1
  BY <1>0, WatchNumbers DEF WatchInv, Watch!TypeOK
<1>3. Watch!TypeOK'
  <2>1. watchLocal' \in [Watch!Paths -> WatchNodes]
    BY <1>0, WatchNumbers DEF WatchInv, Watch!TypeOK, WatchNodes
  <2> QED
    BY <1>0, <1>2, <2>1 DEF WatchInv, Watch!TypeOK, WatchNodes, Watch!Watched
<1>4. KnownIsOlder'
  BY <1>0, <1>1, WatchPaths DEF WatchInv, KnownIsOlder, Older
<1>5. SecondsTell' /\ ProcessedIsUploaded'
  BY <1>0, <1>1, WatchPaths DEF WatchInv, SecondsTell, ProcessedIsUploaded, Exists, Watch!Whole,
    Watch!Signature
<1>6. UploadedRoots' /\ UploadFollows' /\ UploadedOrComing'
  BY <1>0, <1>1, WatchPaths DEF WatchInv, UploadedRoots, UploadFollows, UploadedOrComing, TheFiles,
     Watch!Watched, InRound, InHand, Exists, Watch!Whole, Watch!Signature
<1>7. VersionsCount'
  <2>1. \A f \in Watch!Files : watchLocal[f].version \in Int /\ watchEdits \in Int
    BY WatchPaths, WatchNumbers DEF WatchInv, Watch!TypeOK
  <2> QED
    BY <1>0, <1>1, <1>2, <2>1, WatchPaths DEF WatchInv, VersionsCount
<1> QED
  BY <1>3, <1>4, <1>5, <1>6, <1>7 DEF WatchInv

LEMMA WatchEdit ==
  ASSUME WatchInv, NEW p \in Watch!Files, Watch!Edit(p) PROVE WatchInv'
<1>0. /\ UNCHANGED <<kind, pending, batch, roots, processed, watchAt, path, seen, tries, heard,
                     remote, listed, copied, second>>
      /\ watchEdits' = watchEdits + 1 /\ watchEdits < MaxWatched
      /\ failed' = failed \ {p}
      /\ twice' = IF watchLocal[p].second = second THEN twice \cup {p} ELSE twice
  BY DEF Watch!Edit, Watch!task
<1>1. PICK size \in 1..2 :
        LET new == watchLocal[p].version = 0 /\ p = FileB IN
        /\ watchLocal' = [q \in Watch!Paths |->
              IF q = p THEN Watch!Node(watchEdits + 1, size)
              ELSE IF q = Folder /\ new THEN [watchLocal[q] EXCEPT !.second = second]
              ELSE watchLocal[q]]
        /\ Watch!Tell(IF new THEN {p, Folder} ELSE {p})
  BY DEF Watch!Edit
<1>2. /\ watchEdits + 1 \in 0..MaxWatched /\ watchEdits < watchEdits + 1
      /\ second \in 0..MaxSecond /\ second <= second
  BY <1>0, WatchNumbers DEF WatchInv, Watch!TypeOK
<1>3. /\ watchLocal'[p] = Watch!Node(watchEdits + 1, size)
      /\ watchLocal'[p].second = second /\ watchLocal'[p].version = watchEdits + 1
      /\ \A q \in Watch!Files : q # p => watchLocal'[q] = watchLocal[q]
      /\ watchLocal'[Folder].second \in {watchLocal[Folder].second, second}
      /\ watchLocal'[Folder].version = watchLocal[Folder].version
  BY <1>1, WatchPaths DEF WatchInv, Watch!TypeOK, Watch!Node
<1>4. /\ events' \subseteq events \cup Watch!Watched /\ events \subseteq events'
      /\ p \in Watch!Watched => p \in events'
  BY <1>1 DEF Watch!Tell
<1>5. Watch!TypeOK'
  <2>1. Watch!Node(watchEdits + 1, size) \in WatchNodes
    BY <1>2 DEF Watch!Node, WatchNodes
  <2>2. \A q \in Watch!Paths : watchLocal[q] \in WatchNodes
    BY DEF WatchInv, Watch!TypeOK, WatchNodes
  <2>3. [watchLocal[Folder] EXCEPT !.second = second] \in WatchNodes
    BY <1>2, <2>2, WatchPaths DEF WatchNodes
  <2>4. watchLocal' \in [Watch!Paths -> WatchNodes]
    BY <1>1, <2>1, <2>2, <2>3
  <2>5. failed' \cup twice' \subseteq Watch!Files
    BY <1>0 DEF WatchInv, Watch!TypeOK
  <2>6. (events \cup pending \cup batch \cup roots \subseteq Watch!Watched)'
    BY <1>0, <1>4 DEF WatchInv, Watch!TypeOK, Watch!Watched
  <2> QED
    BY <1>0, <1>2, <2>4, <2>5, <2>6 DEF WatchInv, Watch!TypeOK, WatchNodes, Watch!Watched
<1>6. VersionsCount'
  <2>1. \A f \in Watch!Files : watchLocal[f].version \in Int
    BY WatchPaths, WatchNumbers DEF WatchInv, Watch!TypeOK
  <2>2. watchEdits \in Int
    BY WatchNumbers DEF WatchInv, Watch!TypeOK
  <2> QED
    BY <1>0, <1>2, <1>3, <2>1, <2>2, WatchPaths DEF WatchInv, VersionsCount
\* What is known of the file is not from this second, unless it changes twice in it.
<1>7. /\ watchLocal[p].second \in Int /\ second \in Int /\ watchLocal[p].second <= second
      /\ remote[p].second \in Int
      /\ remote[p].second <= watchLocal[p].second
  BY WatchPaths, WatchNumbers DEF WatchInv, Watch!TypeOK, KnownIsOlder
<1>8. p \notin twice' => watchLocal[p].second # second /\ remote[p].second # second
  BY <1>0, <1>7
<1>9. ASSUME NEW signature, Older(p, signature)
      PROVE  /\ \A u \in 1..2, s \in 0..MaxSecond : signature = <<u, s>> => s <= second
             /\ p \notin twice' => signature # Watch!Signature(watchLocal'[p])
  <2>1. \A u \in 1..2, s \in 0..MaxSecond : signature = <<u, s>> => s <= watchLocal[p].second
    BY <1>9 DEF Older
  <2>2. ASSUME NEW s \in 0..MaxSecond, s <= watchLocal[p].second PROVE s <= second
    BY <1>7, <2>2, WatchNumbers
  <2>3. size \in 1..2 /\ watchLocal'[p].size = size
    BY <1>3 DEF Watch!Node
  <2>4. watchLocal[p].second # second => ~(second <= watchLocal[p].second)
    BY <1>7
  <2> QED
    BY <1>2, <1>3, <1>8, <2>1, <2>2, <2>3, <2>4 DEF Watch!Signature
<1>10. KnownIsOlder'
  <2>1. \A q \in Watch!Paths : watchLocal'[q].second <= second
    BY <1>2, <1>3, WatchPaths DEF WatchInv, KnownIsOlder
  <2>2. remote[p].second <= second
    BY <1>7
  <2>3. \A signature : Older(p, signature) => Older(p, signature)'
    BY <1>3, <1>9 DEF Older
  <2>4. \A q \in Watch!Files : \A signature :
          q # p /\ Older(q, signature) => Older(q, signature)'
    BY <1>3 DEF Older
  <2>5. \A f \in Watch!Files : remote[f].second <= watchLocal'[f].second
    BY <1>3, <2>2 DEF WatchInv, KnownIsOlder
  <2>6. \A f \in Watch!Files :
       /\ Older(f, processed[f])'
       /\ f \in DOMAIN listed => Older(f, listed[f])'
       /\ watchAt \in {"stability", "upload"} /\ path = f => Older(f, seen)'
    BY <1>0, <2>3, <2>4 DEF WatchInv, KnownIsOlder
  <2> QED
    BY <1>0, <2>1, <2>5, <2>6 DEF KnownIsOlder
<1>11. \A f \in Watch!Files : f # p =>
         /\ Exists(f)' <=> Exists(f)
         /\ Watch!Whole(f)' <=> Watch!Whole(f)
         /\ Watch!Signature(watchLocal[f])' = Watch!Signature(watchLocal[f])
         /\ f \in twice' <=> f \in twice
         /\ f \in failed' <=> f \in failed
  BY <1>0, <1>3 DEF Exists, Watch!Whole, Watch!Signature
<1>12. SecondsTell'
  BY <1>0, <1>3, <1>8, <1>11 DEF WatchInv, SecondsTell, Exists
<1>13. Older(p, processed[p]) /\ (watchAt = "upload" /\ path = p => Older(p, seen))
  BY DEF WatchInv, KnownIsOlder
<1>14. ProcessedIsUploaded'
  BY <1>0, <1>9, <1>11, <1>13 DEF WatchInv, ProcessedIsUploaded, Watch!Signature
<1>15. p \in TheFiles => p \in events'
  BY <1>4, WatchPaths
<1>16. UploadedRoots' /\ UploadedOrComing'
  BY <1>0, <1>4, <1>11, <1>15, WatchPaths DEF WatchInv, UploadedRoots, UploadedOrComing, TheFiles,
     Watch!Watched, InRound, InHand
<1>17. UploadFollows'
  <2>1. ASSUME watchAt = "upload"
        PROVE  \A f \in TheFiles \ twice' :
                  Watch!Under(f, path) /\ Exists(f)' /\ f \notin events' =>
                    /\ f \in DOMAIN listed /\ listed[f] = Watch!Signature(watchLocal[f])'
                    /\ f \in copied => Watch!Whole(f)'
    BY <1>4, <1>11, <1>15, <2>1, WatchPaths DEF WatchInv, UploadFollows
  <2>2. ASSUME watchAt = "upload", path \in Watch!Files
        PROVE  /\ path \in DOMAIN listed /\ listed[path] = seen
               /\ path \notin twice' /\ Exists(path)' /\ seen = Watch!Signature(watchLocal[path])'
                  /\ path \in copied => Watch!Whole(path)'
    <3>1. CASE path = p
      BY <1>0, <1>9, <1>13, <2>2, <3>1 DEF WatchInv, UploadFollows, Watch!Signature
    <3>2. CASE path # p
      BY <1>0, <1>11, <2>2, <3>2 DEF WatchInv, UploadFollows
    <3> QED
      BY <3>1, <3>2
  <2> QED
    BY <1>0, <2>1, <2>2 DEF UploadFollows, TheFiles, Watch!Watched
<1> QED
  BY <1>5, <1>6, <1>10, <1>12, <1>14, <1>16, <1>17 DEF WatchInv

LEMMA WatchTick ==
  ASSUME WatchInv, Watch!Tick PROVE WatchInv'
<1>0. /\ UNCHANGED <<kind, pending, batch, roots, processed, watchAt, path, seen, tries, heard,
                     remote, listed, copied, failed, twice, watchLocal, watchEdits, events>>
      /\ second' = second + 1 /\ second < MaxSecond
  BY DEF Watch!Tick, Watch!task, Watch!upload
<1>1. second' \in 1..MaxSecond
  BY <1>0, WatchNumbers DEF WatchInv, Watch!TypeOK
<1>2. Watch!TypeOK'
  BY <1>0, <1>1 DEF WatchInv, Watch!TypeOK, Watch!Watched
<1>3. \A q \in Watch!Paths : watchLocal[q].second <= second + 1
  <2>1. \A q \in Watch!Paths : watchLocal[q].second \in Int /\ watchLocal[q].second <= second
    BY WatchNumbers DEF WatchInv, Watch!TypeOK, KnownIsOlder
  <2>2. second \in Int
    BY DEF WatchInv, Watch!TypeOK
  <2> QED
    BY <2>1, <2>2
<1>4. KnownIsOlder'
  BY <1>0, <1>3 DEF WatchInv, KnownIsOlder, Older
<1> QED
  BY <1>0, <1>2, <1>4 DEF WatchInv, VersionsCount, SecondsTell, ProcessedIsUploaded, UploadedRoots,
     UploadFollows, UploadedOrComing, TheFiles, Watch!Watched, InRound, InHand, Exists, Watch!Whole,
     Watch!Signature

\* Steps of the task that touch neither the files nor the server.
WatchTaskStays ==
  UNCHANGED <<kind, watchLocal, second, watchEdits, twice, events, remote, listed, copied, failed>>

\* Between two uploads, what the task knows of the files is what counts.
LEMMA WatchBetween ==
  ASSUME WatchInv, UNCHANGED <<kind, watchLocal, second, watchEdits, twice, events, remote>>
  PROVE  VersionsCount' /\ SecondsTell'
BY DEF WatchInv, VersionsCount, SecondsTell, Exists, Watch!Whole

\* What the task knows stays as old, and what it has processed as it was.
LEMMA WatchKnows ==
  ASSUME WatchInv, WatchTaskStays,
         \A q \in Watch!Paths : processed'[q] \in {processed[q], Watch!Unknown},
         watchAt' \in {"stability", "upload"} /\ path' \in Watch!Files =>
           seen' = Watch!Signature(watchLocal[path']) \/
           (watchAt \in {"stability", "upload"} /\ path' = path /\ seen' = seen)
  PROVE  KnownIsOlder' /\ ProcessedIsUploaded'
<1> USE DEF WatchTaskStays
<1>0. \A f \in Watch!Files : \A signature : Older(f, signature) => Older(f, signature)'
  BY DEF Older
<1>1. \A f \in Watch!Files : Older(f, processed[f])'
  <2> SUFFICES ASSUME NEW f \in Watch!Files PROVE Older(f, processed'[f])
    BY DEF Older
  <2>1. processed'[f] \in {processed[f], Watch!Unknown}
    BY WatchPaths
  <2>2. Older(f, processed[f]) /\ Older(f, Watch!Unknown)
    BY SignaturesAge DEF WatchInv, KnownIsOlder
  <2> QED
    BY <2>1, <2>2
<1>2. \A f \in Watch!Files : watchAt' \in {"stability", "upload"} /\ path' = f => Older(f, seen)'
  <2> SUFFICES ASSUME NEW f \in Watch!Files, watchAt' \in {"stability", "upload"}, path' = f
               PROVE  Older(f, seen')
    BY DEF Older
  <2>1. Older(f, Watch!Signature(watchLocal[f]))
    BY SignaturesAge
  <2> QED
    BY <2>1 DEF WatchInv, KnownIsOlder
<1>3. KnownIsOlder'
  <2>1. /\ \A p \in Watch!Paths : watchLocal'[p].second <= second'
        /\ \A f \in Watch!Files :
             /\ remote'[f].second <= watchLocal'[f].second
             /\ f \in DOMAIN listed => Older(f, listed[f])'
    BY <1>0 DEF WatchInv, KnownIsOlder
  <2> QED
    BY <1>1, <1>2, <2>1 DEF KnownIsOlder
<1>4. \A f \in Watch!Files : Watch!Unknown # Watch!Signature(watchLocal[f])
  BY SignaturesTell DEF Watch!Signature
<1>5. ProcessedIsUploaded'
  BY <1>4, WatchPaths DEF WatchInv, ProcessedIsUploaded, Exists, Watch!Whole, Watch!Signature
<1> QED
  BY <1>3, <1>5

LEMMA WatchCollect ==
  ASSUME WatchInv, Watch!Collect PROVE WatchInv'
<1>0. /\ UNCHANGED <<kind, batch, roots, processed, path, seen, tries,
                     remote, listed, copied, failed, watchLocal, second, watchEdits, twice>>
      /\ watchAt \in {"wait", "debounce"} /\ watchAt' = "debounce"
      /\ events' \cup pending' = events \cup pending
  BY DEF Watch!Collect, Watch!upload
<1>1. Watch!TypeOK'
  BY <1>0 DEF WatchInv, Watch!TypeOK, Watch!Watched
<1>2. KnownIsOlder' /\ ProcessedIsUploaded'
  BY <1>0 DEF WatchInv, KnownIsOlder, Older, ProcessedIsUploaded, Exists, Watch!Whole,
    Watch!Signature
<1>3. UploadedOrComing'
  BY <1>0, WatchPaths DEF WatchInv, UploadedOrComing, TheFiles, Watch!Watched, InHand, Exists,
    Watch!Whole
<1>4. UploadedRoots' /\ UploadFollows'
  BY <1>0 DEF UploadedRoots, InRound, UploadFollows
<1> QED
  BY <1>0, <1>1, <1>2, <1>3, <1>4 DEF WatchInv, VersionsCount, SecondsTell, Exists, Watch!Whole

LEMMA WatchTakeBatch ==
  ASSUME WatchInv, NEW from \in {"wait", "debounce"}, Watch!TakeBatch(from) PROVE WatchInv'
<1>0. /\ UNCHANGED <<processed, path, seen, tries>> /\ WatchTaskStays
      /\ watchAt = from /\ watchAt' = "round" /\ batch' = pending /\ pending' = {} /\ roots' = {}
  BY DEF Watch!TakeBatch, Watch!upload, Watch!world, WatchTaskStays
<1>1. Watch!TypeOK'
  BY <1>0 DEF WatchInv, Watch!TypeOK, Watch!Watched, WatchTaskStays
<1>2. KnownIsOlder' /\ ProcessedIsUploaded'
  BY <1>0, WatchKnows
<1>3. UploadedOrComing'
  <2>1. ASSUME NEW f \in TheFiles \ (failed \cup twice), Exists(f), ~Watch!Whole(f)
        PROVE  f \in events \cup pending
    BY <1>0, <2>1 DEF WatchInv, UploadedOrComing, InHand
  <2> QED
    BY <1>0, <2>1 DEF UploadedOrComing, TheFiles, Watch!Watched, Exists, Watch!Whole, WatchTaskStays
<1>4. UploadedRoots' /\ UploadFollows'
  BY <1>0 DEF UploadedRoots, UploadFollows
<1> QED
  BY <1>0, <1>1, <1>2, <1>3, <1>4, WatchBetween DEF WatchInv, WatchTaskStays

LEMMA WatchRoundEnds ==
  ASSUME WatchInv, Watch!RoundEnds PROVE WatchInv'
<1>0. /\ UNCHANGED <<pending, batch, roots, processed, path, seen, tries>> /\ WatchTaskStays
      /\ watchAt = "round" /\ watchAt' = "wait" /\ batch = {}
  BY DEF Watch!RoundEnds, Watch!upload, Watch!world, WatchTaskStays
<1>1. Watch!TypeOK'
  BY <1>0 DEF WatchInv, Watch!TypeOK, Watch!Watched, WatchTaskStays
<1>2. KnownIsOlder' /\ ProcessedIsUploaded'
  BY <1>0, WatchKnows
<1>3. UploadedOrComing'
  BY <1>0 DEF WatchInv, UploadedOrComing, InHand, TheFiles, Watch!Watched, Exists, Watch!Whole,
    WatchTaskStays
<1>4. UploadedRoots' /\ UploadFollows'
  BY <1>0 DEF UploadedRoots, InRound, UploadFollows
<1> QED
  BY <1>0, <1>1, <1>2, <1>3, <1>4, WatchBetween DEF WatchInv, WatchTaskStays

LEMMA WatchStop ==
  ASSUME WatchInv, Watch!Stop PROVE WatchInv'
<1>0. /\ UNCHANGED <<pending, batch, roots, processed, path, seen, tries>> /\ WatchTaskStays
      /\ watchAt' = "ended"
  BY DEF Watch!Stop, Watch!upload, Watch!world, WatchTaskStays
<1>1. Watch!TypeOK'
  BY <1>0 DEF WatchInv, Watch!TypeOK, Watch!Watched, WatchTaskStays
<1>2. KnownIsOlder' /\ ProcessedIsUploaded'
  BY <1>0, WatchKnows
<1>4. UploadedRoots' /\ UploadFollows' /\ UploadedOrComing'
  BY <1>0 DEF UploadedRoots, InRound, UploadFollows, UploadedOrComing
<1> QED
  BY <1>0, <1>1, <1>2, <1>4, WatchBetween DEF WatchInv, WatchTaskStays

LEMMA WatchTakePath ==
  ASSUME WatchInv, Watch!TakePath PROVE WatchInv'
<1>0. UNCHANGED <<pending, roots>> /\ WatchTaskStays /\ watchAt = "round"
  BY DEF Watch!TakePath, Watch!upload, Watch!world, WatchTaskStays
<1>1. PICK p \in batch :
        /\ batch' = batch \ {p}
        /\ IF Watch!BelowUploaded(p) THEN UNCHANGED <<watchAt, path, seen, tries, processed>>
           ELSE IF watchLocal[p].version = 0
           THEN /\ processed' = [processed EXCEPT ![p] = Watch!Unknown]
                /\ UNCHANGED <<watchAt, path, seen, tries>>
           ELSE /\ watchAt' = "stability" /\ path' = p
                /\ seen' = Watch!Signature(watchLocal[p]) /\ tries' = 0
                /\ UNCHANGED processed
  BY DEF Watch!TakePath
<1>2. p \in Watch!Watched /\ p \in Watch!Paths
  BY WatchPaths DEF WatchInv, Watch!TypeOK
<1>3. Watch!TypeOK'
  <2>1. Watch!Signature(watchLocal[p]) \in Watch!Signatures \/ watchLocal[p].version = 0
    BY <1>2 DEF WatchInv, Watch!TypeOK, Watch!Signature, Watch!Signatures
  <2>2. processed' \in [Watch!Paths -> Watch!Signatures \cup {Watch!Unknown}]
    BY <1>1 DEF WatchInv, Watch!TypeOK
  <2>3. watchAt' \in {"wait", "debounce", "round", "stability", "upload", "ended"}
        /\ tries' \in 0..(Retries - 1)
    BY <1>0, <1>1, WatchNumbers DEF WatchInv, Watch!TypeOK
  <2>4. watchAt' \in {"stability",
          "upload"} => path' \in Watch!Watched /\ seen' \in Watch!Signatures
    BY <1>0, <1>1, <1>2, <2>1
  <2>5. (events \cup pending \cup batch \cup roots \subseteq Watch!Watched)'
    BY <1>0, <1>1 DEF WatchInv, Watch!TypeOK, WatchTaskStays, Watch!Watched
  <2> QED
    BY <1>0, <2>2, <2>3, <2>4, <2>5 DEF WatchInv, Watch!TypeOK, Watch!Watched, WatchTaskStays
<1>4. KnownIsOlder' /\ ProcessedIsUploaded'
  <2>1. \A q \in Watch!Paths : processed'[q] \in {processed[q], Watch!Unknown}
    BY <1>1 DEF WatchInv, Watch!TypeOK
  <2>2. watchAt' \in {"stability", "upload"} => seen' = Watch!Signature(watchLocal[path'])
    BY <1>0, <1>1
  <2> QED
    BY <1>0, <2>1, <2>2, WatchKnows
<1>5. UploadedRoots' /\ UploadFollows'
  <2>1. watchAt' \in {"round", "stability"}
    BY <1>0, <1>1
  <2> QED
    BY <1>0, <2>1 DEF WatchInv, UploadedRoots, InRound, UploadFollows, TheFiles, Watch!Watched,
       Exists, Watch!Whole, WatchTaskStays
<1>6. UploadedOrComing'
  <2> SUFFICES ASSUME NEW f \in TheFiles \ (failed \cup twice), Exists(f), ~Watch!Whole(f)
               PROVE  f \in events \cup pending \cup batch' \/ InHand(f)'
    BY <1>0, <1>1 DEF UploadedOrComing, TheFiles, Watch!Watched, Exists, Watch!Whole, WatchTaskStays
  <2>1. f \in events \cup pending \cup batch
    BY <1>0 DEF WatchInv, UploadedOrComing, InHand
  <2>2. CASE f # p
    BY <1>1, <2>1, <2>2
  <2>3. CASE f = p /\ Watch!BelowUploaded(p)
    BY <1>0, <2>3 DEF WatchInv, UploadedRoots, InRound, Watch!BelowUploaded
  <2>4. CASE f = p /\ ~Watch!BelowUploaded(p)
    BY <1>1, <2>4 DEF Exists, InHand
  <2> QED
    BY <2>2, <2>3, <2>4
<1> QED
  BY <1>0, <1>3, <1>4, <1>5, <1>6, WatchBetween DEF WatchInv, WatchTaskStays

\* The path in hand has been dealt with, or comes again in the next round.
LEMMA WatchPutAway ==
  ASSUME WatchInv, WatchTaskStays, watchAt = "stability", Watch!BackToRound,
         UNCHANGED <<batch, roots>>, pending' \subseteq pending \cup {path},
           pending \subseteq pending',
         processed' \in [Watch!Paths -> Watch!Signatures \cup {Watch!Unknown}],
         \A q \in Watch!Paths : processed'[q] \in {processed[q], Watch!Unknown},
         path \in TheFiles \ (failed \cup twice) /\ Exists(path) =>
           Watch!Whole(path) \/ path \in pending'
  PROVE  WatchInv'
<1> USE DEF Watch!BackToRound
<1>1. Watch!TypeOK'
  <2>1. (events \cup pending \cup batch \cup roots \subseteq Watch!Watched)'
    BY DEF WatchInv, Watch!TypeOK, WatchTaskStays, Watch!Watched
  <2> QED
    BY <2>1, WatchNumbers DEF WatchInv, Watch!TypeOK, WatchTaskStays, Watch!Watched
<1>2. KnownIsOlder' /\ ProcessedIsUploaded'
  BY WatchKnows
<1>3. UploadedRoots' /\ UploadFollows'
  BY DEF WatchInv, UploadedRoots, InRound, UploadFollows, TheFiles, Watch!Watched,
       Exists, Watch!Whole, WatchTaskStays
<1>4. UploadedOrComing'
  <2> SUFFICES ASSUME NEW f \in TheFiles \ (failed \cup twice), Exists(f), ~Watch!Whole(f)
               PROVE  f \in events \cup pending' \cup batch
    BY DEF UploadedOrComing, TheFiles, Watch!Watched, Exists, Watch!Whole, WatchTaskStays
  <2>1. f \in events \cup pending \cup batch \/ path = f
    BY DEF WatchInv, UploadedOrComing, InHand
  <2> QED
    BY <2>1
<1> QED
  BY <1>1, <1>2, <1>3, <1>4, WatchBetween DEF WatchInv, WatchTaskStays

LEMMA WatchUnreadable ==
  ASSUME WatchInv, Watch!Unreadable PROVE WatchInv'
<1>1. WatchTaskStays /\ watchAt = "stability" /\ ~Exists(path) /\ path \in Watch!Paths
  BY WatchPaths DEF Watch!Unreadable, Watch!upload, Watch!world, WatchTaskStays, Exists, WatchInv,
    Watch!TypeOK
<1>2. /\ processed' \in [Watch!Paths -> Watch!Signatures \cup {Watch!Unknown}]
      /\ \A q \in Watch!Paths : processed'[q] \in {processed[q], Watch!Unknown}
  BY <1>1 DEF Watch!Unreadable, WatchInv, Watch!TypeOK
<1> QED
  BY <1>1, <1>2, WatchPutAway DEF Watch!Unreadable

LEMMA WatchStillChanging ==
  ASSUME WatchInv, Watch!StillChanging PROVE WatchInv'
<1>1. /\ WatchTaskStays /\ watchAt = "stability" /\ UNCHANGED <<batch, roots, processed>>
      /\ path \in Watch!Paths /\ Exists(path) /\ path \in Watch!Watched
  BY WatchPaths DEF Watch!StillChanging, Watch!upload, Watch!world, WatchTaskStays, Exists,
    WatchInv, Watch!TypeOK
<1>2. CASE tries + 1 < Retries
  <2>1. /\ UNCHANGED <<watchAt, path, pending>> /\ seen' = Watch!Signature(watchLocal[path])
        /\ tries' = tries + 1
    BY <1>2 DEF Watch!StillChanging
  <2>2. seen' \in Watch!Signatures
    BY <1>1, <2>1 DEF WatchInv, Watch!TypeOK, Watch!Signature, Watch!Signatures
  <2>3. tries' \in 0..(Retries - 1)
    BY <1>2, <2>1, WatchNumbers DEF WatchInv, Watch!TypeOK
  <2>4. Watch!TypeOK'
    BY <1>1, <2>1, <2>2, <2>3 DEF WatchInv, Watch!TypeOK, WatchTaskStays, Watch!Watched
  <2>5. KnownIsOlder' /\ ProcessedIsUploaded'
    BY <1>1, <2>1, WatchKnows
  <2>6. UploadedRoots' /\ UploadFollows' /\ UploadedOrComing'
    BY <1>1, <2>1 DEF WatchInv, UploadedRoots, InRound, UploadFollows, UploadedOrComing, InHand,
      TheFiles,
       Watch!Watched, Exists, Watch!Whole, WatchTaskStays
  <2> QED
    BY <1>1, <2>4, <2>5, <2>6, WatchBetween DEF WatchInv, WatchTaskStays
<1>3. CASE ~(tries + 1 < Retries)
  <2>1. Watch!BackToRound /\ pending' = pending \cup {path}
    BY <1>3 DEF Watch!StillChanging
  <2>2. processed' \in [Watch!Paths -> Watch!Signatures \cup {Watch!Unknown}]
    BY <1>1 DEF WatchInv, Watch!TypeOK
  <2> QED
    BY <1>1, <2>1, <2>2, WatchPutAway
<1> QED
  BY <1>2, <1>3

LEMMA WatchStable ==
  ASSUME WatchInv, Watch!Stable PROVE WatchInv'
<1>1. /\ UNCHANGED <<kind, pending, batch, roots, processed, remote, failed,
                     watchLocal, second, watchEdits, twice, events>>
      /\ watchAt = "stability" /\ Exists(path) /\ seen = Watch!Signature(watchLocal[path])
      /\ path \in Watch!Watched /\ path \in Watch!Paths
  BY WatchPaths DEF Watch!Stable, Watch!world, Exists, WatchInv, Watch!TypeOK
<1>2. CASE processed[path] = seen
  <2>1. WatchTaskStays /\ Watch!BackToRound
    BY <1>1, <1>2 DEF Watch!Stable, WatchTaskStays
  <2>2. processed' \in [Watch!Paths -> Watch!Signatures \cup {Watch!Unknown}]
    BY <1>1 DEF WatchInv, Watch!TypeOK
  <2>3. path \in TheFiles \ twice => Watch!Whole(path)
    BY <1>1, <1>2, WatchPaths DEF WatchInv, ProcessedIsUploaded
  <2> QED
    BY <1>1, <2>1, <2>2, <2>3, WatchPutAway
<1>3. CASE processed[path] # seen
  <2>1. /\ watchAt' = "upload" /\ copied' = {} /\ UNCHANGED <<path, seen, tries>>
        /\ listed' = [f \in Watch!Existing(path) |-> Watch!Signature(watchLocal[f])]
    BY <1>3 DEF Watch!Stable
  <2>2. /\ DOMAIN listed' = Watch!Existing(path) /\ Watch!Existing(path) \subseteq Watch!Files
        /\ \A f \in DOMAIN listed' : listed'[f] = Watch!Signature(watchLocal[f])
    BY <2>1 DEF Watch!Existing
  <2>3. Watch!TypeOK'
    <3>1. \A f \in Watch!Files : Watch!Signature(watchLocal[f]) \in Watch!Signatures
      BY WatchPaths DEF WatchInv, Watch!TypeOK, Watch!Signature, Watch!Signatures
    <3>2. DOMAIN listed' \subseteq Watch!Files
            /\ \A f \in DOMAIN listed' : listed'[f] \in Watch!Signatures
      BY <2>2, <3>1
    <3> QED
      BY <1>1, <2>1, <3>2 DEF WatchInv, Watch!TypeOK, Watch!Watched
  <2>4. KnownIsOlder'
    <3>1. \A f \in Watch!Files : f \in DOMAIN listed' => Older(f, listed'[f])
      BY <2>2, SignaturesAge
    <3>2. \A f \in Watch!Files :
            /\ remote[f].second <= watchLocal[f].second /\ Older(f, processed[f])
            /\ path = f => Older(f, seen)
      BY <1>1 DEF WatchInv, KnownIsOlder
    <3> QED
      BY <1>1, <2>1, <3>1, <3>2 DEF WatchInv, KnownIsOlder, Older
  <2>5. UploadFollows'
    BY <1>1, <2>1, <2>2, WatchPaths DEF UploadFollows, Watch!Existing, Exists, Watch!Signature,
      TheFiles,
       Watch!Watched
  <2>6. UploadedRoots' /\ UploadedOrComing' /\ ProcessedIsUploaded'
    BY <1>1, <2>1 DEF WatchInv, UploadedRoots, InRound, UploadedOrComing, InHand,
      ProcessedIsUploaded,
       TheFiles, Watch!Watched, Exists, Watch!Whole, Watch!Signature
  <2> QED
    BY <1>1, <2>3, <2>4, <2>5, <2>6, WatchBetween DEF WatchInv
<1> QED
  BY <1>2, <1>3

LEMMA WatchUploadFile ==
  ASSUME WatchInv, Watch!UploadFile PROVE WatchInv'
<1>0. /\ UNCHANGED <<kind, pending, batch, roots, processed, watchAt, path, seen, tries, heard,
                     listed, failed, watchLocal, second, watchEdits, twice, events>>
      /\ watchAt = "upload"
  BY DEF Watch!UploadFile, Watch!task, Watch!world
<1>1. PICK f \in DOMAIN listed \ copied :
        /\ copied' = copied \cup {f}
        /\ IF remote[f].version # 0 /\ Watch!Signature(remote[f]) = listed[f] THEN UNCHANGED remote
           ELSE /\ watchLocal[f].version # 0
                /\ remote' = [remote EXCEPT ![f] = [watchLocal[f] EXCEPT !.second = listed[f][2]]]
  BY DEF Watch!UploadFile
<1>2. f \in Watch!Files /\ f \in Watch!Paths /\ listed[f] \in Watch!Signatures /\ Older(f,
        listed[f])
  BY WatchPaths DEF WatchInv, Watch!TypeOK, KnownIsOlder
<1>3. PICK size \in 1..2, s \in 0..MaxSecond : listed[f] = <<size, s>>
  BY <1>2 DEF Watch!Signatures
<1>4. s <= watchLocal[f].second /\ listed[f][2] = s
  BY <1>2, <1>3 DEF Older
<1>5. \A q \in Watch!Files : q # f => remote'[q] = remote[q]
  BY <1>1 DEF WatchInv, Watch!TypeOK
<1>6. CASE UNCHANGED remote /\ remote[f].version # 0 /\ Watch!Signature(remote[f]) = listed[f]
  <2>1. remote[f].second = s
    BY <1>3, <1>6, SignaturesTell DEF Watch!Signature
  <2>2. f \notin twice /\ Exists(f) /\ listed[f] = Watch!Signature(watchLocal[f]) => Watch!Whole(f)
    <3>1. listed[f] = Watch!Signature(watchLocal[f]) => watchLocal[f].second = s
      BY <1>3, SignaturesTell DEF Watch!Signature
    <3> QED
      BY <1>2, <1>6, <2>1, <3>1 DEF WatchInv, SecondsTell
  <2>3. Watch!TypeOK'
    BY <1>0, <1>1, <1>6 DEF WatchInv, Watch!TypeOK, Watch!Watched
  <2>4. UploadFollows'
    BY <1>0, <1>1, <1>6, <2>2 DEF WatchInv, UploadFollows, TheFiles, Watch!Watched, Exists,
      Watch!Whole,
       Watch!Signature
  <2>5. KnownIsOlder' /\ ProcessedIsUploaded' /\ UploadedRoots' /\ UploadedOrComing'
    BY <1>0, <1>6 DEF WatchInv, KnownIsOlder, Older, ProcessedIsUploaded, UploadedRoots, InRound,
       UploadedOrComing, InHand, TheFiles, Watch!Watched, Exists, Watch!Whole, Watch!Signature
  <2> QED
    BY <1>0, <1>6, <2>3, <2>4, <2>5, WatchBetween DEF WatchInv
<1>7. CASE /\ Exists(f)
           /\ remote' = [remote EXCEPT ![f] = [watchLocal[f] EXCEPT !.second = listed[f][2]]]
  <2>1. /\ remote'[f] = [watchLocal[f] EXCEPT !.second = s] /\ remote'[f].second = s
        /\ remote'[f].version = watchLocal[f].version /\ Watch!Whole(f)'
    BY <1>0, <1>2, <1>4, <1>7 DEF WatchInv, Watch!TypeOK, Watch!Whole
  <2>2. \A q \in Watch!Files : Watch!Whole(q) => Watch!Whole(q)'
    BY <1>0, <1>5, <2>1 DEF Watch!Whole
  <2>3. watchLocal[f].version \in 0..MaxWatched
    <3>1. watchLocal[f].version \in 0..MaxWatched \cup {1} /\ watchLocal[f].version <= watchEdits
          /\ watchEdits \in 0..MaxWatched
      BY <1>2 DEF WatchInv, Watch!TypeOK, VersionsCount
    <3> QED
      BY <3>1, WatchNumbers
  <2>4. Watch!TypeOK'
    <3>1. watchLocal[f] \in WatchNodes
      BY <1>2 DEF WatchInv, Watch!TypeOK, WatchNodes
    <3>2. [watchLocal[f] EXCEPT !.second = s] \in
             [version : 0..MaxWatched, size : 1..2, second : 0..MaxSecond]
      BY <1>3, <2>3, <3>1 DEF WatchNodes
    <3>3. remote' \in [Watch!Files -> [version : 0..MaxWatched, size : 1..2, second : 0..MaxSecond]]
      BY <1>2, <1>4, <1>7, <3>2 DEF WatchInv, Watch!TypeOK
    <3> QED
      BY <1>0, <1>1, <3>3 DEF WatchInv, Watch!TypeOK, Watch!Watched
  <2>5. KnownIsOlder'
    <3>1. \A q \in Watch!Files : remote'[q].second <= watchLocal[q].second
      BY <1>4, <1>5, <2>1 DEF WatchInv, KnownIsOlder
    <3> QED
      BY <1>0, <3>1 DEF WatchInv, KnownIsOlder, Older
  <2>6. SecondsTell' /\ ProcessedIsUploaded'
    BY <1>0, <1>5, <2>1, <2>2 DEF WatchInv, SecondsTell, ProcessedIsUploaded, Exists,
      Watch!Signature
  <2>7. UploadedRoots' /\ UploadedOrComing'
    BY <1>0, <2>2, WatchPaths DEF WatchInv, UploadedRoots, InRound, UploadedOrComing, InHand,
      TheFiles,
       Watch!Watched, Exists
  <2>8. UploadFollows'
    BY <1>0, <1>1, <2>1, <2>2, WatchPaths DEF WatchInv, UploadFollows, TheFiles, Watch!Watched,
      Exists,
       Watch!Signature
  <2> QED
    BY <1>0, <2>4, <2>5, <2>6, <2>7, <2>8 DEF WatchInv, VersionsCount
<1> QED
  BY <1>1, <1>6, <1>7 DEF Exists

LEMMA WatchUploadEnds ==
  ASSUME WatchInv, Watch!UploadEnds PROVE WatchInv'
<1>0. /\ UNCHANGED <<pending, batch>> /\ WatchTaskStays /\ watchAt = "upload"
           /\ copied = DOMAIN listed
      /\ processed' = [processed EXCEPT ![path] = seen] /\ roots' \subseteq roots \cup {path}
      /\ watchAt' = "round" /\ tries' = 0
      /\ path \in Watch!Watched /\ path \in Watch!Paths /\ seen \in Watch!Signatures
  BY WatchPaths DEF Watch!UploadEnds, Watch!upload, Watch!world, WatchTaskStays,
    Watch!BackToRound, WatchInv,
     Watch!TypeOK
<1>1. \A q \in Watch!Paths : processed'[q] = IF q = path THEN seen ELSE processed[q]
  BY <1>0 DEF WatchInv, Watch!TypeOK
<1>2. \A f \in TheFiles \ twice :
        Watch!Under(f, path) /\ Exists(f) => Watch!Whole(f) \/ f \in events
  BY <1>0 DEF WatchInv, UploadFollows
<1>3. Watch!TypeOK'
  <2>1. processed' \in [Watch!Paths -> Watch!Signatures \cup {Watch!Unknown}]
    BY <1>0 DEF WatchInv, Watch!TypeOK
  <2>2. (events \cup pending \cup batch \cup roots \subseteq Watch!Watched)'
    BY <1>0 DEF WatchInv, Watch!TypeOK, WatchTaskStays, Watch!Watched
  <2> QED
    BY <1>0, <2>1, <2>2, WatchNumbers DEF WatchInv, Watch!TypeOK, WatchTaskStays, Watch!Watched
<1>4. KnownIsOlder'
  <2>1. \A f \in Watch!Files : Older(f, processed[f]) /\ (path = f => Older(f, seen))
    BY <1>0 DEF WatchInv, KnownIsOlder
  <2>2. \A f \in Watch!Files : Older(f, processed'[f])
    BY <1>1, <2>1, WatchPaths
  <2> QED
    BY <1>0, <2>2 DEF WatchInv, KnownIsOlder, Older, WatchTaskStays
<1>5. ProcessedIsUploaded'
  <2>1. \A f \in Watch!Files \ twice :
          path = f /\ Exists(f) /\ seen = Watch!Signature(watchLocal[f]) => Watch!Whole(f)
    BY <1>0 DEF WatchInv, UploadFollows
  <2>2. /\ \A f \in Watch!Files : Exists(f)' <=> Exists(f)
        /\ \A f \in Watch!Files : Watch!Whole(f)' <=> Watch!Whole(f)
        /\ \A f \in Watch!Files : Watch!Signature(watchLocal[f])' = Watch!Signature(watchLocal[f])
        /\ twice' = twice
    BY <1>0 DEF Exists, Watch!Whole, Watch!Signature, WatchTaskStays
  <2>3. ASSUME NEW f \in Watch!Files \ twice, Exists(f),
               processed'[f] = Watch!Signature(watchLocal[f])
        PROVE  Watch!Whole(f)
    BY <1>1, <2>1, <2>3, WatchPaths DEF WatchInv, ProcessedIsUploaded
  <2>4. ASSUME NEW f \in Watch!Files \ twice', Exists(f)',
               (processed[f] = Watch!Signature(watchLocal[f]))'
        PROVE  Watch!Whole(f)'
    BY <2>2, <2>3, <2>4
  <2> QED
    BY <2>4 DEF ProcessedIsUploaded
<1>6. UploadedRoots' /\ UploadFollows'
  BY <1>0, <1>2 DEF WatchInv, UploadedRoots, InRound, UploadFollows, TheFiles, Watch!Watched,
    Exists,
     Watch!Whole, WatchTaskStays
<1>7. UploadedOrComing'
  BY <1>0, <1>2, WatchPaths DEF WatchInv, UploadedOrComing, InHand, TheFiles, Watch!Watched, Exists,
     Watch!Whole, WatchTaskStays
<1> QED
  BY <1>0, <1>3, <1>4, <1>5, <1>6, <1>7, WatchBetween DEF WatchInv, WatchTaskStays

LEMMA WatchUploadFails ==
  ASSUME WatchInv, Watch!UploadFails PROVE WatchInv'
<1>0. /\ UNCHANGED <<kind, pending, batch, roots, processed, remote, listed, copied, watchLocal,
           second,
                     watchEdits, twice, events>>
      /\ watchAt = "upload" /\ watchAt' = "round" /\ tries' = 0
      /\ failed' = failed \cup {f \in Watch!Files : Watch!Under(f, path)}
      /\ path \in Watch!Paths
  BY WatchPaths DEF Watch!UploadFails, Watch!world, Watch!BackToRound, WatchInv, Watch!TypeOK
<1>1. Watch!TypeOK'
  BY <1>0, WatchNumbers DEF WatchInv, Watch!TypeOK, Watch!Watched
<1>2. KnownIsOlder' /\ ProcessedIsUploaded'
  BY <1>0 DEF WatchInv, KnownIsOlder, Older, ProcessedIsUploaded, Exists, Watch!Whole,
    Watch!Signature
<1>3. UploadedRoots' /\ UploadFollows' /\ UploadedOrComing'
  BY <1>0, WatchPaths DEF WatchInv, UploadedRoots, InRound, UploadFollows, UploadedOrComing,
    InHand, TheFiles,
     Watch!Watched, Exists, Watch!Whole
<1> QED
  BY <1>0, <1>1, <1>2, <1>3, WatchBetween DEF WatchInv

LEMMA WatchKept ==
  ASSUME WatchInv, [Watch!Next]_watchState PROVE WatchInv'
<1>1. CASE UNCHANGED watchState
  BY <1>1 DEF watchState, WatchInv, VersionsCount, Watch!TypeOK, KnownIsOlder, Older, SecondsTell,
     ProcessedIsUploaded, UploadedRoots, InRound, UploadFollows, UploadedOrComing, InHand, TheFiles,
     Watch!Watched, Exists, Watch!Whole, Watch!Signature
<1>2. CASE Watch!DebounceEnds \/ Watch!TakeUnstable
  BY <1>2, WatchTakeBatch DEF Watch!DebounceEnds, Watch!TakeUnstable
<1>3. CASE Watch!Next
  BY <1>2, <1>3, WatchEdit, WatchRemove, WatchTick, WatchCollect, WatchTakePath, WatchRoundEnds,
     WatchStillChanging, WatchUnreadable, WatchStable, WatchUploadFile, WatchUploadEnds,
       WatchUploadFails,
     WatchStop DEF Watch!Next
<1> QED
  BY <1>1, <1>3

LEMMA ChainFacts ==
  ASSUME NEW S, NEW t \in Seq(S), t # <<>>
  PROVE  /\ Len(t) \in Nat /\ 1 <= Len(t) /\ DOMAIN t = 1..Len(t) /\ 1 \in DOMAIN t
         /\ Len(t) \in DOMAIN t /\ \A i \in DOMAIN t : t[i] \in S
         /\ Head(t) = t[1]
<1>1. Len(t) \in Nat /\ DOMAIN t = 1..Len(t) /\ t \in [1..Len(t) -> S]
  BY LenProperties
<1>2. Len(t) # 0 /\ Head(t) = t[1]
  BY EmptySeq, HeadTailProperties
<1> QED
  BY <1>1, <1>2

\* What is left of a chain without its first.
WithoutFirst(t) == SubSeq(t, 1, 1 - 1) \o SubSeq(t, 1 + 1, Len(t))
LEMMA ChainWithoutFirst ==
  ASSUME NEW S, NEW t \in Seq(S), t # <<>>
  PROVE  /\ WithoutFirst(t) \in Seq(S)
         /\ WithoutFirst(t) # <<>> =>
              /\ Len(t) \in Nat /\ Len(WithoutFirst(t)) = Len(t) - 1
              /\ WithoutFirst(t)[Len(WithoutFirst(t))] = t[Len(t)]
         /\ WithoutFirst(t) = <<>> => Len(t) = 1
         /\ \A i \in DOMAIN WithoutFirst(t) :
              i + 1 \in DOMAIN t /\ WithoutFirst(t)[i] = t[i + 1] /\ i \in Nat /\ 1 <= i
<1> DEFINE r == WithoutFirst(t)
<1>0. r = SubSeq(t, 1, 1 - 1) \o SubSeq(t, 1 + 1, Len(t))
  BY DEF WithoutFirst
<1> HIDE DEF r
<1>1. Len(t) \in Nat /\ 1 <= Len(t) /\ DOMAIN t = 1..Len(t)
  BY ChainFacts
<1>2. SubSeq(t, 1, 1 - 1) = <<>>
  BY <1>1, SubSeqProperties
<1>3. /\ SubSeq(t, 1 + 1, Len(t)) \in Seq(S)
      /\ Len(SubSeq(t, 1 + 1, Len(t))) = Len(t) - 1
      /\ \A i \in 1..(Len(t) - 1) : SubSeq(t, 1 + 1, Len(t))[i] = t[i + 1]
  BY <1>1, SubSeqProperties
<1>4. r = SubSeq(t, 1 + 1, Len(t))
  BY <1>0, <1>2, <1>3, ConcatEmptySeq
<1>5. DOMAIN r = 1..(Len(t) - 1)
  BY <1>3, <1>4, LenProperties
<1>6. r = <<>> <=> Len(t) - 1 = 0
  BY <1>3, <1>4, EmptySeq
<1>7. /\ r \in Seq(S)
      /\ r # <<>> => Len(t) \in Nat /\ Len(r) = Len(t) - 1 /\ r[Len(r)] = t[Len(t)]
      /\ r = <<>> => Len(t) = 1
      /\ \A i \in DOMAIN r : i + 1 \in DOMAIN t /\ r[i] = t[i + 1] /\ i \in Nat /\ 1 <= i
  BY <1>1, <1>3, <1>4, <1>5, <1>6
<1> QED
  BY <1>7 DEF r

-----------------------------------------------------------------------------
(* SftpPanel of the remote side *)

\* Workspaces are numbered in the order of opening.
RemoteNumbered == IsFiniteSet(remoteIssued) /\ remoteIssued = 1..Cardinality(remoteIssued)

\* What the view has read of the workspaces.
RemoteRead == IF remotePhase = "read" THEN remoteSnapshot.open ELSE {}
\* Without news the view has read what the context holds, and a workspace it has
\* seen close does not come back.
RemoteFollows ==
  /\ remoteKnown \cup remoteContext.open \cup RemoteRead \subseteq remoteIssued
  /\ ~remoteNews =>
       /\ remoteUnseen \cap remoteContext.open = {}
       /\ remoteContext.open =
            IF remotePhase = "idle" THEN remoteKnown ELSE remoteSnapshot.open
  /\ remotePhase = "read" => (remoteKnown \ remoteSnapshot.open) \cap remoteContext.open = {}

\* The changes of a workspace that the view has not applied.
RemoteUnread(w) == w \in remoteUnseen \/ (remotePhase = "read" /\ w \in remoteSnapshot.changed)
\* A directory that is shown is the context's, or the view will apply it yet.
RemoteFresh ==
  \A w \in remoteKnown \cap remoteContext.open : remoteProjected[w] = remoteContext.dir[w]
    \/ RemoteUnread(w)

\* Only the first navigation of a chain has begun.
RemoteFirstOnly ==
  \A w \in Workspaces : \A i \in DOMAIN remoteTrips[w] : remoteTrips[w][i].begun => i = 1
RemoteNoTrips(w) == remoteTrips[w] = <<>> /\ remoteAsked[w] = remoteWished[w]
\* The last of the chain is what the user wished for last, and the first what has
\* been asked for, once it has begun.
RemoteChained(w) ==
  \/ RemoteNoTrips(w)
  \/ /\ remoteTrips[w] # <<>> /\ remoteWished[w] = remoteTrips[w][Len(remoteTrips[w])].to
     /\ remoteTrips[w][1].begun => remoteAsked[w] = remoteTrips[w][1].to
RemoteChains ==
  /\ RemoteFirstOnly
  /\ \A w \in Workspaces \ remoteIssued : RemoteNoTrips(w)
  /\ \A w \in (remoteContext.open \cup RemoteRead) \ remoteKnown : RemoteNoTrips(w)
  /\ \A w \in remoteKnown : RemoteChained(w)

RemoteInv == /\ Remote!TypeOK /\ RemoteNumbered /\ RemoteFollows /\ RemoteFresh /\ RemoteChains
  /\ Remote!RemoteBatchIsShown

LEMMA RemoteStarts == Remote!Init => RemoteInv
<1> SUFFICES ASSUME Remote!Init PROVE RemoteInv
  OBVIOUS
<1> USE DEF Remote!Init
<1>1. /\ remoteIssued = {} /\ remoteKnown = {} /\ remoteUnseen = {} /\ remotePhase = "idle"
           /\ ~remoteNews
      /\ remoteContext.open = {} /\ remoteSelected = NoWorkspace /\ remoteMenu = Remote!Nil
      /\ \A w \in Workspaces : remoteTrips[w] = <<>> /\ remoteAsked[w] = remoteWished[w]
  OBVIOUS
<1>2. Remote!TypeOK
  <2>1. Remote!At(InitialDir, FALSE) \in Remote!PanelDirs
    BY SessionAssumption DEF Remote!At, Remote!PanelDirs
  <2>2. remoteTrips \in [Workspaces -> Remote!Trips]
    BY EmptySeq DEF Remote!Trips
  <2>3. remoteContext \in Remote!Contexts
    BY <2>1 DEF Remote!Contexts
  <2>4. \A w \in Workspaces : InitialDir \in Dirs
    BY SessionAssumption
  <2> QED
    BY <1>1, <2>1, <2>2, <2>3, <2>4 DEF Remote!TypeOK
<1>3. RemoteNumbered
  <2>1. IsFiniteSet({}) /\ Cardinality({}) = 0
    BY FS_EmptySet
  <2> QED
    BY <1>1, <2>1 DEF RemoteNumbered
<1>4. RemoteFollows /\ RemoteChains /\ RemoteFresh
  BY <1>1, PanelAssumption DEF RemoteFollows, RemoteChains, RemoteFresh, RemoteRead,
    RemoteFirstOnly, RemoteNoTrips
<1>5. Remote!RemoteBatchIsShown
  BY <1>1 DEF Remote!RemoteBatchIsShown
<1> QED
  BY <1>2, <1>3, <1>4, <1>5 DEF RemoteInv

LEMMA RemoteGoal ==
  RemoteInv => /\ Remote!TypeOK /\ Remote!PanelShowsTheContext /\ Remote!LastWishIsAskedLast
               /\ Remote!RemoteBatchIsShown
<1> SUFFICES ASSUME RemoteInv
             PROVE  Remote!PanelShowsTheContext /\ Remote!LastWishIsAskedLast
  BY DEF RemoteInv
<1>1. Remote!PanelShowsTheContext
  BY DEF RemoteInv, RemoteFollows, RemoteFresh, RemoteUnread, Remote!TypeOK,
    Remote!PanelShowsTheContext,
     Remote!Shown
<1>2. Remote!LastWishIsAskedLast
  BY DEF RemoteInv, RemoteChains, RemoteChained, RemoteNoTrips, Remote!LastWishIsAskedLast
<1> QED
  BY <1>1, <1>2

LEMMA RemoteTypes ==
  ASSUME RemoteInv
  PROVE  /\ remoteContext.open \subseteq Workspaces /\ remoteKnown \subseteq Workspaces
         /\ remoteIssued \subseteq Workspaces /\ remoteUnseen \subseteq Workspaces
         /\ remoteContext.selected \in Workspaces \cup {NoWorkspace}
         /\ remoteContext.dir \in [Workspaces -> Remote!PanelDirs]
         /\ remoteContext \in Remote!Contexts
         /\ remoteContext = [open |-> remoteContext.open, selected |-> remoteContext.selected,
              dir |-> remoteContext.dir]
         /\ RemoteRead \subseteq Workspaces /\ remoteSelected \in remoteKnown \cup {NoWorkspace}
BY DEF RemoteInv, Remote!TypeOK, Remote!Contexts, RemoteRead

\* A change of the context that is published: the directories that differ are named,
\* or closed.
LEMMA RemotePublishes ==
  ASSUME RemoteInv, NEW changed \in SUBSET Workspaces, remoteNews',
           remoteUnseen' = remoteUnseen \cup changed,
         remoteContext' \in Remote!Contexts, remoteContext'.open \subseteq remoteContext.open,
         \A w \in remoteContext'.open \ changed : remoteContext'.dir[w] = remoteContext.dir[w],
         UNCHANGED <<remoteIssued, remotePhase, remoteSnapshot, remoteKnown, remoteSelected>>
  PROVE  /\ RemoteNumbered' /\ RemoteFollows'
         /\ \A w \in remoteContext.open' : RemoteUnread(w)' \/
              (remoteContext'.dir[w] = remoteContext.dir[w] /\ (RemoteUnread(w)
                => RemoteUnread(w)'))
<1>1. RemoteNumbered'
  BY DEF RemoteInv, RemoteNumbered
<1>2. RemoteFollows'
  BY DEF RemoteInv, RemoteFollows, RemoteRead
<1>3. \A w \in remoteContext.open' : RemoteUnread(w)' \/
              (remoteContext'.dir[w] = remoteContext.dir[w] /\ (RemoteUnread(w)
                => RemoteUnread(w)'))
  BY DEF RemoteUnread
<1> QED
  BY <1>1, <1>2, <1>3

LEMMA RemoteChainsStay ==
  ASSUME RemoteInv, UNCHANGED <<remoteIssued, remoteKnown, remoteTrips, remoteAsked, remoteWished>>,
         remoteContext'.open \cup RemoteRead' \subseteq remoteContext.open \cup RemoteRead
  PROVE  RemoteChains'
BY DEF RemoteInv, RemoteChains, RemoteFirstOnly, RemoteNoTrips, RemoteChained

\* Selection, closing, and a directory that changes.
LEMMA RemoteContextChanges ==
  ASSUME RemoteInv,
         \/ \E w \in Workspaces \cup {NoWorkspace} : Remote!SelectWorkspace(w)
         \/ \E w \in Workspaces : Remote!CloseWorkspace(w)
         \/ \E w \in Workspaces, d \in Dirs : Remote!DirectoryChanges(w, Remote!At(d, FALSE))
  PROVE  RemoteInv'
<1> USE DEF Remote!Published, Remote!view, Remote!journal
<1>0. UNCHANGED <<remoteIssued, remotePhase, remoteSnapshot, remoteKnown, remoteProjected,
        remoteSelected, remoteLocal, remoteMarked, remoteMenu,
                  remoteTrips, remoteDeletions, remoteAsked, remoteWished>>
  BY DEF Remote!SelectWorkspace, Remote!CloseWorkspace, Remote!DirectoryChanges
<1>1. \E changed \in SUBSET Workspaces :
         /\ remoteNews' = TRUE /\ remoteUnseen' = remoteUnseen \cup changed
         /\ remoteContext' \in Remote!Contexts /\ remoteContext'.open \subseteq remoteContext.open
         /\ \A w \in remoteContext'.open \ changed : remoteContext'.dir[w] = remoteContext.dir[w]
  <2>0. Remote!At(InitialDir, FALSE) \in Remote!PanelDirs /\ \A d \in Dirs : Remote!At(d,
          FALSE) \in Remote!PanelDirs
    BY SessionAssumption DEF Remote!At, Remote!PanelDirs
  <2>1. ASSUME NEW w \in Workspaces \cup {NoWorkspace}, Remote!SelectWorkspace(w)
        PROVE  /\ remoteNews' = TRUE /\ remoteUnseen' = remoteUnseen \cup {}
               /\ remoteContext' \in Remote!Contexts
                    /\ remoteContext'.open \subseteq remoteContext.open
               /\ remoteContext'.dir = remoteContext.dir
    BY <2>1, RemoteTypes DEF Remote!SelectWorkspace, Remote!Contexts
  <2>2. ASSUME NEW w \in Workspaces, Remote!CloseWorkspace(w)
        PROVE  /\ remoteNews' = TRUE /\ remoteUnseen' = remoteUnseen \cup {}
               /\ remoteContext' \in Remote!Contexts
                    /\ remoteContext'.open \subseteq remoteContext.open
               /\ \A v \in remoteContext'.open : remoteContext'.dir[v] = remoteContext.dir[v]
    <3>1. remoteContext' = [open |-> remoteContext.open \ {w},
                       selected |-> IF remoteContext.selected = w THEN NoWorkspace ELSE
                         remoteContext.selected,
                       dir |-> [remoteContext.dir EXCEPT ![w] = Remote!At(InitialDir, FALSE)]]
      BY <2>2, RemoteTypes DEF Remote!CloseWorkspace
    <3>2. [remoteContext.dir EXCEPT ![w] = Remote!At(InitialDir,
            FALSE)] \in [Workspaces -> Remote!PanelDirs]
      BY <2>0, RemoteTypes
    <3> QED
      BY <2>2, <3>1, <3>2, RemoteTypes DEF Remote!CloseWorkspace, Remote!Contexts
  <2>3. ASSUME NEW w \in Workspaces, NEW d \in Dirs, Remote!DirectoryChanges(w, Remote!At(d, FALSE))
        PROVE  /\ remoteNews' = TRUE /\ remoteUnseen' = remoteUnseen \cup {w}
               /\ remoteContext' \in Remote!Contexts
                    /\ remoteContext'.open \subseteq remoteContext.open
               /\ \A v \in remoteContext'.open \ {w} : remoteContext'.dir[v] = remoteContext.dir[v]
    <3>1. remoteContext' = [open |-> remoteContext.open, selected |-> remoteContext.selected,
                       dir |-> [remoteContext.dir EXCEPT ![w] = Remote!At(d, FALSE)]]
      BY <2>3, RemoteTypes DEF Remote!DirectoryChanges
    <3>2. [remoteContext.dir EXCEPT ![w] = Remote!At(d, FALSE)] \in [Workspaces -> Remote!PanelDirs]
      BY <2>0, RemoteTypes
    <3> QED
      BY <2>3, <3>1, <3>2, RemoteTypes DEF Remote!DirectoryChanges, Remote!Contexts
  <2>4. {} \in SUBSET Workspaces /\ \A w \in Workspaces : {w} \in SUBSET Workspaces
    OBVIOUS
  <2> QED
    BY <2>1, <2>2, <2>3, <2>4
<1>2. PICK changed \in SUBSET Workspaces :
         /\ remoteNews' = TRUE /\ remoteUnseen' = remoteUnseen \cup changed
         /\ remoteContext' \in Remote!Contexts /\ remoteContext'.open \subseteq remoteContext.open
         /\ \A w \in remoteContext'.open \ changed : remoteContext'.dir[w] = remoteContext.dir[w]
  BY <1>1
<1>3. Remote!TypeOK'
  BY <1>0, <1>2 DEF RemoteInv, Remote!TypeOK, Remote!Contexts
<1>4. /\ RemoteNumbered' /\ RemoteFollows'
      /\ \A w \in remoteContext.open' : RemoteUnread(w)' \/
              (remoteContext'.dir[w] = remoteContext.dir[w] /\ (RemoteUnread(w)
                => RemoteUnread(w)'))
  BY <1>0, <1>2, RemotePublishes
<1>5. RemoteFresh'
  BY <1>0, <1>2, <1>4 DEF RemoteInv, RemoteFresh
<1>6. RemoteChains'
  <2>1. RemoteRead' = RemoteRead
    BY <1>0 DEF RemoteRead
  <2> QED
    BY <1>0, <1>2, <2>1, RemoteChainsStay
<1> QED
  BY <1>0, <1>3, <1>4, <1>5, <1>6 DEF RemoteInv, Remote!RemoteBatchIsShown, Remote!Listing

LEMMA RemoteOpen ==
  ASSUME RemoteInv, NEW w \in Workspaces, Remote!OpenWorkspace(w) PROVE RemoteInv'
<1> USE DEF Remote!OpenWorkspace, Remote!Published, Remote!view, Remote!journal
<1>0. /\ UNCHANGED <<remotePhase, remoteSnapshot, remoteKnown, remoteProjected, remoteSelected,
           remoteLocal, remoteMarked, remoteMenu,
                     remoteTrips, remoteDeletions, remoteAsked, remoteWished>>
      /\ remoteIssued' = remoteIssued \cup {w} /\ remoteNews' = TRUE
           /\ remoteUnseen' = remoteUnseen \cup {w}
      /\ w = Cardinality(remoteIssued) + 1
  <2>1. Remote!Cardinality(remoteIssued) = Cardinality(remoteIssued)
    BY DEF Remote!Cardinality, Cardinality
  <2> QED
    BY <2>1
<1>1. remoteContext' = [open |-> remoteContext.open \cup {w}, selected |-> w,
        dir |-> remoteContext.dir]
  BY RemoteTypes
<1>2. w \notin remoteIssued /\ RemoteNumbered'
  <2>1. IsFiniteSet(remoteIssued) /\ Cardinality(remoteIssued) \in Nat
    BY FS_CardinalityType DEF RemoteInv, RemoteNumbered
  <2>2. w \notin remoteIssued /\ remoteIssued \cup {w} = 1..(Cardinality(remoteIssued) + 1)
    BY <1>0, <2>1 DEF RemoteInv, RemoteNumbered
  <2>3. IsFiniteSet(remoteIssued \cup {w})
          /\ Cardinality(remoteIssued \cup {w}) = Cardinality(remoteIssued) + 1
    BY <2>1, <2>2, FS_AddElement
  <2> QED
    BY <1>0, <2>2, <2>3 DEF RemoteNumbered
<1>3. Remote!TypeOK'
  <2>1. remoteContext' \in Remote!Contexts
    BY <1>1, RemoteTypes DEF Remote!Contexts
  <2> QED
    BY <1>0, <2>1 DEF RemoteInv, Remote!TypeOK
<1>4. RemoteRead' = RemoteRead
  BY <1>0 DEF RemoteRead
<1>5. RemoteFollows'
  BY <1>0, <1>1, <1>2, <1>4 DEF RemoteInv, RemoteFollows
<1>6. RemoteFresh'
  BY <1>0, <1>1 DEF RemoteInv, RemoteFresh, RemoteUnread
<1>7. RemoteChains'
  BY <1>0, <1>1, <1>2, <1>4 DEF RemoteInv, RemoteChains, RemoteFirstOnly, RemoteNoTrips,
    RemoteChained
<1> QED
  BY <1>0, <1>2, <1>3, <1>5, <1>6, <1>7 DEF RemoteInv, Remote!RemoteBatchIsShown, Remote!Listing

LEMMA RemoteReads ==
  ASSUME RemoteInv, Remote!ReadWorkspaces PROVE RemoteInv'
<1> USE DEF Remote!ReadWorkspaces, Remote!view, Remote!journal
<1>0. /\ UNCHANGED <<remoteContext, remoteIssued, remoteKnown, remoteProjected, remoteSelected,
           remoteLocal, remoteMarked, remoteMenu,
                     remoteTrips, remoteDeletions, remoteAsked, remoteWished>>
      /\ remoteNews' = FALSE /\ remoteUnseen' = remoteUnseen \ remoteContext.open
      /\ remotePhase = "idle" /\ remotePhase' = "read"
      /\ remoteSnapshot' = [open |-> remoteContext.open, selected |-> remoteContext.selected,
                       changed |-> (remoteUnseen \cap remoteContext.open)]
  OBVIOUS
<1>1. Remote!TypeOK'
  <2>1. remoteSnapshot' \in [open : SUBSET Workspaces, selected : Workspaces \cup {NoWorkspace},
                        changed : SUBSET Workspaces]
    BY <1>0, RemoteTypes
  <2>2. remoteUnseen' \subseteq Workspaces
    BY <1>0, RemoteTypes
  <2> QED
    BY <1>0, <2>1, <2>2 DEF RemoteInv, Remote!TypeOK, Remote!Contexts
<1>2. RemoteNumbered' /\ RemoteFollows'
  BY <1>0 DEF RemoteInv, RemoteNumbered, RemoteFollows, RemoteRead
<1>3. \A w \in remoteContext.open : RemoteUnread(w) => RemoteUnread(w)'
  BY <1>0 DEF RemoteUnread
<1>4. RemoteFresh'
  BY <1>0, <1>3 DEF RemoteInv, RemoteFresh
<1>5. RemoteChains'
  BY <1>0, RemoteChainsStay DEF RemoteRead
<1> QED
  BY <1>0, <1>1, <1>2, <1>4, <1>5 DEF RemoteInv, Remote!RemoteBatchIsShown, Remote!Listing

\* A snapshot is applied: the view follows the workspaces it has read, and takes over
\* the directories that had changed by then.
LEMMA RemoteApplies ==
  ASSUME RemoteInv, Remote!ApplySnapshot PROVE RemoteInv'
<1> DEFINE now   == remoteSnapshot.open
           new   == now \ remoteKnown
           to    == IF remoteSnapshot.selected \in now THEN remoteSnapshot.selected ELSE NoWorkspace
           which == IF to # remoteSelected
             /\ to # NoWorkspace THEN now ELSE remoteSnapshot.changed \cup new
<1>0. /\ UNCHANGED <<remoteContext, remoteIssued, remoteNews, remoteUnseen, remoteMenu,
           remoteTrips, remoteDeletions>>
      /\ remotePhase = "read" /\ remotePhase' = "idle" /\ remoteKnown' = now /\ remoteSelected' = to
      /\ Remote!Refreshed(which, now, remoteLocal)
      /\ remoteMarked' = IF new # {} THEN {} ELSE remoteMarked
      /\ remoteAsked' = [w \in Workspaces |-> IF w \in now THEN remoteAsked[w] ELSE InitialDir]
      /\ remoteWished' = [w \in Workspaces |-> IF w \in now THEN remoteWished[w] ELSE InitialDir]
  BY DEF Remote!ApplySnapshot, Remote!Restored
<1>1. /\ now \subseteq Workspaces /\ to \in now \cup {NoWorkspace}
      /\ remoteSelected \in remoteKnown \cup {NoWorkspace} /\ NoWorkspace \notin now
  BY <1>0, PanelAssumption DEF RemoteInv, Remote!TypeOK
<1> HIDE DEF now, to
<1>2. RemoteRead' = {} /\ RemoteRead = now
  BY <1>0 DEF RemoteRead, now
<1>3. Remote!TypeOK'
  <2>1. Remote!At(InitialDir, FALSE) \in Remote!PanelDirs
    BY SessionAssumption DEF Remote!At, Remote!PanelDirs
  <2>2. remoteProjected' \in [Workspaces -> Remote!PanelDirs]
    BY <1>0, <2>1, RemoteTypes DEF RemoteInv, Remote!TypeOK, Remote!Refreshed
  <2>3. remoteLocal' \in Remote!PanelDirs
    BY <1>0, <1>1, RemoteTypes DEF RemoteInv, Remote!TypeOK, Remote!Refreshed
  <2>4. remoteAsked' \in [Workspaces -> Dirs] /\ remoteWished' \in [Workspaces -> Dirs]
    BY <1>0, SessionAssumption DEF RemoteInv, Remote!TypeOK
  <2> QED
    BY <1>0, <1>1, <2>2, <2>3, <2>4 DEF RemoteInv, Remote!TypeOK
<1>4. RemoteNumbered' /\ RemoteFollows'
  BY <1>0, <1>2 DEF RemoteInv, RemoteNumbered, RemoteFollows, now
<1>5. RemoteFresh'
  <2> SUFFICES ASSUME NEW w \in now \cap remoteContext.open, w \notin remoteUnseen
               PROVE  remoteProjected'[w] = remoteContext.dir[w]
    BY <1>0 DEF RemoteFresh, RemoteUnread
  <2>1. CASE w \in which
    BY <1>0, <1>1, <2>1 DEF Remote!Refreshed
  <2>2. CASE w \notin which
    <3>1. w \in remoteKnown /\ w \notin remoteSnapshot.changed
      BY <2>2
    <3>2. remoteProjected[w] = remoteContext.dir[w]
      BY <3>1 DEF RemoteInv, RemoteFresh, RemoteUnread
    <3> QED
      BY <1>0, <1>1, <2>2, <3>2 DEF Remote!Refreshed
  <2> QED
    BY <2>1, <2>2
<1>6. RemoteChains'
  <2>1. \A w \in now : remoteAsked'[w] = remoteAsked[w] /\ remoteWished'[w] = remoteWished[w]
    BY <1>0, <1>1
  <2>2. \A w \in Workspaces \ now : remoteAsked'[w] = remoteWished'[w]
    BY <1>0
  <2>3. \A w \in Workspaces : RemoteNoTrips(w) => RemoteNoTrips(w)'
    BY <1>0, <2>1, <2>2 DEF RemoteNoTrips
  <2>4. \A w \in remoteContext.open \ now : RemoteNoTrips(w)'
    <3>1. \A w \in remoteContext.open \ now : w \notin remoteKnown
      BY <1>0 DEF RemoteInv, RemoteFollows, now
    <3> QED
      BY <2>3, <3>1, RemoteTypes DEF RemoteInv, RemoteChains
  <2>5. \A w \in now : RemoteChained(w)'
    <3>1. \A w \in now \ remoteKnown : RemoteNoTrips(w)'
      BY <1>1, <1>2, <2>3 DEF RemoteInv, RemoteChains
    <3>2. \A w \in now \cap remoteKnown : RemoteChained(w)'
      BY <1>0, <2>1, <2>3, RemoteTypes DEF RemoteInv, RemoteChains, RemoteChained
    <3> QED
      BY <3>1, <3>2 DEF RemoteChained
  <2>6. RemoteFirstOnly' /\ \A w \in Workspaces \ remoteIssued : RemoteNoTrips(w)'
    BY <1>0, <2>3 DEF RemoteInv, RemoteChains, RemoteFirstOnly
  <2> QED
    BY <1>0, <1>2, <2>4, <2>5, <2>6 DEF RemoteChains
<1> QED
  BY <1>0, <1>3, <1>4, <1>5, <1>6 DEF RemoteInv, Remote!RemoteBatchIsShown, Remote!Listing

LEMMA RemoteNavigates ==
  ASSUME RemoteInv, NEW d \in Dirs, Remote!Navigate(d) PROVE RemoteInv'
<1> DEFINE step == [to |-> d, begun |-> FALSE]
<1>0. /\ UNCHANGED <<remoteContext, remoteIssued, remoteNews, remoteUnseen, remotePhase,
           remoteSnapshot, remoteKnown, remoteProjected,
                     remoteSelected, remoteMenu, remoteDeletions, remoteAsked>>
      /\ remotePhase = "idle" /\ remoteSelected # NoWorkspace /\ remoteMarked' = {}
      /\ remoteTrips' = [remoteTrips EXCEPT ![remoteSelected] =
           Append(remoteTrips[remoteSelected], step)]
      /\ remoteWished' = [remoteWished EXCEPT ![remoteSelected] = d]
      /\ remoteLocal' = remoteLocal
  BY DEF Remote!Navigate, Remote!Calm
<1>1. remoteSelected \in remoteKnown /\ remoteSelected \in Workspaces
  BY <1>0, RemoteTypes
<1>2. step \in [to : Dirs, begun : BOOLEAN] /\ remoteTrips[remoteSelected] \in Seq([to : Dirs,
        begun : BOOLEAN])
  BY <1>1 DEF RemoteInv, Remote!TypeOK, Remote!Trips
<1> DEFINE t == remoteTrips[remoteSelected]
           u == Append(t, step)
<1>3. /\ u \in Seq([to : Dirs, begun : BOOLEAN]) /\ u # <<>>
      /\ Len(t) \in Nat /\ Len(u) = Len(t) + 1
      /\ \A i \in 1..Len(t) : u[i] = t[i]
      /\ u[Len(t) + 1] = step
      /\ DOMAIN u = 1..(Len(t) + 1) /\ DOMAIN t = 1..Len(t)
  BY <1>2, AppendProperties, LenProperties
<1>4. ~step.begun /\ step.to = d
  OBVIOUS
<1>5. /\ remoteTrips[remoteSelected] = t /\ t \in Seq([to : Dirs, begun : BOOLEAN])
      /\ remoteTrips'[remoteSelected] = u
      /\ \A w \in Workspaces : w # remoteSelected
           => remoteTrips'[w] = remoteTrips[w] /\ remoteWished'[w] = remoteWished[w]
      /\ remoteWished'[remoteSelected] = d
      /\ remoteTrips' = [remoteTrips EXCEPT ![remoteSelected] = u]
  BY <1>0, <1>1, <1>2 DEF RemoteInv, Remote!TypeOK
<1> HIDE DEF step, t, u
<1>6. Remote!TypeOK'
  <2>1. remoteTrips' \in [Workspaces -> Remote!Trips] /\ remoteWished' \in [Workspaces -> Dirs]
    BY <1>0, <1>1, <1>3, <1>5 DEF RemoteInv, Remote!TypeOK, Remote!Trips
  <2>2. Remote!At(d, TRUE) \in Remote!PanelDirs
    BY DEF Remote!At, Remote!PanelDirs
  <2> QED
    BY <1>0, <2>1, <2>2 DEF RemoteInv, Remote!TypeOK, Remote!Contexts
<1>7. RemoteNumbered' /\ RemoteFollows' /\ RemoteRead' = RemoteRead
  BY <1>0 DEF RemoteInv, RemoteNumbered, RemoteFollows, RemoteRead
<1>8. RemoteFresh'
  BY <1>0, <1>1, <1>3, <1>5 DEF RemoteInv, RemoteFresh, RemoteUnread
<1>9. RemoteChains'
  <2>1. \A w \in Workspaces \ {remoteSelected} :
          /\ RemoteNoTrips(w) => RemoteNoTrips(w)'
          /\ RemoteChained(w) => RemoteChained(w)'
    BY <1>0, <1>5 DEF RemoteNoTrips, RemoteChained
  <2>2. RemoteFirstOnly'
    <3>1. \A i \in DOMAIN u : u[i].begun => i = 1
      <4>1. \A i \in DOMAIN t : t[i].begun => i = 1
        BY <1>1, <1>5 DEF RemoteInv, RemoteChains, RemoteFirstOnly
      <4> QED
        BY <1>3, <1>4, <4>1
    <3> QED
      BY <1>5, <3>1 DEF RemoteInv, RemoteChains, RemoteFirstOnly
  <2>3. \A w \in remoteKnown : w = remoteSelected => RemoteChained(w)'
    <3>1. u[Len(u)].to = remoteWished'[remoteSelected]
      BY <1>3, <1>4, <1>5
    <3>2. ASSUME u[1].begun PROVE remoteAsked[remoteSelected] = u[1].to
      <4>1. t # <<>>
        BY <1>3, <1>4, <3>2, EmptySeq
      <4>2. 1 \in 1..Len(t)
        BY <1>5, <4>1, ChainFacts
      <4>3. u[1] = t[1]
        BY <1>3, <4>2
      <4> QED
        BY <1>1, <1>5, <3>2, <4>1, <4>3 DEF RemoteInv, RemoteChains, RemoteChained, RemoteNoTrips
    <3> QED
      BY <1>0, <1>3, <1>5, <3>1, <3>2 DEF RemoteChained
  <2>4. remoteSelected \in remoteIssued
    BY <1>1 DEF RemoteInv, RemoteFollows
  <2>5. \A w \in Workspaces \ remoteIssued : RemoteNoTrips(w)'
    BY <1>1, <2>1, <2>4 DEF RemoteInv, RemoteChains
  <2>6. \A w \in (remoteContext.open \cup RemoteRead) \ remoteKnown : RemoteNoTrips(w)'
    BY <1>1, <2>1, RemoteTypes DEF RemoteInv, RemoteChains
  <2>7. \A w \in remoteKnown : RemoteChained(w)'
    BY <2>1, <2>3, RemoteTypes DEF RemoteInv, RemoteChains
  <2> QED
    BY <1>0, <1>7, <2>2, <2>5, <2>6, <2>7 DEF RemoteChains
<1> QED
  BY <1>0, <1>6, <1>7, <1>8, <1>9 DEF RemoteInv, Remote!RemoteBatchIsShown, Remote!Listing

LEMMA RemoteBegins ==
  ASSUME RemoteInv, NEW w \in Workspaces, Remote!Begin(w) PROVE RemoteInv'
<1> DEFINE t == remoteTrips[w]
<1>1. PICK i \in Remote!Free(w) :
         /\ remoteTrips' = [remoteTrips EXCEPT ![w][i].begun = TRUE]
         /\ remoteAsked' = IF w \in remoteKnown THEN [remoteAsked EXCEPT ![w] =
              remoteTrips[w][i].to] ELSE remoteAsked
         /\ IF w \in remoteContext.open
            THEN Remote!Published([remoteContext EXCEPT !.dir[w].loading = TRUE], {w})
            ELSE UNCHANGED <<remoteContext, remoteNews, remoteUnseen>>
         /\ UNCHANGED <<remoteIssued, remotePhase, remoteSnapshot, Remote!view, remoteMarked,
              remoteMenu, remoteDeletions, remoteWished>>
  BY DEF Remote!Begin
<1>2. i = 1 /\ t # <<>>
  BY <1>1 DEF Remote!Free
<1>3. /\ t \in Seq([to : Dirs, begun : BOOLEAN]) /\ Len(t) \in Nat /\ 1 <= Len(t)
      /\ DOMAIN t = 1..Len(t) /\ 1 \in DOMAIN t /\ t[1] \in [to : Dirs, begun : BOOLEAN]
      /\ Len(t) \in DOMAIN t /\ t[Len(t)] \in [to : Dirs, begun : BOOLEAN]
      /\ \A j \in DOMAIN t : t[j] \in [to : Dirs, begun : BOOLEAN]
  <2>1. t \in Seq([to : Dirs, begun : BOOLEAN])
    BY DEF RemoteInv, Remote!TypeOK, Remote!Trips
  <2> HIDE DEF t
  <2> QED
    BY <1>2, <2>1, ChainFacts
<1>4. /\ UNCHANGED <<remoteIssued, remotePhase, remoteSnapshot, remoteKnown, remoteProjected,
           remoteSelected, remoteLocal, remoteMarked, remoteMenu,
                     remoteDeletions, remoteWished>>
      /\ remoteTrips' = [remoteTrips EXCEPT ![w] = [t EXCEPT ![1] = [t[1] EXCEPT !.begun = TRUE]]]
      /\ \A v \in Workspaces : v # w => remoteTrips'[v] = remoteTrips[v]
           /\ remoteAsked'[v] = remoteAsked[v]
      /\ w \in remoteKnown => remoteAsked'[w] = t[1].to
      /\ remoteTrips'[w] = [t EXCEPT ![1] = [t[1] EXCEPT !.begun = TRUE]]
  BY <1>1, <1>2 DEF Remote!view, RemoteInv, Remote!TypeOK
<1> DEFINE u == [t EXCEPT ![1] = [t[1] EXCEPT !.begun = TRUE]]
<1>5. /\ u \in Seq([to : Dirs, begun : BOOLEAN]) /\ Len(u) = Len(t) /\ DOMAIN u = DOMAIN t
      /\ u # <<>>
  <2>1. [t[1] EXCEPT !.begun = TRUE] \in [to : Dirs, begun : BOOLEAN]
    BY <1>3
  <2>2. u \in [1..Len(t) -> [to : Dirs, begun : BOOLEAN]]
    BY <1>3, <2>1, LenProperties
  <2>3. u \in Seq([to : Dirs, begun : BOOLEAN])
    BY <1>3, <2>2, SeqDef
  <2>4. Len(u) = Len(t)
    BY <1>3, <2>2, <2>3, LenProperties
  <2> QED
    BY <1>3, <2>3, <2>4, EmptySeq
<1>6. \A j \in DOMAIN t : u[j].to = t[j].to /\ (j # 1 => u[j] = t[j])
  BY <1>3
<1>7. /\ remoteTrips[w] = t /\ remoteTrips'[w] = u /\ remoteTrips' = [remoteTrips EXCEPT ![w] = u]
  BY <1>4
<1> HIDE DEF t, u
<1>8. remoteTrips' \in [Workspaces -> Remote!Trips] /\ remoteAsked' \in [Workspaces -> Dirs]
  <2>1. remoteTrips' \in [Workspaces -> Remote!Trips]
    BY <1>5, <1>7 DEF RemoteInv, Remote!TypeOK, Remote!Trips
  <2> QED
    BY <1>1, <1>2, <1>3, <1>7, <2>1 DEF RemoteInv, Remote!TypeOK
<1>9. /\ remoteContext'.open = remoteContext.open /\ remoteContext' \in Remote!Contexts
           /\ remoteUnseen' \subseteq Workspaces
      /\ remoteNews' \in BOOLEAN
      /\ \A v \in Workspaces : v # w => remoteContext'.dir[v] = remoteContext.dir[v]
      /\ \/ w \in remoteContext.open /\ remoteNews' /\ remoteUnseen' = remoteUnseen \cup {w}
         \/ w \notin remoteContext.open /\ UNCHANGED <<remoteContext, remoteNews, remoteUnseen>>
  <2>1. CASE w \in remoteContext.open
    <3>1. [remoteContext.dir EXCEPT ![w] = [remoteContext.dir[w] EXCEPT !.loading = TRUE]]
             \in [Workspaces -> Remote!PanelDirs]
      <4>1. remoteContext.dir[w] \in Remote!PanelDirs
        BY RemoteTypes
      <4>2. [remoteContext.dir[w] EXCEPT !.loading = TRUE] \in Remote!PanelDirs
        BY <4>1 DEF Remote!PanelDirs
      <4> QED
        BY <4>2, RemoteTypes
    <3>2. remoteContext' = [open |-> remoteContext.open, selected |-> remoteContext.selected,
              dir |-> [remoteContext.dir EXCEPT ![w] = [remoteContext.dir[w] EXCEPT !.loading =
                TRUE]]]
      BY <1>1, <2>1, RemoteTypes DEF Remote!Published
    <3> QED
      BY <1>1, <2>1, <3>1, <3>2, RemoteTypes DEF Remote!Published, Remote!Contexts
  <2>2. CASE w \notin remoteContext.open
    BY <1>1, <2>2, RemoteTypes DEF RemoteInv, Remote!TypeOK
  <2> QED
    BY <2>1, <2>2
<1>10. Remote!TypeOK'
  BY <1>4, <1>8, <1>9 DEF RemoteInv, Remote!TypeOK
<1>11. RemoteNumbered' /\ RemoteFollows' /\ RemoteRead' = RemoteRead
  BY <1>4, <1>9 DEF RemoteInv, RemoteNumbered, RemoteFollows, RemoteRead
<1>12. RemoteFresh'
  <2> SUFFICES ASSUME NEW v \in remoteKnown \cap remoteContext.open, ~RemoteUnread(v)'
               PROVE  remoteProjected[v] = remoteContext'.dir[v]
    BY <1>4, <1>9 DEF RemoteFresh
  <2>1. v # w /\ ~RemoteUnread(v)
    BY <1>4, <1>9 DEF RemoteUnread
  <2> QED
    BY <1>9, <2>1, RemoteTypes DEF RemoteInv, RemoteFresh
<1>13. RemoteChains'
  <2>0. ~RemoteNoTrips(w)
    BY <1>2, <1>7 DEF RemoteNoTrips
  <2>1. \A v \in Workspaces \ {w} :
          /\ RemoteNoTrips(v) => RemoteNoTrips(v)'
          /\ RemoteChained(v) => RemoteChained(v)'
    BY <1>4 DEF RemoteNoTrips, RemoteChained
  <2>2. RemoteFirstOnly'
    <3>1. \A j \in DOMAIN t : t[j].begun => j = 1
      BY <1>7 DEF RemoteInv, RemoteChains, RemoteFirstOnly
    <3>2. \A j \in DOMAIN u : u[j].begun => j = 1
      BY <1>5, <1>6, <3>1
    <3> QED
      BY <1>4, <1>7, <3>2 DEF RemoteInv, RemoteChains, RemoteFirstOnly
  <2>3. \A v \in remoteKnown : v = w => RemoteChained(v)'
    <3> SUFFICES ASSUME w \in remoteKnown
                 PROVE  /\ u # <<>> /\ remoteWished[w] = u[Len(u)].to
                        /\ u[1].begun => remoteAsked'[w] = u[1].to
      BY <1>4, <1>7 DEF RemoteChained
    <3>1. remoteWished[w] = t[Len(t)].to
      BY <1>7, <2>0 DEF RemoteInv, RemoteChains, RemoteChained
    <3>2. u[Len(u)].to = t[Len(t)].to /\ u[1].to = t[1].to
      BY <1>3, <1>5, <1>6
    <3> QED
      BY <1>4, <1>5, <3>1, <3>2
  <2>5. \A v \in Workspaces \ remoteIssued : RemoteNoTrips(v)'
    BY <2>0, <2>1 DEF RemoteInv, RemoteChains
  <2>6. \A v \in (remoteContext.open \cup RemoteRead) \ remoteKnown : RemoteNoTrips(v)'
    BY <2>0, <2>1, RemoteTypes DEF RemoteInv, RemoteChains
  <2>7. \A v \in remoteKnown : RemoteChained(v)'
    BY <2>1, <2>3, RemoteTypes DEF RemoteInv, RemoteChains
  <2> QED
    BY <1>4, <1>9, <1>11, <2>2, <2>5, <2>6, <2>7 DEF RemoteChains
<1> QED
  BY <1>4, <1>10, <1>11, <1>12, <1>13 DEF RemoteInv, Remote!RemoteBatchIsShown, Remote!Listing

LEMMA RemoteAnswers ==
  ASSUME RemoteInv, NEW w \in Workspaces, NEW arrives \in BOOLEAN, Remote!Answered(w,
           arrives) PROVE RemoteInv'
<1> DEFINE t == remoteTrips[w]
           r == WithoutFirst(t)
           dir == Remote!At(IF arrives THEN t[1].to ELSE remoteContext.dir[w].path, FALSE)
<1>1. PICK i \in {j \in DOMAIN t : t[j].begun} :
          /\ remoteTrips' = [remoteTrips EXCEPT ![w] = SubSeq(t, 1, i - 1) \o SubSeq(t, i + 1,
               Len(t))]
          /\ LET there == IF arrives THEN t[i].to ELSE remoteContext.dir[w].path
                 new == [remoteContext EXCEPT !.dir[w] = Remote!At(there, FALSE)]
             IN IF w \in remoteContext.open
                THEN /\ Remote!Published(new, {w})
                     /\ remoteLocal' = remoteLocal
                ELSE UNCHANGED <<remoteContext, remoteNews, remoteUnseen, remoteLocal>>
  BY DEF Remote!Answered
<1>2. i = 1 /\ 1 \in DOMAIN t /\ t[1].begun
  BY <1>1 DEF RemoteInv, RemoteChains, RemoteFirstOnly
<1>3. t \in Seq([to : Dirs, begun : BOOLEAN]) /\ t # <<>>
  <2>1. t \in Seq([to : Dirs, begun : BOOLEAN])
    BY DEF RemoteInv, Remote!TypeOK, Remote!Trips
  <2>2. DOMAIN <<>> = {}
    OBVIOUS
  <2> QED
    BY <1>2, <2>1, <2>2
<1>4. /\ r \in Seq([to : Dirs, begun : BOOLEAN])
      /\ r # <<>> => /\ Len(t) \in Nat /\ Len(r) = Len(t) - 1 /\ r[Len(r)] = t[Len(t)]
      /\ r = <<>> => Len(t) = 1
      /\ \A j \in DOMAIN r : j + 1 \in DOMAIN t /\ r[j] = t[j + 1] /\ j \in Nat /\ 1 <= j
      /\ t[1] \in [to : Dirs, begun : BOOLEAN]
  <2> HIDE DEF t
  <2>2. t[1] \in [to : Dirs, begun : BOOLEAN]
    BY <1>2, <1>3, ChainFacts
  <2> QED
    BY <1>3, <2>2, ChainWithoutFirst
<1>5. /\ UNCHANGED <<remoteIssued, remotePhase, remoteSnapshot, remoteKnown, remoteProjected,
           remoteSelected, remoteMarked, remoteMenu,
                     remoteDeletions, remoteAsked, remoteWished>>
      /\ remotePhase = "idle"
      /\ remoteTrips' = [remoteTrips EXCEPT ![w] = r] /\ remoteTrips[w] = t /\ remoteTrips'[w] = r
      /\ \A v \in Workspaces : v # w => remoteTrips'[v] = remoteTrips[v]
  <2>1. remoteTrips' = [remoteTrips EXCEPT ![w] = r]
    BY <1>1, <1>2 DEF WithoutFirst
  <2> QED
    BY <2>1 DEF Remote!Answered, Remote!Calm, Remote!journal, RemoteInv, Remote!TypeOK
<1>6. dir \in Remote!PanelDirs
  <2>1. remoteContext.dir[w].path \in Dirs
    BY RemoteTypes DEF Remote!PanelDirs
  <2> QED
    BY <1>4, <2>1 DEF Remote!At, Remote!PanelDirs
<1>7. /\ w \in remoteContext.open =>
           /\ remoteContext' = [open |-> remoteContext.open, selected |-> remoteContext.selected,
                           dir |-> [remoteContext.dir EXCEPT ![w] = dir]]
           /\ remoteNews' = TRUE /\ remoteUnseen' = remoteUnseen \cup {w}
           /\ remoteLocal' = remoteLocal
      /\ w \notin remoteContext.open => UNCHANGED <<remoteContext, remoteNews, remoteUnseen,
           remoteLocal>>
  BY <1>1, <1>2, RemoteTypes DEF Remote!Published
<1> HIDE DEF t, r, dir
<1>8. /\ remoteContext'.open = remoteContext.open /\ remoteContext' \in Remote!Contexts
           /\ remoteUnseen' \subseteq Workspaces
      /\ remoteNews' \in BOOLEAN /\ remoteLocal' \in Remote!PanelDirs
      /\ \A v \in Workspaces : v # w => remoteContext'.dir[v] = remoteContext.dir[v]
      /\ w \in remoteContext.open => remoteContext'.dir[w] = dir
      /\ \/ w \in remoteContext.open /\ remoteNews' /\ remoteUnseen' = remoteUnseen \cup {w}
         \/ w \notin remoteContext.open /\ UNCHANGED <<remoteContext, remoteNews, remoteUnseen>>
  <2>1. CASE w \in remoteContext.open
    <3>1. [remoteContext.dir EXCEPT ![w] = dir] \in [Workspaces -> Remote!PanelDirs]
      BY <1>6, RemoteTypes
    <3>2. /\ remoteContext' \in Remote!Contexts /\ remoteContext'.open = remoteContext.open
          /\ remoteContext'.dir = [remoteContext.dir EXCEPT ![w] = dir]
      BY <1>7, <2>1, <3>1, RemoteTypes DEF Remote!Contexts
    <3>3. remoteLocal' \in Remote!PanelDirs
      BY <1>6, <1>7, <2>1 DEF RemoteInv, Remote!TypeOK
    <3>4. remoteUnseen' \subseteq Workspaces /\ remoteNews' = TRUE
      BY <1>7, <2>1, RemoteTypes
    <3> QED
      BY <1>7, <2>1, <3>2, <3>3, <3>4, RemoteTypes
  <2>2. CASE w \notin remoteContext.open
    BY <1>7, <2>2, RemoteTypes DEF RemoteInv, Remote!TypeOK
  <2> QED
    BY <2>1, <2>2
<1>9. Remote!TypeOK'
  <2>1. remoteTrips' \in [Workspaces -> Remote!Trips]
    BY <1>4, <1>5 DEF RemoteInv, Remote!TypeOK, Remote!Trips
  <2> QED
    BY <1>5, <1>8, <2>1 DEF RemoteInv, Remote!TypeOK
<1>10. RemoteNumbered' /\ RemoteFollows' /\ RemoteRead' = RemoteRead
  BY <1>5, <1>8 DEF RemoteInv, RemoteNumbered, RemoteFollows, RemoteRead
<1>11. RemoteFresh'
  <2> SUFFICES ASSUME NEW v \in remoteKnown \cap remoteContext.open, ~RemoteUnread(v)'
               PROVE  remoteProjected[v] = remoteContext'.dir[v]
    BY <1>5, <1>8 DEF RemoteFresh
  <2>1. v # w /\ ~RemoteUnread(v)
    BY <1>5, <1>8 DEF RemoteUnread
  <2> QED
    BY <1>8, <2>1, RemoteTypes DEF RemoteInv, RemoteFresh
<1>12. RemoteChains'
  <2>0. ~RemoteNoTrips(w)
    BY <1>3, <1>5 DEF RemoteNoTrips
  <2>1. \A v \in Workspaces \ {w} :
          /\ RemoteNoTrips(v) => RemoteNoTrips(v)'
          /\ RemoteChained(v) => RemoteChained(v)'
    BY <1>5 DEF RemoteNoTrips, RemoteChained
  <2>2. \A j \in DOMAIN r : ~r[j].begun
    <3>1. \A j \in DOMAIN t : t[j].begun => j = 1
      BY <1>5 DEF RemoteInv, RemoteChains, RemoteFirstOnly
    <3>2. \A j \in DOMAIN r : j \in Nat /\ 1 <= j => j + 1 # 1
      OBVIOUS
    <3> QED
      BY <1>4, <3>1, <3>2
  <2>3. RemoteFirstOnly'
    BY <1>5, <2>2 DEF RemoteInv, RemoteChains, RemoteFirstOnly
  <2>4. \A v \in remoteKnown : v = w => RemoteChained(v)'
    <3> SUFFICES ASSUME w \in remoteKnown
                 PROVE  \/ r = <<>> /\ remoteAsked[w] = remoteWished[w]
                        \/ /\ r # <<>> /\ remoteWished[w] = r[Len(r)].to
                           /\ r[1].begun => remoteAsked[w] = r[1].to
      BY <1>5 DEF RemoteChained, RemoteNoTrips
    <3>1. remoteWished[w] = t[Len(t)].to /\ remoteAsked[w] = t[1].to
      BY <1>2, <1>5, <2>0 DEF RemoteInv, RemoteChains, RemoteChained
    <3>2. CASE r = <<>>
      BY <1>4, <3>1, <3>2
    <3>3. CASE r # <<>>
      BY <1>4, <2>2, <3>1, <3>3, ChainFacts
    <3> QED
      BY <3>2, <3>3
  <2>5. \A v \in Workspaces \ remoteIssued : RemoteNoTrips(v)'
    BY <2>0, <2>1 DEF RemoteInv, RemoteChains
  <2>6. \A v \in (remoteContext.open \cup RemoteRead) \ remoteKnown : RemoteNoTrips(v)'
    BY <2>0, <2>1, RemoteTypes DEF RemoteInv, RemoteChains
  <2>7. \A v \in remoteKnown : RemoteChained(v)'
    BY <2>1, <2>4, RemoteTypes DEF RemoteInv, RemoteChains
  <2> QED
    BY <1>5, <1>8, <1>10, <2>3, <2>5, <2>6, <2>7 DEF RemoteChains
<1> QED
  BY <1>5, <1>9, <1>10, <1>11, <1>12 DEF RemoteInv, Remote!RemoteBatchIsShown, Remote!Listing

\* Selections and menus work on what is shown.
LEMMA RemoteMenus ==
  ASSUME RemoteInv,
         UNCHANGED <<remoteContext, remoteIssued, remoteNews, remoteUnseen, remotePhase,
           remoteSnapshot, remoteKnown, remoteProjected,
                     remoteSelected, remoteLocal, remoteTrips, remoteDeletions, remoteAsked,
                       remoteWished>>,
         remoteMarked' \subseteq Dirs \X Names
         , Remote!RemoteBatchIsShown'
  PROVE  RemoteInv'
<1>1. Remote!TypeOK'
  BY DEF RemoteInv, Remote!TypeOK, Remote!Contexts
<1>2. RemoteNumbered' /\ RemoteFollows' /\ RemoteRead' = RemoteRead
  BY DEF RemoteInv, RemoteNumbered, RemoteFollows, RemoteRead
<1>3. RemoteFresh'
  BY DEF RemoteInv, RemoteFresh, RemoteUnread
<1>4. RemoteChains'
  BY <1>2, RemoteChainsStay
<1> QED
  BY <1>1, <1>2, <1>3, <1>4 DEF RemoteInv

LEMMA RemoteSelects ==
  ASSUME RemoteInv,
         \/ \E p \in Dirs \X Names : Remote!OpenMenu(p)
         \/ \E p \in Dirs \X Names, additive \in BOOLEAN : Remote!Mark(p, additive)
         \/ Remote!Transfer
  PROVE  RemoteInv'
<1> USE DEF Remote!view, Remote!journal
<1>1. ASSUME NEW p \in Dirs \X Names, Remote!OpenMenu(p) PROVE RemoteInv'
  <2>1. Remote!Batch(p) \subseteq Remote!Listing(Remote!Shown.path)
    BY <1>1 DEF Remote!OpenMenu, Remote!Batch
  <2>2. remoteMenu' = [batch |-> Remote!Batch(p), listing |-> Remote!Shown.path]
    BY <1>1 DEF Remote!OpenMenu
  <2>3. Remote!RemoteBatchIsShown'
    BY <2>1, <2>2 DEF Remote!RemoteBatchIsShown, Remote!Listing
  <2>4. remoteMarked' \subseteq Dirs \X Names
    BY <1>1 DEF Remote!OpenMenu, RemoteInv, Remote!TypeOK
  <2> QED
    BY <1>1, <2>3, <2>4, RemoteMenus DEF Remote!OpenMenu
<1>2. ASSUME NEW p \in Dirs \X Names, NEW additive \in BOOLEAN, Remote!Mark(p,
               additive) PROVE RemoteInv'
  <2>1. Remote!RemoteBatchIsShown'
    BY <1>2 DEF Remote!Mark, RemoteInv, Remote!RemoteBatchIsShown, Remote!Listing
  <2>2. remoteMarked' \subseteq Dirs \X Names
    BY <1>2 DEF Remote!Mark, RemoteInv, Remote!TypeOK
  <2> QED
    BY <1>2, <2>1, <2>2, RemoteMenus DEF Remote!Mark
<1>3. CASE Remote!Transfer
  <2>1. Remote!RemoteBatchIsShown'
    BY <1>3 DEF Remote!Transfer, Remote!RemoteBatchIsShown
  <2>2. remoteMarked' \subseteq Dirs \X Names
    BY <1>3 DEF Remote!Transfer, RemoteInv, Remote!TypeOK
  <2> QED
    BY <1>3, <2>1, <2>2, RemoteMenus DEF Remote!Transfer
<1> QED
  BY <1>1, <1>2, <1>3

\* The view takes over what the context holds of the workspaces it knows.
LEMMA RemoteRefreshes ==
  ASSUME RemoteInv,
         UNCHANGED <<remoteContext, remoteIssued, remoteNews, remoteUnseen, remotePhase,
           remoteSnapshot, remoteKnown, remoteSelected,
                     remoteMarked, remoteMenu, remoteTrips, remoteAsked, remoteWished>>,
         remoteDeletions' \subseteq remoteDeletions, NEW copy \in Remote!PanelDirs,
         Remote!Refreshed(remoteKnown, remoteKnown, copy)
  PROVE  RemoteInv'
<1>1. Remote!TypeOK'
  <2>1. Remote!At(InitialDir, FALSE) \in Remote!PanelDirs
    BY SessionAssumption DEF Remote!At, Remote!PanelDirs
  <2>2. remoteProjected' \in [Workspaces -> Remote!PanelDirs]
    BY <2>1, RemoteTypes DEF RemoteInv, Remote!TypeOK, Remote!Refreshed
  <2>3. remoteLocal' \in Remote!PanelDirs
    BY RemoteTypes DEF RemoteInv, Remote!TypeOK, Remote!Refreshed
  <2> QED
    BY <2>2, <2>3 DEF RemoteInv, Remote!TypeOK, Remote!Contexts
<1>2. RemoteNumbered' /\ RemoteFollows' /\ RemoteRead' = RemoteRead
  BY DEF RemoteInv, RemoteNumbered, RemoteFollows, RemoteRead
<1>3. RemoteFresh'
  <2>1. \A w \in remoteKnown \cap remoteContext.open : remoteProjected'[w] = remoteContext.dir[w]
    BY RemoteTypes DEF Remote!Refreshed
  <2> QED
    BY <2>1 DEF RemoteFresh
<1>4. RemoteChains'
  BY <1>2, RemoteChainsStay
<1> QED
  BY <1>1, <1>2, <1>3, <1>4 DEF RemoteInv, Remote!RemoteBatchIsShown, Remote!Listing

LEMMA RemoteDeletes ==
  ASSUME RemoteInv,
         Remote!Delete \/ Remote!CommandEnds \/ \E d \in Dirs : Remote!DeletionEnds(d)
  PROVE  RemoteInv'
<1> USE DEF Remote!journal, Remote!view
<1>1. CASE Remote!Delete
  <2>1. Remote!RemoteBatchIsShown' /\ remoteMarked' \subseteq Dirs \X Names
    BY <1>1 DEF Remote!Delete, Remote!RemoteBatchIsShown
  <2> QED
    BY <1>1, <2>1, RemoteMenus DEF Remote!Delete
<1>2. CASE Remote!CommandEnds
  BY <1>2, RemoteRefreshes DEF Remote!CommandEnds, RemoteInv, Remote!TypeOK
<1>3. ASSUME NEW d \in Dirs, Remote!DeletionEnds(d) PROVE RemoteInv'
  <2>0. /\ UNCHANGED <<remoteContext, remoteIssued, remoteNews, remoteUnseen, remotePhase,
             remoteSnapshot, remoteKnown, remoteSelected,
                       remoteMarked, remoteMenu, remoteTrips, remoteAsked, remoteWished>>
        /\ remoteDeletions' = remoteDeletions \ {d}
    BY <1>3 DEF Remote!DeletionEnds
  <2>1. CASE remoteLocal.path = d
    <3>1. [remoteLocal EXCEPT !.loading = FALSE] \in Remote!PanelDirs
      BY DEF RemoteInv, Remote!TypeOK, Remote!PanelDirs
    <3>2. Remote!Refreshed(remoteKnown, remoteKnown, [remoteLocal EXCEPT !.loading = FALSE])
      BY <1>3, <2>1 DEF Remote!DeletionEnds
    <3> QED
      BY <2>0, <3>1, <3>2, RemoteRefreshes
  <2>2. CASE remoteLocal.path # d
    <3>0. UNCHANGED <<remoteProjected, remoteLocal>>
      BY <1>3, <2>2 DEF Remote!DeletionEnds
    <3>1. Remote!TypeOK'
      BY <2>0, <3>0 DEF RemoteInv, Remote!TypeOK, Remote!Contexts
    <3>2. RemoteNumbered' /\ RemoteFollows' /\ RemoteRead' = RemoteRead
      BY <2>0 DEF RemoteInv, RemoteNumbered, RemoteFollows, RemoteRead
    <3>3. RemoteFresh'
      BY <2>0, <2>2, <3>0 DEF RemoteInv, RemoteFresh, RemoteUnread
    <3>4. RemoteChains'
      BY <2>0, <3>2, RemoteChainsStay
    <3> QED
      BY <2>0, <3>1, <3>2, <3>3, <3>4 DEF RemoteInv, Remote!RemoteBatchIsShown, Remote!Listing
  <2> QED
    BY <2>1, <2>2
<1> QED
  BY <1>1, <1>2, <1>3

LEMMA RemoteKept ==
  ASSUME RemoteInv, [Remote!Next]_remoteState PROVE RemoteInv'
<1>1. CASE UNCHANGED remoteState
  <2>1. remoteMarked' \subseteq Dirs \X Names
    BY <1>1 DEF remoteState, RemoteInv, Remote!TypeOK
  <2>2. Remote!RemoteBatchIsShown'
    BY <1>1 DEF remoteState, RemoteInv, Remote!RemoteBatchIsShown, Remote!Listing
  <2> QED
    BY <1>1, <2>1, <2>2, RemoteMenus DEF remoteState
<1>2. ASSUME NEW w \in Workspaces,
             \/ Remote!OpenWorkspace(w) \/ Remote!CloseWorkspace(w) \/ Remote!Begin(w)
             \/ \E d \in Dirs : Remote!DirectoryChanges(w, Remote!At(d, FALSE))
             \/ \E arrives \in BOOLEAN : Remote!Answered(w, arrives)
      PROVE  RemoteInv'
  BY <1>2, RemoteOpen, RemoteContextChanges, RemoteBegins, RemoteAnswers
<1>3. ASSUME NEW w \in Workspaces \cup {NoWorkspace}, Remote!SelectWorkspace(w) PROVE RemoteInv'
  BY <1>3, RemoteContextChanges
<1>4. ASSUME NEW d \in Dirs, Remote!Navigate(d) \/ Remote!DeletionEnds(d) PROVE RemoteInv'
  BY <1>4, RemoteNavigates, RemoteDeletes
<1>5. ASSUME NEW p \in Dirs \X Names,
             Remote!OpenMenu(p) \/ \E additive \in BOOLEAN : Remote!Mark(p, additive)
      PROVE  RemoteInv'
  BY <1>5, RemoteSelects
<1>6. CASE Remote!Next
  BY <1>2, <1>3, <1>4, <1>5, <1>6, RemoteReads, RemoteApplies, RemoteSelects,
    RemoteDeletes DEF Remote!Next
<1> QED
  BY <1>1, <1>6

-----------------------------------------------------------------------------
(* SftpPanel of the local side *)

\* Workspaces are numbered in the order of opening.
NearNumbered == IsFiniteSet(nearIssued) /\ nearIssued = 1..Cardinality(nearIssued)

\* What the view has read of the workspaces.
NearRead == IF nearPhase = "read" THEN nearSnapshot.open ELSE {}
\* Without news the view has read what the context holds, and a workspace it has
\* seen close does not come back.
NearFollows ==
  /\ nearKnown \cup nearContext.open \cup NearRead \subseteq nearIssued
  /\ ~nearNews =>
       /\ nearUnseen \cap nearContext.open = {}
       /\ nearContext.open = IF nearPhase = "idle" THEN nearKnown ELSE nearSnapshot.open
  /\ nearPhase = "read" => (nearKnown \ nearSnapshot.open) \cap nearContext.open = {}

\* The changes of a workspace that the view has not applied.
NearUnread(w) == w \in nearUnseen \/ (nearPhase = "read" /\ w \in nearSnapshot.changed)
\* A directory that is shown is the context's, or the view will apply it yet.
NearFresh ==
  nearSelected \in nearContext.open =>
    \/ nearLocal = nearContext.dir[nearSelected] \/ NearUnread(nearSelected)
    \/ nearTrips[nearSelected] # <<>> \/ nearLocal.path \in nearDeletions

\* Only the first navigation of a chain has begun.
NearFirstOnly == \A w \in Workspaces : \A i \in DOMAIN nearTrips[w] : nearTrips[w][i].begun => i = 1
NearNoTrips(w) == nearTrips[w] = <<>> /\ nearAsked[w] = nearWished[w]
\* The last of the chain is what the user wished for last, and the first what has
\* been asked for, once it has begun.
NearChained(w) ==
  \/ NearNoTrips(w)
  \/ /\ nearTrips[w] # <<>> /\ nearWished[w] = nearTrips[w][Len(nearTrips[w])].to
     /\ nearTrips[w][1].begun => nearAsked[w] = nearTrips[w][1].to
NearChains ==
  /\ NearFirstOnly
  /\ \A w \in Workspaces \ nearIssued : NearNoTrips(w)
  /\ \A w \in (nearContext.open \cup NearRead) \ nearKnown : NearNoTrips(w)
  /\ \A w \in nearKnown : NearChained(w)

NearInv == /\ Near!TypeOK /\ NearNumbered /\ NearFollows /\ NearFresh /\ NearChains

LEMMA NearStarts == Near!Init => NearInv
<1> SUFFICES ASSUME Near!Init PROVE NearInv
  OBVIOUS
<1> USE DEF Near!Init
<1>1. /\ nearIssued = {} /\ nearKnown = {} /\ nearUnseen = {} /\ nearPhase = "idle" /\ ~nearNews
      /\ nearContext.open = {} /\ nearSelected = NoWorkspace /\ nearMenu = Near!Nil
      /\ \A w \in Workspaces : nearTrips[w] = <<>> /\ nearAsked[w] = nearWished[w]
  OBVIOUS
<1>2. Near!TypeOK
  <2>1. Near!At(InitialDir, FALSE) \in Near!PanelDirs
    BY SessionAssumption DEF Near!At, Near!PanelDirs
  <2>2. nearTrips \in [Workspaces -> Near!Trips]
    BY EmptySeq DEF Near!Trips
  <2>3. nearContext \in Near!Contexts
    BY <2>1 DEF Near!Contexts
  <2>4. \A w \in Workspaces : InitialDir \in Dirs
    BY SessionAssumption
  <2> QED
    BY <1>1, <2>1, <2>2, <2>3, <2>4 DEF Near!TypeOK
<1>3. NearNumbered
  <2>1. IsFiniteSet({}) /\ Cardinality({}) = 0
    BY FS_EmptySet
  <2> QED
    BY <1>1, <2>1 DEF NearNumbered
<1>4. NearFollows /\ NearChains /\ NearFresh
  BY <1>1, PanelAssumption DEF NearFollows, NearChains, NearFresh, NearRead, NearFirstOnly,
    NearNoTrips
<1> QED
  BY <1>2, <1>3, <1>4 DEF NearInv

LEMMA NearGoal ==
  NearInv => Near!TypeOK /\ Near!PanelShowsTheContext /\ Near!LastWishIsAskedLast
<1> SUFFICES ASSUME NearInv
             PROVE  Near!PanelShowsTheContext /\ Near!LastWishIsAskedLast
  BY DEF NearInv
<1>1. Near!PanelShowsTheContext
  BY DEF NearInv, NearFollows, NearFresh, NearUnread, Near!TypeOK, Near!PanelShowsTheContext,
     Near!Shown
<1>2. Near!LastWishIsAskedLast
  BY DEF NearInv, NearChains, NearChained, NearNoTrips, Near!LastWishIsAskedLast
<1> QED
  BY <1>1, <1>2

LEMMA NearTypes ==
  ASSUME NearInv
  PROVE  /\ nearContext.open \subseteq Workspaces /\ nearKnown \subseteq Workspaces
         /\ nearIssued \subseteq Workspaces /\ nearUnseen \subseteq Workspaces
         /\ nearContext.selected \in Workspaces \cup {NoWorkspace}
         /\ nearContext.dir \in [Workspaces -> Near!PanelDirs]
         /\ nearContext \in Near!Contexts
         /\ nearContext = [open |-> nearContext.open, selected |-> nearContext.selected,
              dir |-> nearContext.dir]
         /\ NearRead \subseteq Workspaces /\ nearSelected \in nearKnown \cup {NoWorkspace}
BY DEF NearInv, Near!TypeOK, Near!Contexts, NearRead

\* A change of the context that is published: the directories that differ are named,
\* or closed.
LEMMA NearPublishes ==
  ASSUME NearInv, NEW changed \in SUBSET Workspaces, nearNews',
           nearUnseen' = nearUnseen \cup changed,
         nearContext' \in Near!Contexts, nearContext'.open \subseteq nearContext.open,
         \A w \in nearContext'.open \ changed : nearContext'.dir[w] = nearContext.dir[w],
         UNCHANGED <<nearIssued, nearPhase, nearSnapshot, nearKnown, nearSelected>>
  PROVE  /\ NearNumbered' /\ NearFollows'
         /\ \A w \in nearContext.open' : NearUnread(w)' \/
              (nearContext'.dir[w] = nearContext.dir[w] /\ (NearUnread(w) => NearUnread(w)'))
<1>1. NearNumbered'
  BY DEF NearInv, NearNumbered
<1>2. NearFollows'
  BY DEF NearInv, NearFollows, NearRead
<1>3. \A w \in nearContext.open' : NearUnread(w)' \/
              (nearContext'.dir[w] = nearContext.dir[w] /\ (NearUnread(w) => NearUnread(w)'))
  BY DEF NearUnread
<1> QED
  BY <1>1, <1>2, <1>3

LEMMA NearChainsStay ==
  ASSUME NearInv, UNCHANGED <<nearIssued, nearKnown, nearTrips, nearAsked, nearWished>>,
         nearContext'.open \cup NearRead' \subseteq nearContext.open \cup NearRead
  PROVE  NearChains'
BY DEF NearInv, NearChains, NearFirstOnly, NearNoTrips, NearChained

\* Selection, closing, and a directory that changes.
LEMMA NearContextChanges ==
  ASSUME NearInv,
         \/ \E w \in Workspaces \cup {NoWorkspace} : Near!SelectWorkspace(w)
         \/ \E w \in Workspaces : Near!CloseWorkspace(w)
         \/ \E w \in Workspaces, d \in Dirs : Near!DirectoryChanges(w, Near!At(d, FALSE))
  PROVE  NearInv'
<1> USE DEF Near!Published, Near!view, Near!journal
<1>0. UNCHANGED <<nearIssued, nearPhase, nearSnapshot, nearKnown, nearProjected, nearSelected,
        nearLocal, nearMarked, nearMenu,
                  nearTrips, nearDeletions, nearAsked, nearWished>>
  BY DEF Near!SelectWorkspace, Near!CloseWorkspace, Near!DirectoryChanges
<1>1. \E changed \in SUBSET Workspaces :
         /\ nearNews' = TRUE /\ nearUnseen' = nearUnseen \cup changed
         /\ nearContext' \in Near!Contexts /\ nearContext'.open \subseteq nearContext.open
         /\ \A w \in nearContext'.open \ changed : nearContext'.dir[w] = nearContext.dir[w]
  <2>0. Near!At(InitialDir, FALSE) \in Near!PanelDirs /\ \A d \in Dirs : Near!At(d,
          FALSE) \in Near!PanelDirs
    BY SessionAssumption DEF Near!At, Near!PanelDirs
  <2>1. ASSUME NEW w \in Workspaces \cup {NoWorkspace}, Near!SelectWorkspace(w)
        PROVE  /\ nearNews' = TRUE /\ nearUnseen' = nearUnseen \cup {}
               /\ nearContext' \in Near!Contexts /\ nearContext'.open \subseteq nearContext.open
               /\ nearContext'.dir = nearContext.dir
    BY <2>1, NearTypes DEF Near!SelectWorkspace, Near!Contexts
  <2>2. ASSUME NEW w \in Workspaces, Near!CloseWorkspace(w)
        PROVE  /\ nearNews' = TRUE /\ nearUnseen' = nearUnseen \cup {}
               /\ nearContext' \in Near!Contexts /\ nearContext'.open \subseteq nearContext.open
               /\ \A v \in nearContext'.open : nearContext'.dir[v] = nearContext.dir[v]
    <3>1. nearContext' = [open |-> nearContext.open \ {w},
                       selected |-> IF nearContext.selected = w THEN NoWorkspace ELSE
                         nearContext.selected,
                       dir |-> [nearContext.dir EXCEPT ![w] = Near!At(InitialDir, FALSE)]]
      BY <2>2, NearTypes DEF Near!CloseWorkspace
    <3>2. [nearContext.dir EXCEPT ![w] = Near!At(InitialDir,
            FALSE)] \in [Workspaces -> Near!PanelDirs]
      BY <2>0, NearTypes
    <3> QED
      BY <2>2, <3>1, <3>2, NearTypes DEF Near!CloseWorkspace, Near!Contexts
  <2>3. ASSUME NEW w \in Workspaces, NEW d \in Dirs, Near!DirectoryChanges(w, Near!At(d, FALSE))
        PROVE  /\ nearNews' = TRUE /\ nearUnseen' = nearUnseen \cup {w}
               /\ nearContext' \in Near!Contexts /\ nearContext'.open \subseteq nearContext.open
               /\ \A v \in nearContext'.open \ {w} : nearContext'.dir[v] = nearContext.dir[v]
    <3>1. nearContext' = [open |-> nearContext.open, selected |-> nearContext.selected,
                       dir |-> [nearContext.dir EXCEPT ![w] = Near!At(d, FALSE)]]
      BY <2>3, NearTypes DEF Near!DirectoryChanges
    <3>2. [nearContext.dir EXCEPT ![w] = Near!At(d, FALSE)] \in [Workspaces -> Near!PanelDirs]
      BY <2>0, NearTypes
    <3> QED
      BY <2>3, <3>1, <3>2, NearTypes DEF Near!DirectoryChanges, Near!Contexts
  <2>4. {} \in SUBSET Workspaces /\ \A w \in Workspaces : {w} \in SUBSET Workspaces
    OBVIOUS
  <2> QED
    BY <2>1, <2>2, <2>3, <2>4
<1>2. PICK changed \in SUBSET Workspaces :
         /\ nearNews' = TRUE /\ nearUnseen' = nearUnseen \cup changed
         /\ nearContext' \in Near!Contexts /\ nearContext'.open \subseteq nearContext.open
         /\ \A w \in nearContext'.open \ changed : nearContext'.dir[w] = nearContext.dir[w]
  BY <1>1
<1>3. Near!TypeOK'
  BY <1>0, <1>2 DEF NearInv, Near!TypeOK, Near!Contexts
<1>4. /\ NearNumbered' /\ NearFollows'
      /\ \A w \in nearContext.open' : NearUnread(w)' \/
              (nearContext'.dir[w] = nearContext.dir[w] /\ (NearUnread(w) => NearUnread(w)'))
  BY <1>0, <1>2, NearPublishes
<1>5. NearFresh'
  BY <1>0, <1>2, <1>4 DEF NearInv, NearFresh
<1>6. NearChains'
  <2>1. NearRead' = NearRead
    BY <1>0 DEF NearRead
  <2> QED
    BY <1>0, <1>2, <2>1, NearChainsStay
<1> QED
  BY <1>3, <1>4, <1>5, <1>6 DEF NearInv

LEMMA NearOpen ==
  ASSUME NearInv, NEW w \in Workspaces, Near!OpenWorkspace(w) PROVE NearInv'
<1> USE DEF Near!OpenWorkspace, Near!Published, Near!view, Near!journal
<1>0. /\ UNCHANGED <<nearPhase, nearSnapshot, nearKnown, nearProjected, nearSelected, nearLocal,
           nearMarked, nearMenu,
                     nearTrips, nearDeletions, nearAsked, nearWished>>
      /\ nearIssued' = nearIssued \cup {w} /\ nearNews' = TRUE /\ nearUnseen' = nearUnseen \cup {w}
      /\ w = Cardinality(nearIssued) + 1
  <2>1. Near!Cardinality(nearIssued) = Cardinality(nearIssued)
    BY DEF Near!Cardinality, Cardinality
  <2> QED
    BY <2>1
<1>1. nearContext' = [open |-> nearContext.open \cup {w}, selected |-> w, dir |-> nearContext.dir]
  BY NearTypes
<1>2. w \notin nearIssued /\ NearNumbered'
  <2>1. IsFiniteSet(nearIssued) /\ Cardinality(nearIssued) \in Nat
    BY FS_CardinalityType DEF NearInv, NearNumbered
  <2>2. w \notin nearIssued /\ nearIssued \cup {w} = 1..(Cardinality(nearIssued) + 1)
    BY <1>0, <2>1 DEF NearInv, NearNumbered
  <2>3. IsFiniteSet(nearIssued \cup {w})
          /\ Cardinality(nearIssued \cup {w}) = Cardinality(nearIssued) + 1
    BY <2>1, <2>2, FS_AddElement
  <2> QED
    BY <1>0, <2>2, <2>3 DEF NearNumbered
<1>3. Near!TypeOK'
  <2>1. nearContext' \in Near!Contexts
    BY <1>1, NearTypes DEF Near!Contexts
  <2> QED
    BY <1>0, <2>1 DEF NearInv, Near!TypeOK
<1>4. NearRead' = NearRead
  BY <1>0 DEF NearRead
<1>5. NearFollows'
  BY <1>0, <1>1, <1>2, <1>4 DEF NearInv, NearFollows
<1>6. NearFresh'
  BY <1>0, <1>1 DEF NearInv, NearFresh, NearUnread
<1>7. NearChains'
  BY <1>0, <1>1, <1>2, <1>4 DEF NearInv, NearChains, NearFirstOnly, NearNoTrips, NearChained
<1> QED
  BY <1>2, <1>3, <1>5, <1>6, <1>7 DEF NearInv

LEMMA NearReads ==
  ASSUME NearInv, Near!ReadWorkspaces PROVE NearInv'
<1> USE DEF Near!ReadWorkspaces, Near!view, Near!journal
<1>0. /\ UNCHANGED <<nearContext, nearIssued, nearKnown, nearProjected, nearSelected, nearLocal,
           nearMarked, nearMenu,
                     nearTrips, nearDeletions, nearAsked, nearWished>>
      /\ nearNews' = FALSE /\ nearUnseen' = nearUnseen \ nearContext.open
      /\ nearPhase = "idle" /\ nearPhase' = "read"
      /\ nearSnapshot' = [open |-> nearContext.open, selected |-> nearContext.selected,
                       changed |-> (nearUnseen \cap nearContext.open)]
  OBVIOUS
<1>1. Near!TypeOK'
  <2>1. nearSnapshot' \in [open : SUBSET Workspaces, selected : Workspaces \cup {NoWorkspace},
                        changed : SUBSET Workspaces]
    BY <1>0, NearTypes
  <2>2. nearUnseen' \subseteq Workspaces
    BY <1>0, NearTypes
  <2> QED
    BY <1>0, <2>1, <2>2 DEF NearInv, Near!TypeOK, Near!Contexts
<1>2. NearNumbered' /\ NearFollows'
  BY <1>0 DEF NearInv, NearNumbered, NearFollows, NearRead
<1>3. \A w \in nearContext.open : NearUnread(w) => NearUnread(w)'
  BY <1>0 DEF NearUnread
<1>4. NearFresh'
  BY <1>0, <1>3 DEF NearInv, NearFresh
<1>5. NearChains'
  BY <1>0, NearChainsStay DEF NearRead
<1> QED
  BY <1>1, <1>2, <1>4, <1>5 DEF NearInv

\* A snapshot is applied: the view follows the workspaces it has read, and takes over
\* the directories that had changed by then.
LEMMA NearApplies ==
  ASSUME NearInv, Near!ApplySnapshot PROVE NearInv'
<1> DEFINE now   == nearSnapshot.open
           new   == now \ nearKnown
           to    == IF nearSnapshot.selected \in now THEN nearSnapshot.selected ELSE NoWorkspace
           which == IF to # nearSelected /\ to # NoWorkspace THEN now ELSE nearSnapshot.changed
             \cup new
<1>0. /\ UNCHANGED <<nearContext, nearIssued, nearNews, nearUnseen, nearMenu, nearTrips,
           nearDeletions>>
      /\ nearPhase = "read" /\ nearPhase' = "idle" /\ nearKnown' = now /\ nearSelected' = to
      /\ Near!Refreshed(which, now, nearLocal)
      /\ nearMarked' = IF new # {} THEN {} ELSE nearMarked
      /\ nearAsked' = [w \in Workspaces |-> IF w \in now THEN nearAsked[w] ELSE InitialDir]
      /\ nearWished' = [w \in Workspaces |-> IF w \in now THEN nearWished[w] ELSE InitialDir]
  BY DEF Near!ApplySnapshot, Near!Restored
<1>1. /\ now \subseteq Workspaces /\ to \in now \cup {NoWorkspace}
      /\ nearSelected \in nearKnown \cup {NoWorkspace} /\ NoWorkspace \notin now
  BY <1>0, PanelAssumption DEF NearInv, Near!TypeOK
<1> HIDE DEF now, to
<1>2. NearRead' = {} /\ NearRead = now
  BY <1>0 DEF NearRead, now
<1>3. Near!TypeOK'
  <2>1. Near!At(InitialDir, FALSE) \in Near!PanelDirs
    BY SessionAssumption DEF Near!At, Near!PanelDirs
  <2>2. nearProjected' \in [Workspaces -> Near!PanelDirs]
    BY <1>0, <2>1, NearTypes DEF NearInv, Near!TypeOK, Near!Refreshed
  <2>3. nearLocal' \in Near!PanelDirs
    BY <1>0, <1>1, NearTypes DEF NearInv, Near!TypeOK, Near!Refreshed
  <2>4. nearAsked' \in [Workspaces -> Dirs] /\ nearWished' \in [Workspaces -> Dirs]
    BY <1>0, SessionAssumption DEF NearInv, Near!TypeOK
  <2> QED
    BY <1>0, <1>1, <2>2, <2>3, <2>4 DEF NearInv, Near!TypeOK
<1>4. NearNumbered' /\ NearFollows'
  BY <1>0, <1>2 DEF NearInv, NearNumbered, NearFollows, now
<1>5. NearFresh'
  <2> SUFFICES ASSUME to \in nearContext.open
               PROVE  \/ nearLocal' = nearContext.dir[to] \/ to \in nearUnseen
                      \/ nearTrips[to] # <<>> \/ nearLocal'.path \in nearDeletions
    BY <1>0 DEF NearFresh, NearUnread
  <2>0. to \in now
    BY <1>1, NearTypes, PanelAssumption
  <2>1. CASE to \in which
    BY <1>0, <2>0, <2>1 DEF Near!Refreshed
  <2>2. CASE to \notin which
    <3>1. to = nearSelected /\ to \notin nearSnapshot.changed
      BY <1>1, <2>0, <2>2
    <3>2. nearLocal' = nearLocal
      BY <1>0, <2>2 DEF Near!Refreshed
    <3> QED
      BY <3>1, <3>2 DEF NearInv, NearFresh, NearUnread
  <2> QED
    BY <2>1, <2>2
<1>6. NearChains'
  <2>1. \A w \in now : nearAsked'[w] = nearAsked[w] /\ nearWished'[w] = nearWished[w]
    BY <1>0, <1>1
  <2>2. \A w \in Workspaces \ now : nearAsked'[w] = nearWished'[w]
    BY <1>0
  <2>3. \A w \in Workspaces : NearNoTrips(w) => NearNoTrips(w)'
    BY <1>0, <2>1, <2>2 DEF NearNoTrips
  <2>4. \A w \in nearContext.open \ now : NearNoTrips(w)'
    <3>1. \A w \in nearContext.open \ now : w \notin nearKnown
      BY <1>0 DEF NearInv, NearFollows, now
    <3> QED
      BY <2>3, <3>1, NearTypes DEF NearInv, NearChains
  <2>5. \A w \in now : NearChained(w)'
    <3>1. \A w \in now \ nearKnown : NearNoTrips(w)'
      BY <1>1, <1>2, <2>3 DEF NearInv, NearChains
    <3>2. \A w \in now \cap nearKnown : NearChained(w)'
      BY <1>0, <2>1, <2>3, NearTypes DEF NearInv, NearChains, NearChained
    <3> QED
      BY <3>1, <3>2 DEF NearChained
  <2>6. NearFirstOnly' /\ \A w \in Workspaces \ nearIssued : NearNoTrips(w)'
    BY <1>0, <2>3 DEF NearInv, NearChains, NearFirstOnly
  <2> QED
    BY <1>0, <1>2, <2>4, <2>5, <2>6 DEF NearChains
<1> QED
  BY <1>3, <1>4, <1>5, <1>6 DEF NearInv

LEMMA NearNavigates ==
  ASSUME NearInv, NEW d \in Dirs, Near!Navigate(d) PROVE NearInv'
<1> DEFINE step == [to |-> d, begun |-> FALSE]
<1>0. /\ UNCHANGED <<nearContext, nearIssued, nearNews, nearUnseen, nearPhase, nearSnapshot,
           nearKnown, nearProjected,
                     nearSelected, nearMenu, nearDeletions, nearAsked>>
      /\ nearPhase = "idle" /\ nearSelected # NoWorkspace /\ nearMarked' = {}
      /\ nearTrips' = [nearTrips EXCEPT ![nearSelected] = Append(nearTrips[nearSelected], step)]
      /\ nearWished' = [nearWished EXCEPT ![nearSelected] = d]
      /\ nearLocal' = Near!At(d, TRUE)
  BY DEF Near!Navigate, Near!Calm
<1>1. nearSelected \in nearKnown /\ nearSelected \in Workspaces
  BY <1>0, NearTypes
<1>2. step \in [to : Dirs, begun : BOOLEAN] /\ nearTrips[nearSelected] \in Seq([to : Dirs,
        begun : BOOLEAN])
  BY <1>1 DEF NearInv, Near!TypeOK, Near!Trips
<1> DEFINE t == nearTrips[nearSelected]
           u == Append(t, step)
<1>3. /\ u \in Seq([to : Dirs, begun : BOOLEAN]) /\ u # <<>>
      /\ Len(t) \in Nat /\ Len(u) = Len(t) + 1
      /\ \A i \in 1..Len(t) : u[i] = t[i]
      /\ u[Len(t) + 1] = step
      /\ DOMAIN u = 1..(Len(t) + 1) /\ DOMAIN t = 1..Len(t)
  BY <1>2, AppendProperties, LenProperties
<1>4. ~step.begun /\ step.to = d
  OBVIOUS
<1>5. /\ nearTrips[nearSelected] = t /\ t \in Seq([to : Dirs, begun : BOOLEAN])
      /\ nearTrips'[nearSelected] = u
      /\ \A w \in Workspaces : w # nearSelected
           => nearTrips'[w] = nearTrips[w] /\ nearWished'[w] = nearWished[w]
      /\ nearWished'[nearSelected] = d
      /\ nearTrips' = [nearTrips EXCEPT ![nearSelected] = u]
  BY <1>0, <1>1, <1>2 DEF NearInv, Near!TypeOK
<1> HIDE DEF step, t, u
<1>6. Near!TypeOK'
  <2>1. nearTrips' \in [Workspaces -> Near!Trips] /\ nearWished' \in [Workspaces -> Dirs]
    BY <1>0, <1>1, <1>3, <1>5 DEF NearInv, Near!TypeOK, Near!Trips
  <2>2. Near!At(d, TRUE) \in Near!PanelDirs
    BY DEF Near!At, Near!PanelDirs
  <2> QED
    BY <1>0, <2>1, <2>2 DEF NearInv, Near!TypeOK, Near!Contexts
<1>7. NearNumbered' /\ NearFollows' /\ NearRead' = NearRead
  BY <1>0 DEF NearInv, NearNumbered, NearFollows, NearRead
<1>8. NearFresh'
  BY <1>0, <1>1, <1>3, <1>5 DEF NearInv, NearFresh, NearUnread
<1>9. NearChains'
  <2>1. \A w \in Workspaces \ {nearSelected} :
          /\ NearNoTrips(w) => NearNoTrips(w)'
          /\ NearChained(w) => NearChained(w)'
    BY <1>0, <1>5 DEF NearNoTrips, NearChained
  <2>2. NearFirstOnly'
    <3>1. \A i \in DOMAIN u : u[i].begun => i = 1
      <4>1. \A i \in DOMAIN t : t[i].begun => i = 1
        BY <1>1, <1>5 DEF NearInv, NearChains, NearFirstOnly
      <4> QED
        BY <1>3, <1>4, <4>1
    <3> QED
      BY <1>5, <3>1 DEF NearInv, NearChains, NearFirstOnly
  <2>3. \A w \in nearKnown : w = nearSelected => NearChained(w)'
    <3>1. u[Len(u)].to = nearWished'[nearSelected]
      BY <1>3, <1>4, <1>5
    <3>2. ASSUME u[1].begun PROVE nearAsked[nearSelected] = u[1].to
      <4>1. t # <<>>
        BY <1>3, <1>4, <3>2, EmptySeq
      <4>2. 1 \in 1..Len(t)
        BY <1>5, <4>1, ChainFacts
      <4>3. u[1] = t[1]
        BY <1>3, <4>2
      <4> QED
        BY <1>1, <1>5, <3>2, <4>1, <4>3 DEF NearInv, NearChains, NearChained, NearNoTrips
    <3> QED
      BY <1>0, <1>3, <1>5, <3>1, <3>2 DEF NearChained
  <2>4. nearSelected \in nearIssued
    BY <1>1 DEF NearInv, NearFollows
  <2>5. \A w \in Workspaces \ nearIssued : NearNoTrips(w)'
    BY <1>1, <2>1, <2>4 DEF NearInv, NearChains
  <2>6. \A w \in (nearContext.open \cup NearRead) \ nearKnown : NearNoTrips(w)'
    BY <1>1, <2>1, NearTypes DEF NearInv, NearChains
  <2>7. \A w \in nearKnown : NearChained(w)'
    BY <2>1, <2>3, NearTypes DEF NearInv, NearChains
  <2> QED
    BY <1>0, <1>7, <2>2, <2>5, <2>6, <2>7 DEF NearChains
<1> QED
  BY <1>6, <1>7, <1>8, <1>9 DEF NearInv

LEMMA NearBegins ==
  ASSUME NearInv, NEW w \in Workspaces, Near!Begin(w) PROVE NearInv'
<1> DEFINE t == nearTrips[w]
<1>1. PICK i \in Near!Free(w) :
         /\ nearTrips' = [nearTrips EXCEPT ![w][i].begun = TRUE]
         /\ nearAsked' = IF w \in nearKnown THEN [nearAsked EXCEPT ![w] = nearTrips[w][i].to] ELSE
              nearAsked
         /\ IF w \in nearContext.open
            THEN Near!Published([nearContext EXCEPT !.dir[w].loading = TRUE], {w})
            ELSE UNCHANGED <<nearContext, nearNews, nearUnseen>>
         /\ UNCHANGED <<nearIssued, nearPhase, nearSnapshot, Near!view, nearMarked, nearMenu,
              nearDeletions, nearWished>>
  BY DEF Near!Begin
<1>2. i = 1 /\ t # <<>>
  BY <1>1 DEF Near!Free
<1>3. /\ t \in Seq([to : Dirs, begun : BOOLEAN]) /\ Len(t) \in Nat /\ 1 <= Len(t)
      /\ DOMAIN t = 1..Len(t) /\ 1 \in DOMAIN t /\ t[1] \in [to : Dirs, begun : BOOLEAN]
      /\ Len(t) \in DOMAIN t /\ t[Len(t)] \in [to : Dirs, begun : BOOLEAN]
      /\ \A j \in DOMAIN t : t[j] \in [to : Dirs, begun : BOOLEAN]
  <2>1. t \in Seq([to : Dirs, begun : BOOLEAN])
    BY DEF NearInv, Near!TypeOK, Near!Trips
  <2> HIDE DEF t
  <2> QED
    BY <1>2, <2>1, ChainFacts
<1>4. /\ UNCHANGED <<nearIssued, nearPhase, nearSnapshot, nearKnown, nearProjected, nearSelected,
           nearLocal, nearMarked, nearMenu,
                     nearDeletions, nearWished>>
      /\ nearTrips' = [nearTrips EXCEPT ![w] = [t EXCEPT ![1] = [t[1] EXCEPT !.begun = TRUE]]]
      /\ \A v \in Workspaces : v # w => nearTrips'[v] = nearTrips[v] /\ nearAsked'[v] = nearAsked[v]
      /\ w \in nearKnown => nearAsked'[w] = t[1].to
      /\ nearTrips'[w] = [t EXCEPT ![1] = [t[1] EXCEPT !.begun = TRUE]]
  BY <1>1, <1>2 DEF Near!view, NearInv, Near!TypeOK
<1> DEFINE u == [t EXCEPT ![1] = [t[1] EXCEPT !.begun = TRUE]]
<1>5. /\ u \in Seq([to : Dirs, begun : BOOLEAN]) /\ Len(u) = Len(t) /\ DOMAIN u = DOMAIN t
      /\ u # <<>>
  <2>1. [t[1] EXCEPT !.begun = TRUE] \in [to : Dirs, begun : BOOLEAN]
    BY <1>3
  <2>2. u \in [1..Len(t) -> [to : Dirs, begun : BOOLEAN]]
    BY <1>3, <2>1, LenProperties
  <2>3. u \in Seq([to : Dirs, begun : BOOLEAN])
    BY <1>3, <2>2, SeqDef
  <2>4. Len(u) = Len(t)
    BY <1>3, <2>2, <2>3, LenProperties
  <2> QED
    BY <1>3, <2>3, <2>4, EmptySeq
<1>6. \A j \in DOMAIN t : u[j].to = t[j].to /\ (j # 1 => u[j] = t[j])
  BY <1>3
<1>7. /\ nearTrips[w] = t /\ nearTrips'[w] = u /\ nearTrips' = [nearTrips EXCEPT ![w] = u]
  BY <1>4
<1> HIDE DEF t, u
<1>8. nearTrips' \in [Workspaces -> Near!Trips] /\ nearAsked' \in [Workspaces -> Dirs]
  <2>1. nearTrips' \in [Workspaces -> Near!Trips]
    BY <1>5, <1>7 DEF NearInv, Near!TypeOK, Near!Trips
  <2> QED
    BY <1>1, <1>2, <1>3, <1>7, <2>1 DEF NearInv, Near!TypeOK
<1>9. /\ nearContext'.open = nearContext.open /\ nearContext' \in Near!Contexts
           /\ nearUnseen' \subseteq Workspaces
      /\ nearNews' \in BOOLEAN
      /\ \A v \in Workspaces : v # w => nearContext'.dir[v] = nearContext.dir[v]
      /\ \/ w \in nearContext.open /\ nearNews' /\ nearUnseen' = nearUnseen \cup {w}
         \/ w \notin nearContext.open /\ UNCHANGED <<nearContext, nearNews, nearUnseen>>
  <2>1. CASE w \in nearContext.open
    <3>1. [nearContext.dir EXCEPT ![w] = [nearContext.dir[w] EXCEPT !.loading = TRUE]]
             \in [Workspaces -> Near!PanelDirs]
      <4>1. nearContext.dir[w] \in Near!PanelDirs
        BY NearTypes
      <4>2. [nearContext.dir[w] EXCEPT !.loading = TRUE] \in Near!PanelDirs
        BY <4>1 DEF Near!PanelDirs
      <4> QED
        BY <4>2, NearTypes
    <3>2. nearContext' = [open |-> nearContext.open, selected |-> nearContext.selected,
              dir |-> [nearContext.dir EXCEPT ![w] = [nearContext.dir[w] EXCEPT !.loading = TRUE]]]
      BY <1>1, <2>1, NearTypes DEF Near!Published
    <3> QED
      BY <1>1, <2>1, <3>1, <3>2, NearTypes DEF Near!Published, Near!Contexts
  <2>2. CASE w \notin nearContext.open
    BY <1>1, <2>2, NearTypes DEF NearInv, Near!TypeOK
  <2> QED
    BY <2>1, <2>2
<1>10. Near!TypeOK'
  BY <1>4, <1>8, <1>9 DEF NearInv, Near!TypeOK
<1>11. NearNumbered' /\ NearFollows' /\ NearRead' = NearRead
  BY <1>4, <1>9 DEF NearInv, NearNumbered, NearFollows, NearRead
<1>12. NearFresh'
  <2> SUFFICES ASSUME nearSelected \in nearContext.open, ~NearUnread(nearSelected)',
                        nearTrips'[nearSelected] = <<>>
               PROVE  nearLocal = nearContext'.dir[nearSelected] \/ nearLocal.path \in nearDeletions
    BY <1>4, <1>9 DEF NearFresh, NearUnread
  <2>1. nearSelected # w /\ ~NearUnread(nearSelected) /\ nearSelected \in Workspaces
    BY <1>4, <1>9, NearTypes DEF NearUnread
  <2> QED
    BY <1>4, <1>9, <2>1 DEF NearInv, NearFresh
<1>13. NearChains'
  <2>0. ~NearNoTrips(w)
    BY <1>2, <1>7 DEF NearNoTrips
  <2>1. \A v \in Workspaces \ {w} :
          /\ NearNoTrips(v) => NearNoTrips(v)'
          /\ NearChained(v) => NearChained(v)'
    BY <1>4 DEF NearNoTrips, NearChained
  <2>2. NearFirstOnly'
    <3>1. \A j \in DOMAIN t : t[j].begun => j = 1
      BY <1>7 DEF NearInv, NearChains, NearFirstOnly
    <3>2. \A j \in DOMAIN u : u[j].begun => j = 1
      BY <1>5, <1>6, <3>1
    <3> QED
      BY <1>4, <1>7, <3>2 DEF NearInv, NearChains, NearFirstOnly
  <2>3. \A v \in nearKnown : v = w => NearChained(v)'
    <3> SUFFICES ASSUME w \in nearKnown
                 PROVE  /\ u # <<>> /\ nearWished[w] = u[Len(u)].to
                        /\ u[1].begun => nearAsked'[w] = u[1].to
      BY <1>4, <1>7 DEF NearChained
    <3>1. nearWished[w] = t[Len(t)].to
      BY <1>7, <2>0 DEF NearInv, NearChains, NearChained
    <3>2. u[Len(u)].to = t[Len(t)].to /\ u[1].to = t[1].to
      BY <1>3, <1>5, <1>6
    <3> QED
      BY <1>4, <1>5, <3>1, <3>2
  <2>5. \A v \in Workspaces \ nearIssued : NearNoTrips(v)'
    BY <2>0, <2>1 DEF NearInv, NearChains
  <2>6. \A v \in (nearContext.open \cup NearRead) \ nearKnown : NearNoTrips(v)'
    BY <2>0, <2>1, NearTypes DEF NearInv, NearChains
  <2>7. \A v \in nearKnown : NearChained(v)'
    BY <2>1, <2>3, NearTypes DEF NearInv, NearChains
  <2> QED
    BY <1>4, <1>9, <1>11, <2>2, <2>5, <2>6, <2>7 DEF NearChains
<1> QED
  BY <1>10, <1>11, <1>12, <1>13 DEF NearInv

LEMMA NearAnswers ==
  ASSUME NearInv, NEW w \in Workspaces, NEW arrives \in BOOLEAN, Near!Answered(w,
           arrives) PROVE NearInv'
<1> DEFINE t == nearTrips[w]
           r == WithoutFirst(t)
           dir == Near!At(IF arrives THEN t[1].to ELSE nearContext.dir[w].path, FALSE)
<1>1. PICK i \in {j \in DOMAIN t : t[j].begun} :
          /\ nearTrips' = [nearTrips EXCEPT ![w] = SubSeq(t, 1, i - 1) \o SubSeq(t, i + 1, Len(t))]
          /\ LET there == IF arrives THEN t[i].to ELSE nearContext.dir[w].path
                 new == [nearContext EXCEPT !.dir[w] = Near!At(there, FALSE)]
             IN IF w \in nearContext.open
                THEN /\ Near!Published(new, {w})
                     /\ nearLocal' = IF nearSelected = w THEN new.dir[w] ELSE nearLocal
                ELSE UNCHANGED <<nearContext, nearNews, nearUnseen, nearLocal>>
  BY DEF Near!Answered
<1>2. i = 1 /\ 1 \in DOMAIN t /\ t[1].begun
  BY <1>1 DEF NearInv, NearChains, NearFirstOnly
<1>3. t \in Seq([to : Dirs, begun : BOOLEAN]) /\ t # <<>>
  <2>1. t \in Seq([to : Dirs, begun : BOOLEAN])
    BY DEF NearInv, Near!TypeOK, Near!Trips
  <2>2. DOMAIN <<>> = {}
    OBVIOUS
  <2> QED
    BY <1>2, <2>1, <2>2
<1>4. /\ r \in Seq([to : Dirs, begun : BOOLEAN])
      /\ r # <<>> => /\ Len(t) \in Nat /\ Len(r) = Len(t) - 1 /\ r[Len(r)] = t[Len(t)]
      /\ r = <<>> => Len(t) = 1
      /\ \A j \in DOMAIN r : j + 1 \in DOMAIN t /\ r[j] = t[j + 1] /\ j \in Nat /\ 1 <= j
      /\ t[1] \in [to : Dirs, begun : BOOLEAN]
  <2> HIDE DEF t
  <2>2. t[1] \in [to : Dirs, begun : BOOLEAN]
    BY <1>2, <1>3, ChainFacts
  <2> QED
    BY <1>3, <2>2, ChainWithoutFirst
<1>5. /\ UNCHANGED <<nearIssued, nearPhase, nearSnapshot, nearKnown, nearProjected, nearSelected,
           nearMarked, nearMenu,
                     nearDeletions, nearAsked, nearWished>>
      /\ nearPhase = "idle"
      /\ nearTrips' = [nearTrips EXCEPT ![w] = r] /\ nearTrips[w] = t /\ nearTrips'[w] = r
      /\ \A v \in Workspaces : v # w => nearTrips'[v] = nearTrips[v]
  <2>1. nearTrips' = [nearTrips EXCEPT ![w] = r]
    BY <1>1, <1>2 DEF WithoutFirst
  <2> QED
    BY <2>1 DEF Near!Answered, Near!Calm, Near!journal, NearInv, Near!TypeOK
<1>6. dir \in Near!PanelDirs
  <2>1. nearContext.dir[w].path \in Dirs
    BY NearTypes DEF Near!PanelDirs
  <2> QED
    BY <1>4, <2>1 DEF Near!At, Near!PanelDirs
<1>7. /\ w \in nearContext.open =>
           /\ nearContext' = [open |-> nearContext.open, selected |-> nearContext.selected,
                           dir |-> [nearContext.dir EXCEPT ![w] = dir]]
           /\ nearNews' = TRUE /\ nearUnseen' = nearUnseen \cup {w}
           /\ nearSelected = w => nearLocal' = dir
           /\ nearSelected # w => nearLocal' = nearLocal
      /\ w \notin nearContext.open => UNCHANGED <<nearContext, nearNews, nearUnseen, nearLocal>>
  BY <1>1, <1>2, NearTypes DEF Near!Published
<1> HIDE DEF t, r, dir
<1>8. /\ nearContext'.open = nearContext.open /\ nearContext' \in Near!Contexts
           /\ nearUnseen' \subseteq Workspaces
      /\ nearNews' \in BOOLEAN /\ nearLocal' \in Near!PanelDirs
      /\ \A v \in Workspaces : v # w => nearContext'.dir[v] = nearContext.dir[v]
      /\ w \in nearContext.open => nearContext'.dir[w] = dir
      /\ \/ w \in nearContext.open /\ nearNews' /\ nearUnseen' = nearUnseen \cup {w}
         \/ w \notin nearContext.open /\ UNCHANGED <<nearContext, nearNews, nearUnseen>>
  <2>1. CASE w \in nearContext.open
    <3>1. [nearContext.dir EXCEPT ![w] = dir] \in [Workspaces -> Near!PanelDirs]
      BY <1>6, NearTypes
    <3>2. /\ nearContext' \in Near!Contexts /\ nearContext'.open = nearContext.open
          /\ nearContext'.dir = [nearContext.dir EXCEPT ![w] = dir]
      BY <1>7, <2>1, <3>1, NearTypes DEF Near!Contexts
    <3>3. nearLocal' \in Near!PanelDirs
      BY <1>6, <1>7, <2>1 DEF NearInv, Near!TypeOK
    <3>4. nearUnseen' \subseteq Workspaces /\ nearNews' = TRUE
      BY <1>7, <2>1, NearTypes
    <3> QED
      BY <1>7, <2>1, <3>2, <3>3, <3>4, NearTypes
  <2>2. CASE w \notin nearContext.open
    BY <1>7, <2>2, NearTypes DEF NearInv, Near!TypeOK
  <2> QED
    BY <2>1, <2>2
<1>9. Near!TypeOK'
  <2>1. nearTrips' \in [Workspaces -> Near!Trips]
    BY <1>4, <1>5 DEF NearInv, Near!TypeOK, Near!Trips
  <2> QED
    BY <1>5, <1>8, <2>1 DEF NearInv, Near!TypeOK
<1>10. NearNumbered' /\ NearFollows' /\ NearRead' = NearRead
  BY <1>5, <1>8 DEF NearInv, NearNumbered, NearFollows, NearRead
<1>11. NearFresh'
  <2> SUFFICES ASSUME nearSelected \in nearContext.open, ~NearUnread(nearSelected)',
                        nearTrips'[nearSelected] = <<>>
               PROVE  nearLocal' = nearContext'.dir[nearSelected]
                        \/ nearLocal'.path \in nearDeletions
    BY <1>5, <1>8 DEF NearFresh, NearUnread
  <2>1. CASE nearSelected = w
    BY <1>7, <1>8, <2>1
  <2>2. CASE nearSelected # w
    <3>1. ~NearUnread(nearSelected) /\ nearSelected \in Workspaces /\ nearLocal' = nearLocal
      BY <1>5, <1>7, <1>8, <2>2, NearTypes DEF NearUnread
    <3> QED
      BY <1>5, <1>8, <2>2, <3>1 DEF NearInv, NearFresh
  <2> QED
    BY <2>1, <2>2
<1>12. NearChains'
  <2>0. ~NearNoTrips(w)
    BY <1>3, <1>5 DEF NearNoTrips
  <2>1. \A v \in Workspaces \ {w} :
          /\ NearNoTrips(v) => NearNoTrips(v)'
          /\ NearChained(v) => NearChained(v)'
    BY <1>5 DEF NearNoTrips, NearChained
  <2>2. \A j \in DOMAIN r : ~r[j].begun
    <3>1. \A j \in DOMAIN t : t[j].begun => j = 1
      BY <1>5 DEF NearInv, NearChains, NearFirstOnly
    <3>2. \A j \in DOMAIN r : j \in Nat /\ 1 <= j => j + 1 # 1
      OBVIOUS
    <3> QED
      BY <1>4, <3>1, <3>2
  <2>3. NearFirstOnly'
    BY <1>5, <2>2 DEF NearInv, NearChains, NearFirstOnly
  <2>4. \A v \in nearKnown : v = w => NearChained(v)'
    <3> SUFFICES ASSUME w \in nearKnown
                 PROVE  \/ r = <<>> /\ nearAsked[w] = nearWished[w]
                        \/ /\ r # <<>> /\ nearWished[w] = r[Len(r)].to
                           /\ r[1].begun => nearAsked[w] = r[1].to
      BY <1>5 DEF NearChained, NearNoTrips
    <3>1. nearWished[w] = t[Len(t)].to /\ nearAsked[w] = t[1].to
      BY <1>2, <1>5, <2>0 DEF NearInv, NearChains, NearChained
    <3>2. CASE r = <<>>
      BY <1>4, <3>1, <3>2
    <3>3. CASE r # <<>>
      BY <1>4, <2>2, <3>1, <3>3, ChainFacts
    <3> QED
      BY <3>2, <3>3
  <2>5. \A v \in Workspaces \ nearIssued : NearNoTrips(v)'
    BY <2>0, <2>1 DEF NearInv, NearChains
  <2>6. \A v \in (nearContext.open \cup NearRead) \ nearKnown : NearNoTrips(v)'
    BY <2>0, <2>1, NearTypes DEF NearInv, NearChains
  <2>7. \A v \in nearKnown : NearChained(v)'
    BY <2>1, <2>4, NearTypes DEF NearInv, NearChains
  <2> QED
    BY <1>5, <1>8, <1>10, <2>3, <2>5, <2>6, <2>7 DEF NearChains
<1> QED
  BY <1>9, <1>10, <1>11, <1>12 DEF NearInv

\* Selections and menus work on what is shown.
LEMMA NearMenus ==
  ASSUME NearInv,
         UNCHANGED <<nearContext, nearIssued, nearNews, nearUnseen, nearPhase, nearSnapshot,
           nearKnown, nearProjected,
                     nearSelected, nearLocal, nearTrips, nearDeletions, nearAsked, nearWished>>,
         nearMarked' \subseteq Dirs \X Names
  PROVE  NearInv'
<1>1. Near!TypeOK'
  BY DEF NearInv, Near!TypeOK, Near!Contexts
<1>2. NearNumbered' /\ NearFollows' /\ NearRead' = NearRead
  BY DEF NearInv, NearNumbered, NearFollows, NearRead
<1>3. NearFresh'
  BY DEF NearInv, NearFresh, NearUnread
<1>4. NearChains'
  BY <1>2, NearChainsStay
<1> QED
  BY <1>1, <1>2, <1>3, <1>4 DEF NearInv

LEMMA NearSelects ==
  ASSUME NearInv,
         \/ \E p \in Dirs \X Names : Near!OpenMenu(p)
         \/ \E p \in Dirs \X Names, additive \in BOOLEAN : Near!Mark(p, additive)
         \/ Near!Transfer
  PROVE  NearInv'
<1> USE DEF Near!view, Near!journal
<1>1. nearMarked' \subseteq Dirs \X Names
  BY DEF Near!OpenMenu, Near!Mark, Near!Transfer, NearInv, Near!TypeOK
<1> QED
  BY <1>1, NearMenus DEF Near!OpenMenu, Near!Mark, Near!Transfer

\* The view takes over what the context holds of the workspaces it knows.
LEMMA NearRefreshes ==
  ASSUME NearInv,
         UNCHANGED <<nearContext, nearIssued, nearNews, nearUnseen, nearPhase, nearSnapshot,
           nearKnown, nearSelected,
                     nearMarked, nearMenu, nearTrips, nearAsked, nearWished>>,
         nearDeletions' \subseteq nearDeletions, NEW copy \in Near!PanelDirs,
         Near!Refreshed(nearKnown, nearKnown, copy)
  PROVE  NearInv'
<1>1. Near!TypeOK'
  <2>1. Near!At(InitialDir, FALSE) \in Near!PanelDirs
    BY SessionAssumption DEF Near!At, Near!PanelDirs
  <2>2. nearProjected' \in [Workspaces -> Near!PanelDirs]
    BY <2>1, NearTypes DEF NearInv, Near!TypeOK, Near!Refreshed
  <2>3. nearLocal' \in Near!PanelDirs
    BY NearTypes DEF NearInv, Near!TypeOK, Near!Refreshed
  <2> QED
    BY <2>2, <2>3 DEF NearInv, Near!TypeOK, Near!Contexts
<1>2. NearNumbered' /\ NearFollows' /\ NearRead' = NearRead
  BY DEF NearInv, NearNumbered, NearFollows, NearRead
<1>3. NearFresh'
  <2>1. nearSelected \in nearContext.open => nearSelected \in nearKnown
    BY NearTypes, PanelAssumption
  <2>2. nearSelected \in nearContext.open => nearLocal' = nearContext.dir[nearSelected]
    BY <2>1, NearTypes DEF Near!Refreshed
  <2> QED
    BY <2>2 DEF NearFresh
<1>4. NearChains'
  BY <1>2, NearChainsStay
<1> QED
  BY <1>1, <1>2, <1>3, <1>4 DEF NearInv

LEMMA NearDeletes ==
  ASSUME NearInv,
         Near!Delete \/ Near!CommandEnds \/ \E d \in Dirs : Near!DeletionEnds(d)
  PROVE  NearInv'
<1> USE DEF Near!journal, Near!view
<1>1. CASE Near!Delete
  <2>0. /\ UNCHANGED <<nearContext, nearIssued, nearNews, nearUnseen, nearPhase, nearSnapshot,
             nearKnown, nearProjected,
                       nearSelected, nearTrips, nearAsked, nearWished>>
        /\ nearLocal' = [nearLocal EXCEPT !.loading = TRUE] /\ nearMarked' = {}
        /\ nearDeletions' = nearDeletions \cup {nearLocal.path}
    BY <1>1 DEF Near!Delete
  <2>1. nearLocal' \in Near!PanelDirs /\ nearLocal'.path = nearLocal.path /\ nearLocal.path \in Dirs
    BY <2>0 DEF NearInv, Near!TypeOK, Near!PanelDirs
  <2>2. Near!TypeOK'
    BY <2>0, <2>1 DEF NearInv, Near!TypeOK, Near!Contexts
  <2>3. NearNumbered' /\ NearFollows' /\ NearRead' = NearRead
    BY <2>0 DEF NearInv, NearNumbered, NearFollows, NearRead
  <2>4. NearFresh'
    BY <2>0, <2>1 DEF NearFresh
  <2>5. NearChains'
    BY <2>0, <2>3, NearChainsStay
  <2> QED
    BY <2>2, <2>3, <2>4, <2>5 DEF NearInv
<1>2. CASE Near!CommandEnds
  BY <1>2, NearRefreshes DEF Near!CommandEnds, NearInv, Near!TypeOK
<1>3. ASSUME NEW d \in Dirs, Near!DeletionEnds(d) PROVE NearInv'
  <2>0. /\ UNCHANGED <<nearContext, nearIssued, nearNews, nearUnseen, nearPhase, nearSnapshot,
             nearKnown, nearSelected,
                       nearMarked, nearMenu, nearTrips, nearAsked, nearWished>>
        /\ nearDeletions' = nearDeletions \ {d}
    BY <1>3 DEF Near!DeletionEnds
  <2>1. CASE nearLocal.path = d
    <3>1. [nearLocal EXCEPT !.loading = FALSE] \in Near!PanelDirs
      BY DEF NearInv, Near!TypeOK, Near!PanelDirs
    <3>2. Near!Refreshed(nearKnown, nearKnown, [nearLocal EXCEPT !.loading = FALSE])
      BY <1>3, <2>1 DEF Near!DeletionEnds
    <3> QED
      BY <2>0, <3>1, <3>2, NearRefreshes
  <2>2. CASE nearLocal.path # d
    <3>0. UNCHANGED <<nearProjected, nearLocal>>
      BY <1>3, <2>2 DEF Near!DeletionEnds
    <3>1. Near!TypeOK'
      BY <2>0, <3>0 DEF NearInv, Near!TypeOK, Near!Contexts
    <3>2. NearNumbered' /\ NearFollows' /\ NearRead' = NearRead
      BY <2>0 DEF NearInv, NearNumbered, NearFollows, NearRead
    <3>3. NearFresh'
      BY <2>0, <2>2, <3>0 DEF NearInv, NearFresh, NearUnread
    <3>4. NearChains'
      BY <2>0, <3>2, NearChainsStay
    <3> QED
      BY <3>1, <3>2, <3>3, <3>4 DEF NearInv
  <2> QED
    BY <2>1, <2>2
<1> QED
  BY <1>1, <1>2, <1>3

LEMMA NearKept ==
  ASSUME NearInv, [Near!Next]_nearState PROVE NearInv'
<1>1. CASE UNCHANGED nearState
  <2>1. nearMarked' \subseteq Dirs \X Names
    BY <1>1 DEF nearState, NearInv, Near!TypeOK
  <2> QED
    BY <1>1, <2>1, NearMenus DEF nearState
<1>2. ASSUME NEW w \in Workspaces,
             \/ Near!OpenWorkspace(w) \/ Near!CloseWorkspace(w) \/ Near!Begin(w)
             \/ \E d \in Dirs : Near!DirectoryChanges(w, Near!At(d, FALSE))
             \/ \E arrives \in BOOLEAN : Near!Answered(w, arrives)
      PROVE  NearInv'
  BY <1>2, NearOpen, NearContextChanges, NearBegins, NearAnswers
<1>3. ASSUME NEW w \in Workspaces \cup {NoWorkspace}, Near!SelectWorkspace(w) PROVE NearInv'
  BY <1>3, NearContextChanges
<1>4. ASSUME NEW d \in Dirs, Near!Navigate(d) \/ Near!DeletionEnds(d) PROVE NearInv'
  BY <1>4, NearNavigates, NearDeletes
<1>5. ASSUME NEW p \in Dirs \X Names,
             Near!OpenMenu(p) \/ \E additive \in BOOLEAN : Near!Mark(p, additive)
      PROVE  NearInv'
  BY <1>5, NearSelects
<1>6. CASE Near!Next
  BY <1>2, <1>3, <1>4, <1>5, <1>6, NearReads, NearApplies, NearSelects, NearDeletes DEF Near!Next
<1> QED
  BY <1>1, <1>6

-----------------------------------------------------------------------------
(* The specification                                                       *)

LEMMA LocalKept ==
  ASSUME LocalInv, [Local!Next]_localState PROVE LocalInv'
<1>1. CASE UNCHANGED localState
  <2>1. Local!TypeOK'
    BY <1>1 DEF localState, LocalInv, Local!TypeOK
  <2>2. LockHeld' /\ ScansApart' /\ ScansStay' /\ SavesShown' /\ SavedUnlessMoving'
    BY <1>1 DEF localState, LocalInv, LockHeld, HoldsLock, ScansApart, ScansStay, Newest,
       SavesShown, SavedUnlessMoving
  <2>3. Local!LoadingIsTheScan'
    BY <1>1 DEF localState, LocalInv, Local!LoadingIsTheScan, Local!At
  <2> QED
    BY <2>1, <2>2, <2>3 DEF LocalInv
<1> QED
  BY <1>1, LocalStep

LEMMA TreeKept ==
  ASSUME TreeInv, [Tree!Next]_treeState PROVE TreeInv'
<1>1. CASE UNCHANGED treeState
  <2>1. Tree!TypeOK'
    BY <1>1 DEF treeState, TreeInv, Tree!TypeOK
  <2>2. SourceFormed' /\ ListedBefore' /\ DoneIsSame' /\ InHandFollows' /\ TimesTell'
    BY <1>1 DEF treeState, TreeInv, SourceFormed, ListedBefore, Tree!SourceSignature, DoneIsSame,
       InHandFollows, TimesTell, Same
  <2> QED
    BY <2>1, <2>2 DEF TreeInv
<1> QED
  BY <1>1, TreeStep

\* The directory that is shown, here and at the server, is the one saved for the next
\* time when no navigation is under way, and a view is loading as long as something
\* will end that: for any number of directories, navigations, refreshes and transfers,
\* in any order (sftp/core/mod.rs, sftp/core/service/mod.rs).
THEOREM ShownIsTheSaved == Spec => []ShownIsSaved
<1>1. Init => SessionInv /\ LocalInv
  BY SessionStarts, LocalStarts DEF Init
<1>2. SessionInv /\ LocalInv /\ [Next]_all => SessionInv' /\ LocalInv'
  BY SessionKept, LocalKept, PartSteps
<1>3. SessionInv /\ LocalInv => ShownIsSaved
  BY SessionGoal, LocalGoal DEF ShownIsSaved
<1> QED
  BY <1>1, <1>2, <1>3, PTL DEF Spec

\* Only the connection and a navigation move the user to another directory, never the
\* refresh that ends an upload or a deletion (sftp/core/remote.rs).
THEOREM OnlyTheUserMoves == Spec => RefreshNeverMoves
<1>1. Init => SessionInv
  BY SessionStarts DEF Init
<1>2. SessionInv /\ [Next]_all => SessionInv'
  BY SessionKept, PartSteps
<1>3. SessionInv /\ [Next]_all =>
        [sessionShown'.path # sessionShown.path =>
           loop.at \in {"connecting", "navigate"} \/ ~sessionOpen']_(Session!vars)
  BY PartSteps, OnlyNavigationsMove DEF Session!vars
<1> QED
  BY <1>1, <1>2, <1>3, PTL DEF Spec, RefreshNeverMoves, Session!RefreshNeverMoves

\* A transfer that was cancelled writes once more at most, one that is recorded as done
\* has left nothing but its data, and none goes on behind a close that succeeded: for
\* any number of transfers and navigations (sftp/core/remote.rs, transfer.rs).
THEOREM TransfersEndWhole == Spec => []TransfersAreWhole
<1>1. Init => SessionInv
  BY SessionStarts DEF Init
<1>2. SessionInv /\ [Next]_all => SessionInv'
  BY SessionKept, PartSteps
<1>3. SessionInv => TransfersAreWhole
  BY SessionGoal DEF TransfersAreWhole
<1> QED
  BY <1>1, <1>2, <1>3, PTL DEF Spec

\* A tree that is recorded as done is the source's, but for what changed since it was
\* listed, also after runs that broke off and although files are skipped by size and
\* second: for files of any length and any number of changes and runs
\* (infrastructure/sftp/transfer.rs).
THEOREM DoneIsTheSame == Spec => []DoneMeansSame
<1>1. Init => TreeInv
  BY TreeStarts DEF Init
<1>2. TreeInv /\ [Next]_all => TreeInv'
  BY TreeKept, PartSteps
<1>3. TreeInv => DoneMeansSame
  BY TreeGoal DEF DoneMeansSame
<1> QED
  BY <1>1, <1>2, <1>3, PTL DEF Spec

\* A watch with nothing left to do has uploaded every change that was not made in the
\* second of another one and whose upload did not fail: for any number of changes,
\* seconds and retries and any debounce (sftp/core/watcher.rs).
THEOREM SettledMeansUploaded == Spec => []SettledIsUploaded
<1>1. Init => WatchInv
  BY WatchStarts DEF Init
<1>2. WatchInv /\ [Next]_all => WatchInv'
  BY WatchKept, PartSteps
<1>3. WatchInv => SettledIsUploaded
  BY WatchGoal DEF SettledIsUploaded
<1> QED
  BY <1>1, <1>2, <1>3, PTL DEF Spec

\* A panel at rest shows what the data context holds, the last directory the user
\* wished for is the last one asked of the application, and a menu works on entries
\* that were shown: for any number of workspaces, directories and navigations in
\* flight (gui/workspace/sftp).
THEOREM PanelsMeanIt == Spec => []PanelsMeanWhatTheyShow
<1>1. Init => RemoteInv /\ NearInv
  BY RemoteStarts, NearStarts DEF Init
<1>2. RemoteInv /\ NearInv /\ [Next]_all => RemoteInv' /\ NearInv'
  BY RemoteKept, NearKept, PartSteps
<1>3. RemoteInv /\ NearInv => PanelsMeanWhatTheyShow
  BY RemoteGoal, NearGoal DEF PanelsMeanWhatTheyShow
<1> QED
  BY <1>1, <1>2, <1>3, PTL DEF Spec
=============================================================================
