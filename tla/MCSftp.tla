------------------------------- MODULE MCSftp -------------------------------
(***************************************************************************)
(* An SFTP workspace, for model checking: its session while the user       *)
(* navigates, its session while transfers run, its local directory, the    *)
(* transfer of a tree, a watch of local files, and the panels of the two   *)
(* sides in the window. The parts have their own state here: a behaviour   *)
(* is of one of them, named by part, and the others stay in their initial  *)
(* states.                                                                 *)
(***************************************************************************)
EXTENDS Integers, Sequences

CONSTANTS
  Parts,                                                  \* those a behaviour may be of
  Dirs, InitialDir, NoDir, Transfers, MaxNavs,            \* of SftpSession
  AliasedDir, Alias, Navigations, Refreshes, Opening, None,  \* SftpLocal
  Root, Folder, FileA, FileB, NoPath,                     \* TreeTransfer, SftpWatch
  MaxSize, MaxTime, MaxChanges, MaxRuns,
  MaxWatched, MaxSecond, Debounce, Retries,
  Workspaces, NoWorkspace, Names, MaxTrips                \* SftpPanel

ASSUME SessionAssumption == MaxNavs \in Nat /\ InitialDir \in Dirs /\ NoDir \notin Dirs
ASSUME LocalAssumption ==
  /\ AliasedDir \in Dirs /\ Alias \notin Dirs /\ None \notin Dirs \cup {Alias}
  /\ None \notin Navigations /\ Opening \notin Navigations \cup Refreshes
  /\ Navigations \cap Refreshes = {}
ASSUME TreeAssumption ==
  /\ Root \notin {Folder, FileA, FileB, NoPath} /\ Folder \notin {FileA, FileB, NoPath}
  /\ FileA # FileB /\ NoPath \notin {FileA, FileB}
  /\ MaxSize \in Nat \ {0} /\ MaxTime \in Nat \ {0} /\ MaxChanges \in Nat \ {0}
  /\ MaxRuns \in Nat
ASSUME WatchAssumption ==
  MaxWatched \in Nat /\ MaxSecond \in Nat \ {0} /\ Debounce \in Nat /\ Retries \in Nat \ {0}
ASSUME PanelAssumption ==
  Workspaces \subseteq Nat /\ NoWorkspace \notin Workspaces /\ MaxTrips \in Nat

VARIABLES
  part,         \* the part that runs in this behaviour
  sessionOpen, sessionShown, cancelled, xfer, nav, goal, sessionSaved, registered,
  chan, loop, content, closing,
  localShown, requested, generation, localSaved, lock, localOpen, op, missed,
  overtaken,
  way, dated, source, target, plan, inHand, treeAt, clock, treeEdits, runs, since,
  unlucky,
  remoteContext, remoteIssued, remoteNews, remoteUnseen, remotePhase,
  remoteSnapshot, remoteKnown, remoteProjected, remoteSelected, remoteLocal,
  remoteMarked, remoteMenu, remoteTrips, remoteDeletions, remoteAsked, remoteWished,
  nearContext, nearIssued, nearNews, nearUnseen, nearPhase, nearSnapshot, nearKnown,
  nearProjected, nearSelected, nearLocal, nearMarked, nearMenu, nearTrips,
  nearDeletions, nearAsked, nearWished,
  kind, watchLocal, remote, events, pending, batch, roots, processed, watchAt, path,
  seen, tries, listed, copied, failed, heard, twice, second, watchEdits

Session == INSTANCE SftpSession WITH
  open <- sessionOpen, shown <- sessionShown, saved <- sessionSaved

(* The session has a part without limits, which the runs leave out: in     *)
(* theirs one transfer runs while the user navigates, or all of them in    *)
(* one directory while he does not.                                        *)
OneTransfer == \A t \in Transfers : t = (CHOOSE u \in Transfers : TRUE) \/ xfer[t].at = "new"
OneDirectory == /\ \A n \in Session!Navs : nav[n] = "new"
                /\ \A t \in Transfers : xfer[t].key \in {InitialDir, NoDir}

Local == INSTANCE SftpLocal WITH
  Directories <- Dirs, Target <- AliasedDir, First <- InitialDir, shown <- localShown,
  saved <- localSaved, open <- localOpen

Tree == INSTANCE TreeTransfer WITH
  Dir <- Folder, MaxEdits <- MaxChanges, at <- treeAt, edits <- treeEdits

Remote == INSTANCE SftpPanel WITH
  Side <- "remote", Directories <- Dirs, Start <- InitialDir,
  context <- remoteContext, issued <- remoteIssued, news <- remoteNews, unseen <- remoteUnseen,
  phase <- remotePhase, snapshot <- remoteSnapshot, known <- remoteKnown,
  projected <- remoteProjected, selected <- remoteSelected, local <- remoteLocal,
  marked <- remoteMarked, menu <- remoteMenu, trips <- remoteTrips,
  deletions <- remoteDeletions, asked <- remoteAsked, wished <- remoteWished

Near == INSTANCE SftpPanel WITH
  Side <- "local", Directories <- Dirs, Start <- InitialDir,
  context <- nearContext, issued <- nearIssued, news <- nearNews, unseen <- nearUnseen, phase <- nearPhase,
  snapshot <- nearSnapshot, known <- nearKnown, projected <- nearProjected,
  selected <- nearSelected, local <- nearLocal, marked <- nearMarked,
  menu <- nearMenu, trips <- nearTrips, deletions <- nearDeletions,
  asked <- nearAsked, wished <- nearWished

Watch == INSTANCE SftpWatch WITH
  Inner <- FileB, Outer <- FileA, MaxEdits <- MaxWatched, local <- watchLocal, at <- watchAt, edits <- watchEdits

(* The tree the part has in the behaviours of the others.                  *)
SomeTree == CHOOSE t \in Tree!Trees : TRUE
NoTree == [p \in {Root, Folder, FileA, FileB} |-> Tree!Missing]

sessionState == <<sessionOpen, sessionShown, cancelled, xfer, nav, goal, sessionSaved,
                  registered, chan, loop, content, closing>>
localState == <<localShown, requested, generation, localSaved, lock, localOpen, op,
                missed, overtaken>>
treeState == <<way, dated, source, target, plan, inHand, treeAt, clock, treeEdits,
               runs, since, unlucky>>
remoteState == <<remoteContext, remoteIssued, remoteNews, remoteUnseen, remotePhase,
                 remoteSnapshot, remoteKnown, remoteProjected, remoteSelected,
                 remoteLocal, remoteMarked, remoteMenu, remoteTrips,
                 remoteDeletions, remoteAsked, remoteWished>>
nearState == <<nearContext, nearIssued, nearNews, nearUnseen, nearPhase,
               nearSnapshot, nearKnown, nearProjected, nearSelected, nearLocal,
               nearMarked, nearMenu, nearTrips, nearDeletions, nearAsked, nearWished>>
watchState == <<kind, watchLocal, remote, events, pending, batch, roots, processed,
                watchAt, path, seen, tries, listed, copied, failed, heard, twice,
                second, watchEdits>>

-----------------------------------------------------------------------------
Init ==
  /\ part \in Parts
  /\ Session!Init
  /\ Local!Init
  /\ Tree!Init
  /\ (part # "tree" => way = "upload" /\ dated /\ source = SomeTree /\ target = NoTree)
  /\ Remote!Init
  /\ Near!Init
  /\ Watch!Init
  /\ (part # "watch" => kind = "file")

SessionSteps ==
  /\ part \in {"session", "browse", "transfers"} /\ Session!Next
  /\ part = "browse" => OneTransfer'
  /\ part = "transfers" => OneDirectory'
  /\ UNCHANGED <<part, localState, treeState, remoteState, nearState, watchState>>

LocalSteps ==
  /\ part = "local" /\ Local!Next
  /\ UNCHANGED <<part, sessionState, treeState, remoteState,
                 nearState, watchState>>

TreeSteps ==
  /\ part = "tree" /\ Tree!Next
  /\ UNCHANGED <<part, sessionState, localState, remoteState,
                 nearState, watchState>>

RemoteSteps ==
  /\ part = "remote" /\ Remote!Next
  /\ UNCHANGED <<part, sessionState, localState, treeState,
                 nearState, watchState>>

NearSteps ==
  /\ part = "near" /\ Near!Next
  /\ UNCHANGED <<part, sessionState, localState, treeState,
                 remoteState, watchState>>

WatchSteps ==
  /\ part = "watch" /\ Watch!Next
  /\ UNCHANGED <<part, sessionState, localState, treeState,
                 remoteState, nearState>>

Next == SessionSteps \/ LocalSteps \/ TreeSteps \/ RemoteSteps \/
        NearSteps \/ WatchSteps

all == <<part, sessionState, localState, treeState, remoteState,
         nearState, watchState>>

Spec == Init /\ [][Next]_all

-----------------------------------------------------------------------------
(* The directory that is shown, here and at the server, is the one saved   *)
(* for the next time when no navigation is under way, and a view is        *)
(* loading as long as something will end that (sftp/core/mod.rs,           *)
(* sftp/core/service/mod.rs).                                              *)
ShownIsSaved ==
  /\ Session!TypeOK /\ Session!LoadingIsExplained /\ Session!SavedIsShown
  /\ Local!TypeOK /\ Local!LoadingIsTheScan /\ Local!ShownIsSaved

(* Only the connection and a navigation move the user to another           *)
(* directory, never the refresh that ends an upload or a deletion          *)
(* (sftp/core/remote.rs).                                                  *)
RefreshNeverMoves == Session!RefreshNeverMoves

(* A transfer that was cancelled writes once more at most, one that is     *)
(* recorded as done has left nothing but its data, and none goes on behind *)
(* a close that succeeded (sftp/core/remote.rs, transfer.rs).              *)
TransfersAreWhole ==
  Session!AtMostOneLateWrite /\ Session!DoneMeansWhole /\ Session!ClosedMeansQuiet

(* A tree that is recorded as done is the source's, also after runs that   *)
(* broke off and although files are skipped by size and second             *)
(* (infrastructure/sftp/transfer.rs).                                      *)
DoneMeansSame == Tree!TypeOK /\ Tree!DoneMeansSame

(* A watch with nothing left to do has uploaded every change that was not  *)
(* made in the second of another one and whose upload did not fail         *)
(* (sftp/core/watcher.rs).                                                 *)
SettledIsUploaded == Watch!TypeOK /\ Watch!SettledIsUploaded

(* A panel at rest shows what the data context holds, the last directory   *)
(* the user wished for is the last one asked of the application, and a     *)
(* menu works on entries that were shown (gui/workspace/sftp).             *)
PanelsMeanWhatTheyShow ==
  /\ Remote!TypeOK /\ Remote!PanelShowsTheContext
  /\ Remote!LastWishIsAskedLast /\ Remote!RemoteBatchIsShown
  /\ Near!TypeOK /\ Near!PanelShowsTheContext /\ Near!LastWishIsAskedLast
=============================================================================
