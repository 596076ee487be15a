----------------------------- MODULE MCProgress -----------------------------
(***************************************************************************)
(* What has to end, for model checking: the operations of local port       *)
(* forwarding, the navigations and transfers of an SFTP session, two       *)
(* navigations of one without transfers, the shells of the SSH server and  *)
(* the ports it forwards, and the saving of the theme. They share no       *)
(* state: a behaviour is of one of them, named by part, and the others     *)
(* stay in their initial states.                                           *)
(***************************************************************************)
EXTENDS Integers, Sequences

CONSTANTS Rules, Configs, Malformed, TaskIds, NoRule, NoTask, NoStatus, Dirs,
          InitialDir, NoDir, Transfers, NoShell, Conns, NoConn, Absent, Torn

VARIABLES
  part,         \* the part that runs in this behaviour
  forwardSaved, config, pc, cur, rest, waits, running, forwardTask, snap, statuses,
  runtimeIds, ctx, sub, dirty, loaded, forwardCrashes,
  sftpOpen, sftpShown, sftpCancelled, sftpXfer, sftpNav, sftpGoal, sftpSaved,
  sftpRegistered, sftpChan, sftpLoop, sftpContent, sftpClosing,
  browseOpen, browseShown, browseCancelled, browseXfer, browseNav, browseGoal,
  browseSaved, browseRegistered, browseChan, browseLoop, browseContent,
  browseClosing,
  shellsLoop, shellsChannel, shell, pty, commands, held, output, pump, queue, shellsTold,
  conn, cancelling, listeners, portsTask, aborted, relays, portsTold,
  app, settings, applied, themeChannel, unseen, edited, worker, hand, failed, file,
  themeCrashes

(* The configurations a part has in the behaviours of the others.          *)
SomeConfig == CHOOSE c \in [Rules -> Configs] : TRUE

Forward == INSTANCE PortForward WITH
  MaxConn <- 1, MaxCrashes <- 1, saved <- forwardSaved, task <- forwardTask,
  crashes <- forwardCrashes

Sftp == INSTANCE SftpSession WITH
  MaxNavs <- 1, open <- sftpOpen, shown <- sftpShown, cancelled <- sftpCancelled,
  xfer <- sftpXfer, nav <- sftpNav, goal <- sftpGoal, saved <- sftpSaved,
  registered <- sftpRegistered, chan <- sftpChan, loop <- sftpLoop,
  content <- sftpContent, closing <- sftpClosing

Browse == INSTANCE SftpSession WITH
  Transfers <- {}, MaxNavs <- 2, open <- browseOpen, shown <- browseShown,
  cancelled <- browseCancelled, xfer <- browseXfer, nav <- browseNav,
  goal <- browseGoal, saved <- browseSaved, registered <- browseRegistered,
  chan <- browseChan, loop <- browseLoop, content <- browseContent,
  closing <- browseClosing

Shells == INSTANCE SshServerSession WITH
  Channels <- {1}, Shells <- {1}, QueueSize <- 2, MaxUnread <- 1, loop <- shellsLoop,
  channel <- shellsChannel, told <- shellsTold

Granted == INSTANCE ReverseForwards WITH
  Ports <- {1, 2}, MaxRelays <- 2, task <- portsTask, told <- portsTold

Theme == INSTANCE ThemeSettings WITH
  ChosenThemes <- {"Custom"}, Backgrounds <- {-1}, MaxCrashes <- 0,
  channel <- themeChannel, crashes <- themeCrashes

forwardState == <<forwardSaved, config, pc, cur, rest, waits, running, forwardTask,
                  snap, statuses, runtimeIds, ctx, sub, dirty, loaded,
                  forwardCrashes>>
sftpState == <<sftpOpen, sftpShown, sftpCancelled, sftpXfer, sftpNav, sftpGoal,
               sftpSaved, sftpRegistered, sftpChan, sftpLoop, sftpContent,
               sftpClosing>>
browseState == <<browseOpen, browseShown, browseCancelled, browseXfer, browseNav,
                 browseGoal, browseSaved, browseRegistered, browseChan, browseLoop,
                 browseContent, browseClosing>>
shellsState == <<shellsLoop, shellsChannel, shell, pty, commands, held, output, pump,
                 queue, shellsTold>>
portsState == <<conn, cancelling, listeners, portsTask, aborted, relays, portsTold>>
themeState == <<app, settings, applied, themeChannel, unseen, edited, worker, hand,
                failed, file, themeCrashes>>

-----------------------------------------------------------------------------
Init ==
  /\ part \in {"forward", "sftp", "browse", "shells", "ports", "theme"}
  /\ Forward!Init
  /\ (part # "forward" => forwardSaved = [r \in Rules |-> "absent"] /\ config = SomeConfig)
  /\ Sftp!Init
  /\ Browse!Init
  /\ Shells!Init
  /\ Granted!Init
  /\ Theme!Init
  /\ (part # "theme" => file = Absent)

ForwardSteps ==
  /\ part = "forward" /\ Forward!Next
  /\ UNCHANGED <<part, sftpState, browseState, shellsState, portsState, themeState>>

SftpSteps ==
  /\ part = "sftp" /\ Sftp!Next
  /\ UNCHANGED <<part, forwardState, browseState, shellsState, portsState,
                 themeState>>

BrowseSteps ==
  /\ part = "browse" /\ Browse!Next
  /\ UNCHANGED <<part, forwardState, sftpState, shellsState, portsState, themeState>>

ShellsSteps ==
  /\ part = "shells" /\ Shells!Next
  /\ UNCHANGED <<part, forwardState, sftpState, browseState, portsState, themeState>>

GrantedSteps ==
  /\ part = "ports" /\ Granted!Next
  /\ UNCHANGED <<part, forwardState, sftpState, browseState, shellsState, themeState>>

ThemeSteps ==
  /\ part = "theme" /\ Theme!Next
  /\ UNCHANGED <<part, forwardState, sftpState, browseState, shellsState, portsState>>

Next == ForwardSteps \/ SftpSteps \/ BrowseSteps \/ ShellsSteps \/ GrantedSteps \/
        ThemeSteps

all == <<part, forwardState, sftpState, browseState, shellsState, portsState,
         themeState>>

(* The fairness of each part, as it states it.                             *)
Fairness ==
  /\ WF_forwardState(part = "forward" /\ Forward!Proceed)
  /\ WF_forwardState(part = "forward" /\ Forward!Subscription)
  /\ \A t \in TaskIds : WF_forwardState(part = "forward" /\ Forward!Closes(t))
  /\ WF_sftpState(part = "sftp" /\ Sftp!Loop)
  /\ WF_sftpState(part = "sftp" /\ Sftp!Close)
  /\ WF_sftpState(part = "sftp" /\ Sftp!Caller(1))
  /\ \A t \in Transfers : WF_sftpState(part = "sftp" /\ Sftp!Task(t))
  /\ WF_browseState(part = "browse" /\ Browse!Loop)
  /\ WF_browseState(part = "browse" /\ Browse!Close)
  /\ \A n \in 1..2 : WF_browseState(part = "browse" /\ Browse!Caller(n))
  /\ WF_shellsState(part = "shells" /\ Shells!Sent)
  /\ SF_shellsState(part = "shells" /\ Shells!Flush)
  /\ SF_shellsState(part = "shells" /\ Shells!Poll(1))
  /\ WF_shellsState(part = "shells" /\ Shells!CheckProgram(1))
  /\ WF_shellsState(part = "shells" /\ Shells!SendOutput(1))
  /\ SF_shellsState(part = "shells" /\ Shells!Pump(1))
  /\ \A p \in {1, 2} : WF_portsState(part = "ports" /\ Granted!TaskEnds(p))
  /\ \A p \in {1, 2} : WF_portsState(part = "ports" /\ Granted!RelayLeaves(p))
  /\ \A c \in Conns : WF_portsState(part = "ports" /\ Granted!Cancelled(c))
  /\ WF_themeState(part = "theme" /\ Theme!Worker)
  /\ WF_themeState(part = "theme" /\ Theme!ShutdownEnds)

Spec == Init /\ [][Next]_all /\ Fairness

-----------------------------------------------------------------------------
(* Whoever asks for something is answered: an operation on a forwarding    *)
(* rule, a navigation, a transfer; and a status that is wrong is corrected *)
(* (port_forward/core.rs, sftp/core/).                                     *)
OperationsEnd ==
  /\ Forward!OperationsEnd /\ Forward!DeathIsReported
  /\ Sftp!NavigationsEnd /\ Sftp!TransfersEnd /\ Browse!NavigationsEnd

(* What nobody holds any more ends: a shell without its client unless all  *)
(* queues of its circle are full, a forwarded port without its connection  *)
(* and the relays of ports when no connection is left,                     *)
(* the program that is closed although its theme cannot be saved           *)
(* (ssh_server/, theme/external.rs).                                       *)
OverMeansEnded ==
  /\ Shells!OnlyACircleStopsTheLoop /\ Shells!UnheldShellsEnd
  /\ Granted!PortsAreFreed
  /\ Theme!ShutdownEndsEventually
=============================================================================
