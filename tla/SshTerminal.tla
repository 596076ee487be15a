---------------------------- MODULE SshTerminal ----------------------------
(***************************************************************************)
(* The session of an SSH terminal (application/ssh/core/ssh.rs): from the  *)
(* opening of the shell to the end of its task, with the frame the views   *)
(* show and the version by which an agent asks for news.                   *)
(*                                                                         *)
(* Output goes into the buffer at once and is shown later: by the refresh  *)
(* timer, before the next command, or at the end.  The frame is what the   *)
(* user looks at, who may have scrolled back; output may leave that part of*)
(* the buffer as it is.  The text is a number, the amount of output.       *)
(* A view is told from another by the output it shows and by being at the  *)
(* bottom or not.  Left out: exit status and signal (they choose a message),*)
(* and what a program asks, except that its answer is sent.                *)
(***************************************************************************)
EXTENDS Integers, Sequences

CONSTANTS
    MaxOutput,      \* bound: chunks of output
    MaxCommands     \* bound: commands in the channel

ASSUME TerminalAssumption == MaxOutput \in Nat /\ MaxCommands \in Nat

VARIABLES
    phase,      \* of run_ssh_session
    chan,       \* the unbounded command channel
    held,       \* the runtime is in the map: commands may be sent
    open,       \* the workspace is published
    status,     \* TerminalData::status
    written,    \* output in the buffer
    visible,    \* output that the part of the buffer in view shows
    scrolled,   \* the view is not at the bottom
    frame,      \* TerminalData::frame, which is also last_frame
    version,    \* mcp_snapshot_version
    dirty,      \* frame_dirty
    content,    \* content_dirty
    sending,    \* what an arm of the select sends to the server and awaits
    eof,        \* remote_eof_deadline is set
    agent       \* the last answer to an agent: the text and its version

bufferVars == <<written, visible, scrolled>>
shownVars == <<frame, version, dirty, content>>
vars == <<phase, chan, held, open, status, bufferVars, shownVars, sending, eof, agent>>

Commands == {"input", "resize", "scroll", "disconnect"}
Current == [visible |-> visible, scrolled |-> scrolled]
Texts == 0 .. MaxOutput

\* The flags and amounts fit together: there is no new output without a frame
\* to be shown, so that scrolling never counts as news, and a frame shows no
\* more than was written.
TypeOK ==
    /\ phase \in {"connecting", "connected", "closedHere", "closedThere", "history", "ended"}
    /\ chan \in Seq(Commands) /\ Len(chan) <= MaxCommands + 1
    /\ sending \in {"nothing", "input", "resize", "answer"}
    /\ held \in BOOLEAN /\ open \in BOOLEAN /\ eof \in BOOLEAN
    /\ status \in {"connecting", "connected", "disconnected", "failed"}
    /\ written \in Texts /\ visible \in 0 .. written /\ scrolled \in BOOLEAN
    /\ frame \in [visible : 0 .. written, scrolled : BOOLEAN]
    /\ dirty \in BOOLEAN /\ content \in BOOLEAN /\ (content => dirty)
    /\ version \in Texts
    /\ agent \in [text : 0 .. written, version : -1 .. version]

Init ==
    /\ phase = "connecting" /\ chan = <<>> /\ held = TRUE /\ open = TRUE
    /\ status = "connecting"
    /\ written = 0 /\ visible = 0 /\ scrolled = FALSE
    /\ frame = Current /\ version = 0 /\ dirty = FALSE /\ content = FALSE
    /\ sending = "nothing" /\ eof = FALSE /\ agent = [text |-> 0, version |-> -1]

-----------------------------------------------------------------------------
(* The application                                                         *)

\* Input is refused once the session has ended; anything is, once its task has.
Send(command) ==
    /\ held /\ phase # "ended" /\ Len(chan) < MaxCommands
    /\ command # "disconnect"
    /\ command = "input" => status \notin {"disconnected", "failed"}
    /\ chan' = Append(chan, command)
    /\ UNCHANGED <<phase, held, open, status, bufferVars, shownVars, sending, eof, agent>>

\* The runtime leaves its map and is told to disconnect, if it still listens.
Close ==
    /\ held /\ held' = FALSE
    /\ chan' = IF phase = "ended" THEN chan ELSE Append(chan, "disconnect")
    /\ UNCHANGED <<phase, open, status, bufferVars, shownVars, sending, eof, agent>>

\* The workspace goes with its buffer after the runtime.
Revoke ==
    /\ ~held /\ open /\ open' = FALSE
    /\ UNCHANGED <<phase, chan, held, status, bufferVars, shownVars, sending, eof, agent>>

\* An agent that has this version is told that nothing changed.
Poll ==
    /\ open /\ agent.version # version
    /\ agent' = [text |-> written, version |-> version]
    /\ UNCHANGED <<phase, chan, held, open, status, bufferVars, shownVars, sending, eof>>

-----------------------------------------------------------------------------
(* The connected session                                                   *)

\* Nothing is published for a closed workspace, nor if the view has not changed.
Publish(news) ==
    IF open /\ frame # Current
    THEN frame' = Current /\ version' = version + (IF news THEN 1 ELSE 0)
    ELSE UNCHANGED <<frame, version>>

\* Mutant: only the first flag is reset.
PublishHalf ==
    IF dirty THEN Publish(content) /\ dirty' = FALSE /\ UNCHANGED content
    ELSE UNCHANGED shownVars

PublishDirty ==
    IF dirty THEN Publish(content) /\ dirty' = FALSE /\ content' = FALSE
    ELSE UNCHANGED shownVars

SetStatus(new) == status' = IF open THEN new ELSE status
Fail == phase' = "ended" /\ SetStatus("failed")

\* Whether it succeeds or not, the shell is opened before any command is read.
ShellOpens ==
    /\ phase = "connecting"
    /\ phase' = (IF open THEN "connected" ELSE "ended") /\ SetStatus("connected")
    /\ UNCHANGED <<chan, held, open, bufferVars, shownVars, sending, eof, agent>>
ShellFails ==
    /\ phase = "connecting" /\ Fail
    /\ UNCHANGED <<chan, held, open, bufferVars, shownVars, sending, eof, agent>>

\* What the user wants to see: at the bottom, everything. A resize may move the
\* view as well. Without output there is nothing to scroll.
MoveView ==
    /\ scrolled' \in BOOLEAN /\ (scrolled' => written > 0)
    /\ visible' \in IF scrolled' THEN 0 .. written ELSE {written}
    /\ UNCHANGED written
Apply(command) == IF command # "input" /\ open THEN MoveView ELSE UNCHANGED bufferVars

\* What is dirty is shown first. A view that scrolled is dirty at once, one that
\* was resized after the server was told (Sent).
Dirtied(command) ==
    IF command = "scroll"
    THEN /\ IF dirty THEN Publish(content) ELSE UNCHANGED <<frame, version>>
         /\ dirty' = TRUE /\ content' = FALSE
    ELSE PublishDirty

\* The loop waits in its select, and in no arm of it.
Selecting == phase = "connected" /\ sending = "nothing"

\* Commands come first in the biased select. The arm of an input or a resize does
\* not return before the server has taken it.
TakeCommand ==
    /\ Selecting /\ chan # <<>> /\ Head(chan) # "disconnect"
    /\ chan' = Tail(chan)
    /\ Apply(Head(chan))
    /\ Dirtied(Head(chan))
    /\ sending' = IF Head(chan) = "scroll" THEN "nothing" ELSE Head(chan)
    /\ UNCHANGED <<phase, held, open, status, eof, agent>>

TakeDisconnect ==
    /\ Selecting /\ chan # <<>> /\ Head(chan) = "disconnect"
    /\ chan' = Tail(chan)
    /\ PublishDirty /\ phase' = "closedHere"
    /\ UNCHANGED <<held, open, status, bufferVars, sending, eof, agent>>

Tick ==
    /\ Selecting /\ chan = <<>> /\ dirty
    /\ PublishDirty
    /\ UNCHANGED <<phase, chan, held, open, status, bufferVars, sending, eof, agent>>

\* The view of who has scrolled back may stay as it is. The workspace is still
\* there, for it goes after Disconnect was sent, which is read first. If the
\* program asked something the answer is sent before the output counts as dirty.
Output ==
    /\ Selecting /\ chan = <<>> /\ written < MaxOutput
    /\ written' = written + 1
    /\ \/ visible' = written'
       \/ scrolled /\ UNCHANGED visible
    /\ \/ dirty' = TRUE /\ content' = TRUE /\ UNCHANGED sending
       \/ sending' = "answer" /\ UNCHANGED <<dirty, content>>
    /\ UNCHANGED <<phase, chan, held, open, status, scrolled, frame, version, eof, agent>>

\* The channel's window had room: the server reads. Nothing bounds the wait.
Sent ==
    /\ sending # "nothing" /\ sending' = "nothing"
    /\ dirty' = (dirty \/ sending \in {"resize", "answer"})
    /\ content' = (content \/ sending = "answer")
    /\ UNCHANGED <<phase, chan, held, open, status, bufferVars, frame, version, eof, agent>>

\* The connection is gone, as it is when the server no longer answers at all.
SendFails ==
    /\ sending # "nothing" /\ sending' = "nothing" /\ Fail
    /\ UNCHANGED <<chan, held, open, bufferVars, shownVars, eof, agent>>

Eof ==
    /\ Selecting /\ chan = <<>> /\ ~eof /\ eof' = TRUE
    /\ UNCHANGED <<phase, chan, held, open, status, bufferVars, shownVars, sending, agent>>

\* Mutant: what is dirty waits for a tick that does not come.
RemoteClosesUnshown ==
    /\ Selecting /\ chan = <<>> /\ phase' = "closedThere"
    /\ UNCHANGED <<chan, held, open, status, bufferVars, shownVars, sending, eof, agent>>

\* The channel is closed by the server, its reader ends, or five seconds have
\* passed after an eof. The last output is shown before the session leaves.
RemoteCloses ==
    /\ Selecting /\ chan = <<>> /\ phase' = "closedThere"
    /\ PublishDirty
    /\ UNCHANGED <<chan, held, open, status, bufferVars, sending, eof, agent>>

\* After the connection was closed. The history can still be read, if the server
\* closed it and the workspace is there.
Disconnected ==
    /\ phase \in {"closedHere", "closedThere"}
    /\ SetStatus("disconnected")
    /\ phase' = IF phase = "closedThere" /\ open THEN "history" ELSE "ended"
    /\ UNCHANGED <<chan, held, open, bufferVars, shownVars, sending, eof, agent>>

-----------------------------------------------------------------------------
(* The history of a session the server closed                              *)

\* Mutant: Disconnect is ignored as the input is.
ReadHistoryDeaf ==
    /\ phase = "history" /\ chan # <<>>
    /\ chan' = Tail(chan)
    /\ UNCHANGED <<phase, held, open, status, bufferVars, shownVars, sending, eof, agent>>

\* A view that moves is shown at once, without a new version.
ReadHistory ==
    /\ phase = "history" /\ chan # <<>>
    /\ chan' = Tail(chan)
    /\ IF Head(chan) \in {"resize", "scroll"} /\ open
       THEN MoveView /\ frame' = [visible |-> visible', scrolled |-> scrolled']
       ELSE UNCHANGED <<bufferVars, frame>>
    /\ phase' = IF Head(chan) = "disconnect" THEN "ended" ELSE phase
    /\ UNCHANGED <<held, open, status, version, dirty, content, sending, eof, agent>>

Run ==
    \/ ShellOpens \/ ShellFails
    \/ TakeCommand \/ TakeDisconnect \/ Sent \/ SendFails
    \/ Tick \/ Output \/ Eof \/ RemoteCloses
    \/ Disconnected \/ ReadHistory
Next == (\E command \in Commands : Send(command)) \/ Close \/ Revoke \/ Poll \/ Run

\* A command is read as soon as the loop selects or only shows the history. The
\* server and the user owe nothing: it may never take what the session sends it.
Fairness == WF_vars(TakeCommand \/ TakeDisconnect) /\ WF_vars(ReadHistory)
Spec == Init /\ [][Next]_vars /\ Fairness

-----------------------------------------------------------------------------
(* Properties                                                              *)

\* The frame shows what the view contains as soon as nothing is dirty nor about to
\* be, and when the session shows as disconnected, whoever closed it, nothing is:
\* the last output is shown before. A session that fails may lose it (SendFails).
LastOutputShown ==
    open /\ status \in {"connected", "disconnected"} =>
        /\ status = "disconnected" => ~dirty /\ sending = "nothing"
        /\ ~dirty /\ sending \notin {"resize", "answer"} => frame = Current

\* Whenever its terminal is closed the session ends, even if the server goes on
\* sending or a history is being read, unless it waits for the server for ever: to
\* open the shell, to take what is sent, or to close. These waits have no limit of
\* their own, and while one lasts Disconnect is not read.
WaitsForServer == phase \in {"connecting", "closedHere", "closedThere"} \/ sending # "nothing"
SessionEnds == []<>~WaitsForServer => (~held ~> phase = "ended")

\* An agent that is told that nothing changed has read everything, once what was
\* written was shown (infrastructure/agent_mcp/tools.rs, the tool that reads a terminal).
NothingMissed ==
    open /\ ~dirty /\ sending = "nothing" /\ status # "failed" /\ agent.version = version =>
        agent.text = written

=============================================================================
