-------------------------- MODULE SshServerSession --------------------------
(***************************************************************************)
(* A connection to the SSH server and its shells (infrastructure/          *)
(* ssh_server/handler.rs, shell.rs).  The session loop calls one handler   *)
(* after the other, and between them sends what shells have put into its   *)
(* queue.  A shell is a thread that takes commands, reads and writes the   *)
(* pty and waits for room in its output queue; a pump task moves the       *)
(* output into the queue of the session loop.  The three queues are        *)
(* bounded: 128 commands, 64 outputs, and the queue of the library.        *)
(* After each read of the pty the thread looks whether the program has     *)
(* ended; what the pty still holds then is not read any more.              *)
(***************************************************************************)
EXTENDS Integers, Sequences

CONSTANTS
    Channels, Shells, NoShell,
    QueueSize,   \* bound: the length of every queue
    MaxUnread    \* bound: reads that a pty holds output for

VARIABLES
    loop,        \* where the session loop is, and the shell it sends to
    channel,     \* ChannelState of each channel
    shell,       \* the thread: "none", "run", "blocked", "check", "exiting", "ended"
    pty,         \* output the thread has not read, and whether the program is over
    commands,    \* its commands
    held,        \* its sender is held by the handler
    output,      \* its output
    pump,        \* the pump and the output in its hand
    queue,       \* what the session loop has to send
    told         \* history: shells whose exit the client was told

vars == <<loop, channel, shell, pty, commands, held, output, pump, queue, told>>

NoState == [open |-> FALSE, size |-> FALSE, shell |-> NoShell]
Idle == [at |-> "idle", to |-> NoShell, command |-> "none"]
NoPump == [at |-> "none", message |-> "none"]

TypeOK ==
    /\ loop.at \in {"idle", "send", "gone"} /\ loop.to \in Shells \cup {NoShell}
    /\ channel \in [Channels -> [open : BOOLEAN, size : BOOLEAN, shell : Shells \cup {NoShell}]]
    /\ shell \in [Shells -> {"none", "run", "blocked", "check", "exiting", "ended"}]
    /\ pty \in [Shells -> [unread : 0..MaxUnread, over : BOOLEAN]]
    /\ held \in [Shells -> BOOLEAN] /\ told \subseteq Shells
    /\ \A s \in Shells : Len(commands[s]) <= QueueSize /\ Len(output[s]) <= QueueSize
    /\ Len(queue) <= QueueSize

Init ==
    /\ loop = Idle /\ channel = [c \in Channels |-> NoState]
    /\ shell = [s \in Shells |-> "none"]
    /\ pty = [s \in Shells |-> [unread |-> 0, over |-> FALSE]]
    /\ commands = [s \in Shells |-> <<>>] /\ held = [s \in Shells |-> FALSE]
    /\ output = [s \in Shells |-> <<>>] /\ pump = [s \in Shells |-> NoPump]
    /\ queue = <<>> /\ told = {}

Full(q) == Len(q) = QueueSize

-----------------------------------------------------------------------------
(* The handlers                                                            *)

Handler == loop.at = "idle"
ThreadsUnchanged == UNCHANGED <<shell, pty, commands, output, pump, queue, told>>

ChannelOpenSession(c) ==
    /\ Handler /\ ~channel[c].open
    /\ channel' = [channel EXCEPT ![c] = [NoState EXCEPT !.open = TRUE]]
    /\ UNCHANGED <<loop, held>> /\ ThreadsUnchanged

PtyRequest(c) ==
    /\ Handler /\ channel[c].open
    /\ channel' = [channel EXCEPT ![c].size = TRUE]
    /\ UNCHANGED <<loop, held>> /\ ThreadsUnchanged

Dropped(s) == IF s = NoShell THEN held ELSE [held EXCEPT ![s] = FALSE]

\* A shell needs a size; a second shell replaces the first one's sender.
ShellRequest(c, s) ==
    /\ Handler /\ channel[c].open /\ channel[c].size /\ shell[s] = "none"
    /\ shell' = [shell EXCEPT ![s] = "run"]
    /\ pump' = [pump EXCEPT ![s] = [NoPump EXCEPT !.at = "wait"]]
    /\ channel' = [channel EXCEPT ![c].shell = s]
    /\ held' = [Dropped(channel[c].shell) EXCEPT ![s] = TRUE]
    /\ UNCHANGED <<loop, pty, commands, output, queue, told>>

\* data and window_change_request wait for room among the commands.
Command(c) ==
    /\ Handler /\ channel[c].open /\ channel[c].shell # NoShell
    /\ loop' = [at |-> "send", to |-> channel[c].shell, command |-> "input"]
    /\ UNCHANGED <<channel, held>> /\ ThreadsUnchanged

\* channel_close and channel_eof alike.
ChannelClose(c) ==
    /\ Handler /\ channel[c].open
    /\ channel' = [channel EXCEPT ![c] = NoState]
    /\ loop' = IF channel[c].shell = NoShell THEN loop
               ELSE [at |-> "send", to |-> channel[c].shell, command |-> "stop"]
    /\ UNCHANGED held /\ ThreadsUnchanged

\* The state is removed before the request is refused: a shell loses its sender.
SubsystemRequest(c) ==
    /\ Handler /\ channel[c].open
    /\ channel' = [channel EXCEPT ![c] = NoState]
    /\ held' = Dropped(channel[c].shell)
    /\ UNCHANGED loop /\ ThreadsUnchanged

\* A shell that has ended has dropped its receiver: the send fails at once.
Sent ==
    /\ loop.at = "send" /\ (shell[loop.to] = "ended" \/ ~Full(commands[loop.to]))
    /\ commands' = IF shell[loop.to] = "ended" THEN commands
                   ELSE [commands EXCEPT ![loop.to] = Append(@, loop.command)]
    /\ held' = IF loop.command = "stop" THEN Dropped(loop.to) ELSE held
    /\ loop' = Idle
    /\ UNCHANGED <<channel, shell, pty, output, pump, queue, told>>

\* The loop sends what shells have queued between two handlers.
Flush ==
    /\ Handler /\ queue # <<>>
    /\ queue' = Tail(queue)
    /\ told' = IF Head(queue).message = "exit" THEN told \cup {Head(queue).from} ELSE told
    /\ UNCHANGED <<loop, channel, shell, pty, commands, held, output, pump>>

\* The connection ends and the handler is dropped: Stop if there is room for it.
Disconnect ==
    /\ Handler
    /\ loop' = [Idle EXCEPT !.at = "gone"] /\ queue' = <<>>
    /\ held' = [s \in Shells |-> FALSE]
    /\ commands' = [s \in Shells |->
         IF (\E c \in Channels : channel[c].shell = s) /\ shell[s] # "ended" /\ ~Full(commands[s])
         THEN Append(commands[s], "stop") ELSE commands[s]]
    /\ channel' = [c \in Channels |-> NoState]
    /\ UNCHANGED <<shell, pty, output, pump, told>>

-----------------------------------------------------------------------------
(* The program in the pty                                                  *)

Lives(s) == shell[s] \notin {"none", "ended"} /\ ~pty[s].over

ProgramWrites(s) ==
    /\ Lives(s) /\ pty[s].unread < MaxUnread
    /\ pty' = [pty EXCEPT ![s].unread = @ + 1]
    /\ UNCHANGED <<loop, channel, shell, commands, held, output, pump, queue, told>>

ProgramEnds(s) ==
    /\ Lives(s) /\ pty' = [pty EXCEPT ![s].over = TRUE]
    /\ UNCHANGED <<loop, channel, shell, commands, held, output, pump, queue, told>>

-----------------------------------------------------------------------------
(* The thread of a shell                                                   *)

Goes(s, at) == shell' = [shell EXCEPT ![s] = at]
\* Mutant: commands are not taken while there is output to read.
TakeCommandWhenQuiet(s) ==
    /\ shell[s] = "run" /\ commands[s] # <<>> /\ output[s] = <<>> /\ Head(commands[s]) # "stop"
    /\ commands' = [commands EXCEPT ![s] = Tail(@)] /\ UNCHANGED shell
    /\ UNCHANGED <<loop, channel, pty, held, output, pump, queue, told>>

\* Stop ends the shell, and so does more input than the pty takes.
TakeCommand(s) ==
    /\ shell[s] = "run" /\ commands[s] # <<>>
    /\ commands' = [commands EXCEPT ![s] = Tail(@)]
    /\ \/ Goes(s, "ended")
       \/ Head(commands[s]) # "stop" /\ UNCHANGED shell
    /\ UNCHANGED <<loop, channel, pty, held, output, pump, queue, told>>

\* is_closed: the sender is dropped, after the last command was taken or with one
\* that came after the thread had looked.
End(s) ==
    /\ shell[s] = "run" /\ ~held[s]
    /\ Goes(s, "ended")
    /\ UNCHANGED <<loop, channel, pty, commands, held, output, pump, queue, told>>

\* The pty cannot be read or written, as when its program is over.
PtyFails(s) ==
    /\ shell[s] = "run" /\ Goes(s, "ended")
    /\ UNCHANGED <<loop, channel, pty, commands, held, output, pump, queue, told>>

\* One read, of at most 8 KiB, and then one look at the program.
ReadOutput(s) ==
    /\ shell[s] = "run" /\ pty[s].unread > 0
    /\ pty' = [pty EXCEPT ![s].unread = @ - 1] /\ Goes(s, "blocked")
    /\ UNCHANGED <<loop, channel, commands, held, output, pump, queue, told>>

NothingToRead(s) ==
    /\ shell[s] = "run" /\ pty[s].unread = 0 /\ Goes(s, "check")
    /\ UNCHANGED <<loop, channel, pty, commands, held, output, pump, queue, told>>

\* The exit follows what was read. More output in the pty goes with it.
CheckProgram(s) ==
    /\ shell[s] = "check" /\ Goes(s, IF pty[s].over THEN "exiting" ELSE "run")
    /\ UNCHANGED <<loop, channel, pty, commands, held, output, pump, queue, told>>

\* blocking_send waits for room, and fails when the pump has ended.
SendOutput(s) ==
    /\ shell[s] \in {"blocked", "exiting"} /\ (pump[s].at = "ended" \/ ~Full(output[s]))
    /\ output' = IF pump[s].at = "ended" THEN output
                 ELSE [output EXCEPT ![s] = Append(@, IF shell[s] = "exiting" THEN "exit" ELSE "data")]
    /\ Goes(s, IF shell[s] = "blocked" /\ pump[s].at # "ended" THEN "check" ELSE "ended")
    /\ UNCHANGED <<loop, channel, pty, commands, held, pump, queue, told>>

-----------------------------------------------------------------------------
(* The pump                                                                *)

PumpTakes(s) ==
    /\ pump[s].at = "wait" /\ output[s] # <<>>
    /\ pump' = [pump EXCEPT ![s] = [at |-> "send", message |-> Head(output[s])]]
    /\ output' = [output EXCEPT ![s] = Tail(@)]
    /\ UNCHANGED <<loop, channel, shell, pty, commands, held, queue, told>>

\* The handle of a session that is gone refuses; an exit is the last message.
PumpSends(s) ==
    /\ pump[s].at = "send" /\ (loop.at = "gone" \/ ~Full(queue))
    /\ queue' = IF loop.at = "gone" THEN queue
                ELSE Append(queue, [from |-> s, message |-> pump[s].message])
    /\ pump' = [pump EXCEPT ![s] = [NoPump EXCEPT !.at =
                  IF loop.at = "gone" \/ pump[s].message = "exit" THEN "ended" ELSE "wait"]]
    /\ UNCHANGED <<loop, channel, shell, pty, commands, held, output, told>>

PumpEnds(s) ==
    /\ pump[s].at = "wait" /\ output[s] = <<>> /\ shell[s] = "ended"
    /\ pump' = [pump EXCEPT ![s].at = "ended"]
    /\ UNCHANGED <<loop, channel, shell, pty, commands, held, output, queue, told>>

-----------------------------------------------------------------------------
Poll(s) == TakeCommand(s) \/ End(s)
Program(s) == ProgramWrites(s) \/ ProgramEnds(s)
Reading(s) == PtyFails(s) \/ ReadOutput(s) \/ NothingToRead(s) \/ CheckProgram(s)
Pump(s) == PumpTakes(s) \/ PumpSends(s) \/ PumpEnds(s)

Next ==
    \/ \E c \in Channels :
        \/ ChannelOpenSession(c) \/ PtyRequest(c) \/ Command(c) \/ ChannelClose(c)
        \/ SubsystemRequest(c) \/ \E s \in Shells : ShellRequest(c, s)
    \/ Sent \/ Flush \/ Disconnect
    \/ \E s \in Shells : Program(s) \/ Poll(s) \/ Reading(s) \/ SendOutput(s) \/ Pump(s)

\* The loop polls its queue and the network fairly, threads and tasks run, a
\* thread takes the commands before it reads the pty, and a full queue lets the
\* tasks that wait for it in by turns.
Fairness ==
    /\ WF_vars(Sent) /\ SF_vars(Flush)
    /\ \A s \in Shells : /\ SF_vars(Poll(s)) /\ SF_vars(Pump(s))
                         /\ WF_vars(CheckProgram(s)) /\ WF_vars(SendOutput(s))

Spec == Init /\ [][Next]_vars /\ Fairness

-----------------------------------------------------------------------------
(* Properties                                                              *)

\* The loop waits for a shell that waits for its pump that waits for the loop.
Wedged ==
    /\ loop.at = "send" /\ Full(commands[loop.to]) /\ shell[loop.to] \in {"blocked", "exiting"}
    /\ Full(output[loop.to]) /\ pump[loop.to].at = "send" /\ Full(queue)

\* Nothing but this circle, with all of its queues full, keeps the loop from
\* the next handler.
OnlyACircleStopsTheLoop == loop.at = "send" ~> loop.at # "send" \/ Wedged

\* A shell ends when its sender is dropped, by the end of its channel, of the
\* connection, by a second shell or by a refused subsystem.
UnheldShellsEnd ==
    \A s \in Shells : shell[s] # "none" /\ ~held[s] ~> shell[s] = "ended" \/ Wedged

\* An exit is told of a program that has ended, after all the output that the
\* thread has read of it. Output that the pty still holds is told by nobody.
ExitIsToldLast ==
    \A s \in told : /\ pty[s].over /\ output[s] = <<>> /\ pump[s].at = "ended"
                    /\ \A i \in DOMAIN queue : queue[i].from # s
=============================================================================
