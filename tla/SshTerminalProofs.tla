------------------------- MODULE SshTerminalProofs -------------------------
(***************************************************************************)
(* For any amount of output and any number of commands: the types, and that*)
(* the last output of a terminal is shown before its status.               *)
(***************************************************************************)
EXTENDS SshTerminal, SequenceTheorems, TLAPS

(***************************************************************************)
(* An amount is a natural number; versions only follow output.             *)
(***************************************************************************)
Amounts ==
    /\ written \in Nat /\ written <= MaxOutput
    /\ visible \in Nat /\ visible <= written
    /\ version \in Nat /\ version <= written
    /\ content \/ sending = "answer" => version + 1 <= written

Flags ==
    /\ scrolled \in BOOLEAN /\ dirty \in BOOLEAN /\ content \in BOOLEAN
    /\ content => dirty

Shown ==
    /\ frame \in [visible : Nat, scrolled : BOOLEAN] /\ frame.visible <= written
    /\ agent \in [text : Nat, version : Int]
    /\ agent.text <= written /\ -1 <= agent.version /\ agent.version <= version

Control ==
    /\ phase \in {"connecting", "connected", "closedHere", "closedThere", "history", "ended"}
    /\ status \in {"connecting", "connected", "disconnected", "failed"}
    /\ held \in BOOLEAN /\ open \in BOOLEAN /\ eof \in BOOLEAN
    /\ sending \in {"nothing", "input", "resize", "answer"}
    /\ sending # "nothing" => phase = "connected"

\* Only Close takes the place kept for the last command.
Channel ==
    /\ chan \in Seq(Commands)
    /\ Len(chan) <= MaxCommands + 1
    /\ held => Len(chan) <= MaxCommands

\* Where the session is decides what its status can be and what can be dirty.
Places ==
    open =>
        /\ phase = "connecting" => status = "connecting" /\ ~dirty
        /\ phase \in {"connected", "closedHere", "closedThere"} => status = "connected"
        /\ phase = "history" => status = "disconnected"
        /\ phase = "ended" => status \in {"disconnected", "failed"}
        /\ phase \in {"closedHere", "closedThere"} \/ status = "disconnected" => ~dirty
        /\ ~dirty /\ status # "failed" /\ sending \notin {"resize", "answer"} => frame = Current

IInv == Amounts /\ Flags /\ Shown /\ Control /\ Channel /\ Places

\* The unprimed parts imply what the runs check.
LEMMA Implied == IInv => TypeOK /\ LastOutputShown
<1>1. SUFFICES ASSUME IInv PROVE TypeOK /\ LastOutputShown
    OBVIOUS
<1>2. MaxOutput \in Nat /\ MaxCommands \in Nat
    BY TerminalAssumption
<1>3. frame \in [visible : 0 .. written, scrolled : BOOLEAN]
    BY <1>1 DEF IInv, Amounts, Shown
<1>4. agent \in [text : 0 .. written, version : -1 .. version]
    BY <1>1 DEF IInv, Amounts, Shown
<1>5. TypeOK
    BY <1>1, <1>2, <1>3, <1>4 DEF IInv, Amounts, Flags, Control, Channel, TypeOK, Texts
<1>6. LastOutputShown
    BY <1>1 DEF IInv, Places, Control, LastOutputShown
<1>7. QED
    BY <1>5, <1>6

LEMMA Initially == Init => IInv
<1>1. MaxOutput \in Nat /\ MaxCommands \in Nat
    BY TerminalAssumption
<1>2. SUFFICES ASSUME Init PROVE IInv
    OBVIOUS
<1>3. Amounts
    BY <1>1, <1>2 DEF Init, Amounts
<1>9. Flags
    BY <1>2 DEF Init, Flags
<1>4. Shown
    <2>1. frame = [visible |-> 0, scrolled |-> FALSE] /\ written = 0 /\ version = 0
        BY <1>2 DEF Init, Current
    <2>2. agent = [text |-> 0, version |-> -1]
        BY <1>2 DEF Init
    <2>3. frame \in [visible : Nat, scrolled : BOOLEAN] /\ frame.visible <= written
        BY <2>1
    <2>4. agent \in [text : Nat, version : Int] /\ agent.text = 0 /\ agent.version = -1
        BY <2>2
    <2>5. QED
        BY <2>1, <2>3, <2>4 DEF Shown
<1>5. Control
    BY <1>2 DEF Init, Control
<1>6. Channel
    <2>1. chan = <<>> /\ chan \in Seq(Commands) /\ Len(chan) = 0
        BY <1>2, EmptySeq DEF Init
    <2>2. QED
        BY <1>1, <2>1 DEF Channel
<1>7. Places
    BY <1>2 DEF Init, Places, Current
<1>8. QED
    BY <1>3, <1>4, <1>5, <1>6, <1>7, <1>9 DEF IInv

(***************************************************************************)
(* What publishing does to the frame and the version.                      *)
(***************************************************************************)
LEMMA Publishing ==
    ASSUME IInv, PublishDirty, sending = "nothing"
    PROVE  /\ frame' \in [visible : Nat, scrolled : BOOLEAN] /\ frame'.visible <= written
           /\ version' \in Nat /\ version <= version' /\ version' <= written
           /\ dirty' = FALSE /\ content' = FALSE
           /\ open /\ status # "failed" => frame' = Current
<1>1. CASE dirty
    <2>1. Publish(content) /\ dirty' = FALSE /\ content' = FALSE
        BY <1>1 DEF PublishDirty
    <2>2. Current \in [visible : Nat, scrolled : BOOLEAN] /\ Current.visible <= written
        BY DEF IInv, Amounts, Flags, Current
    <2>3. CASE open /\ frame # Current
        BY <2>1, <2>2, <2>3 DEF Publish, IInv, Amounts
    <2>4. CASE ~(open /\ frame # Current)
        BY <2>1, <2>4 DEF Publish, IInv, Amounts, Shown
    <2>5. QED
        BY <2>3, <2>4
<1>2. CASE ~dirty
    <2>1. UNCHANGED shownVars
        BY <1>2 DEF PublishDirty
    <2>2. dirty = FALSE /\ content = FALSE
        BY <1>2 DEF IInv, Flags
    <2>3. QED
        BY <1>2, <2>1, <2>2 DEF shownVars, IInv, Amounts, Shown, Places
<1>3. QED
    BY <1>1, <1>2

\* Taking a command leaves room in the channel.
LEMMA Taking ==
    ASSUME Channel, chan # <<>>
    PROVE  /\ Head(chan) \in Commands /\ Tail(chan) \in Seq(Commands)
           /\ Len(Tail(chan)) = Len(chan) - 1
<1>1. chan \in Seq(Commands)
    BY DEF Channel
<1>2. QED
    BY <1>1, HeadTailProperties

\* A view that moves stays within what was written.
LEMMA Moving ==
    ASSUME Amounts, Flags, MoveView
    PROVE  /\ written' = written /\ visible' \in Nat /\ visible' <= written
           /\ scrolled' \in BOOLEAN
<1>1. CASE scrolled'
    BY <1>1 DEF MoveView, Amounts
<1>2. CASE ~scrolled'
    BY <1>2 DEF MoveView, Amounts
<1>3. QED
    BY <1>1, <1>2

\* So does the one a command moves or leaves alone.
LEMMA Applying ==
    ASSUME Amounts, Flags, NEW command, Apply(command)
    PROVE  /\ written' = written /\ visible' \in Nat /\ visible' <= written
           /\ scrolled' \in BOOLEAN
           /\ command = "input" => UNCHANGED <<visible, scrolled>>
<1>1. CASE command # "input" /\ open
    BY <1>1, Moving DEF Apply
<1>2. CASE ~(command # "input" /\ open)
    BY <1>2 DEF Apply, bufferVars, Amounts, Flags
<1>3. QED
    BY <1>1, <1>2

\* A command shows what was dirty before; the view it scrolled is dirty after it.
LEMMA Dirtying ==
    ASSUME IInv, NEW command, Dirtied(command), sending = "nothing"
    PROVE  /\ frame' \in [visible : Nat, scrolled : BOOLEAN] /\ frame'.visible <= written
           /\ version' \in Nat /\ version <= version' /\ version' <= written
           /\ command # "scroll" => dirty' = FALSE
           /\ command = "scroll" => dirty' = TRUE
           /\ content' = FALSE
           /\ open /\ status # "failed" /\ command # "scroll" => frame' = Current
<1>1. CASE command # "scroll"
    <2>1. PublishDirty
        BY <1>1 DEF Dirtied
    <2>2. QED
        BY <1>1, <2>1, Publishing
<1>2. CASE command = "scroll"
    <2>1. dirty' = TRUE /\ content' = FALSE
        BY <1>2 DEF Dirtied
    <2>2. Current \in [visible : Nat, scrolled : BOOLEAN] /\ Current.visible <= written
        BY DEF IInv, Amounts, Flags, Current
    <2>3. CASE dirty
        <3>1. Publish(content)
            BY <1>2, <2>3 DEF Dirtied
        <3>2. CASE open /\ frame # Current
            BY <1>2, <2>1, <2>2, <3>1, <3>2 DEF Publish, IInv, Amounts
        <3>3. CASE ~(open /\ frame # Current)
            BY <1>2, <2>1, <3>1, <3>3 DEF Publish, IInv, Amounts, Shown
        <3>4. QED
            BY <3>2, <3>3
    <2>4. CASE ~dirty
        <3>1. UNCHANGED <<frame, version>>
            BY <1>2, <2>4 DEF Dirtied
        <3>2. QED
            BY <1>2, <2>1, <3>1 DEF IInv, Amounts, Shown
    <2>5. QED
        BY <1>2, <2>3, <2>4
<1>3. QED
    BY <1>1, <1>2

\* A command takes one of the places.
LEMMA StepSend ==
    ASSUME IInv, NEW command \in Commands, Send(command)
    PROVE  IInv'
<1>1. Amounts'
    BY TerminalAssumption DEF Send, bufferVars, shownVars, IInv, Amounts
<1>2. Flags'
    BY DEF Send, bufferVars, shownVars, IInv, Flags
<1>3. Shown'
    BY DEF Send, bufferVars, shownVars, IInv, Amounts, Shown
<1>4. Control'
    BY DEF Send, bufferVars, shownVars, IInv, Control
<1>5. Channel'
    BY TerminalAssumption DEF Send, bufferVars, shownVars, IInv, Channel
<1>6. Places'
    BY DEF Send, bufferVars, shownVars, IInv, Flags, Control, Places, Current
<1>7. QED
    BY <1>1, <1>2, <1>3, <1>4, <1>5, <1>6 DEF IInv

\* Disconnect takes the place kept for it.
LEMMA StepClose ==
    ASSUME IInv, Close
    PROVE  IInv'
<1>1. Amounts'
    BY TerminalAssumption DEF Close, bufferVars, shownVars, IInv, Amounts
<1>2. Flags'
    BY DEF Close, bufferVars, shownVars, IInv, Flags
<1>3. Shown'
    BY DEF Close, bufferVars, shownVars, IInv, Amounts, Shown
<1>4. Control'
    BY DEF Close, bufferVars, shownVars, IInv, Control
<1>5. Channel'
    <2>1. CASE phase = "ended"
        BY <2>1, TerminalAssumption DEF Close, IInv, Channel
    <2>2. CASE phase # "ended"
        <3>1. chan \in Seq(Commands) /\ Len(chan) <= MaxCommands /\ "disconnect" \in Commands
            BY DEF Close, IInv, Channel, Commands
        <3>2. chan' = Append(chan, "disconnect") /\ held' = FALSE
            BY <2>2 DEF Close
        <3>3. chan' \in Seq(Commands) /\ Len(chan') = Len(chan) + 1
            BY <3>1, <3>2, AppendProperties
        <3>4. QED
            BY <3>1, <3>2, <3>3, TerminalAssumption DEF Channel
    <2>3. QED
        BY <2>1, <2>2
<1>6. Places'
    BY DEF Close, bufferVars, shownVars, IInv, Flags, Control, Places, Current
<1>7. QED
    BY <1>1, <1>2, <1>3, <1>4, <1>5, <1>6 DEF IInv

\* Nothing is claimed of a workspace that is closed.
LEMMA StepRevoke ==
    ASSUME IInv, Revoke
    PROVE  IInv'
<1>1. Amounts'
    BY TerminalAssumption DEF Revoke, bufferVars, shownVars, IInv, Amounts
<1>2. Flags'
    BY DEF Revoke, bufferVars, shownVars, IInv, Flags
<1>3. Shown'
    BY DEF Revoke, bufferVars, shownVars, IInv, Amounts, Shown
<1>4. Control'
    BY DEF Revoke, bufferVars, shownVars, IInv, Control
<1>5. Channel'
    BY TerminalAssumption DEF Revoke, bufferVars, shownVars, IInv, Channel
<1>6. Places'
    BY DEF Revoke, bufferVars, shownVars, IInv, Flags, Control, Places, Current
<1>7. QED
    BY <1>1, <1>2, <1>3, <1>4, <1>5, <1>6 DEF IInv

\* The answer is what is there.
LEMMA StepPoll ==
    ASSUME IInv, Poll
    PROVE  IInv'
<1>1. Amounts'
    BY TerminalAssumption DEF Poll, bufferVars, shownVars, IInv, Amounts
<1>2. Flags'
    BY DEF Poll, bufferVars, shownVars, IInv, Flags
<1>3. Shown'
    BY DEF Poll, bufferVars, shownVars, IInv, Amounts, Shown
<1>4. Control'
    BY DEF Poll, bufferVars, shownVars, IInv, Control
<1>5. Channel'
    BY TerminalAssumption DEF Poll, bufferVars, shownVars, IInv, Channel
<1>6. Places'
    BY DEF Poll, bufferVars, shownVars, IInv, Flags, Control, Places, Current
<1>7. QED
    BY <1>1, <1>2, <1>3, <1>4, <1>5, <1>6 DEF IInv

LEMMA StepShellOpens ==
    ASSUME IInv, ShellOpens
    PROVE  IInv'
<1>1. Amounts'
    BY TerminalAssumption DEF ShellOpens, SetStatus, bufferVars, shownVars, IInv, Amounts
<1>2. Flags'
    BY DEF ShellOpens, SetStatus, bufferVars, shownVars, IInv, Flags
<1>3. Shown'
    BY DEF ShellOpens, SetStatus, bufferVars, shownVars, IInv, Amounts, Shown
<1>4. Control'
    BY DEF ShellOpens, SetStatus, bufferVars, shownVars, IInv, Control
<1>5. Channel'
    BY TerminalAssumption DEF ShellOpens, SetStatus, bufferVars, shownVars, IInv, Channel
<1>6. Places'
    BY DEF ShellOpens, SetStatus, bufferVars, shownVars, IInv, Flags, Control, Places, Current
<1>7. QED
    BY <1>1, <1>2, <1>3, <1>4, <1>5, <1>6 DEF IInv

LEMMA StepShellFails ==
    ASSUME IInv, ShellFails
    PROVE  IInv'
<1>1. Amounts'
    BY TerminalAssumption DEF ShellFails, Fail, SetStatus, bufferVars, shownVars, IInv, Amounts
<1>2. Flags'
    BY DEF ShellFails, Fail, SetStatus, bufferVars, shownVars, IInv, Flags
<1>3. Shown'
    BY DEF ShellFails, Fail, SetStatus, bufferVars, shownVars, IInv, Amounts, Shown
<1>4. Control'
    BY DEF ShellFails, Fail, SetStatus, bufferVars, shownVars, IInv, Control
<1>5. Channel'
    BY TerminalAssumption DEF ShellFails, Fail, SetStatus, bufferVars, shownVars, IInv, Channel
<1>6. Places'
    BY DEF ShellFails, Fail, SetStatus, bufferVars, shownVars, IInv, Flags, Control, Places, Current
<1>7. QED
    BY <1>1, <1>2, <1>3, <1>4, <1>5, <1>6 DEF IInv

\* What was dirty is shown first, then the view may move; one that was resized is
\* dirty only after the server was told.
LEMMA StepTakeCommand ==
    ASSUME IInv, TakeCommand
    PROVE  IInv'
<1>1. /\ Head(chan) \in Commands /\ Tail(chan) \in Seq(Commands)
      /\ Len(Tail(chan)) = Len(chan) - 1
    BY Taking DEF IInv, TakeCommand
<1>2. /\ written' = written /\ visible' \in Nat /\ visible' <= written
      /\ scrolled' \in BOOLEAN
      /\ Head(chan) = "input" => UNCHANGED <<visible, scrolled>>
    BY Applying DEF IInv, TakeCommand
<1>3. /\ frame' \in [visible : Nat, scrolled : BOOLEAN] /\ frame'.visible <= written
      /\ version' \in Nat /\ version <= version' /\ version' <= written
      /\ Head(chan) # "scroll" => dirty' = FALSE
      /\ Head(chan) = "scroll" => dirty' = TRUE
      /\ content' = FALSE
      /\ open /\ status # "failed" /\ Head(chan) # "scroll" => frame' = Current
    BY Dirtying DEF TakeCommand, Selecting
<1>4. /\ Head(chan) = "scroll" => sending' = "nothing"
      /\ Head(chan) # "scroll" => sending' \in {"input", "resize"} /\ sending' = Head(chan)
    BY <1>1 DEF TakeCommand, Commands
<1>5. Amounts'
    BY <1>4, <1>3, <1>2, TerminalAssumption DEF TakeCommand, IInv, Amounts
<1>6. Flags'
    BY <1>3, <1>2 DEF TakeCommand, IInv, Flags
<1>7. Shown'
    BY <1>3, <1>2 DEF TakeCommand, IInv, Amounts, Shown
<1>8. Control'
    BY <1>4 DEF TakeCommand, Selecting, IInv, Control
<1>9. Channel'
    BY <1>1, TerminalAssumption DEF TakeCommand, IInv, Channel
<1>10. Places'
    BY <1>4, <1>3, <1>2 DEF TakeCommand, Selecting, IInv, Flags, Control, Places, Current
<1>11. QED
    BY <1>5, <1>6, <1>7, <1>8, <1>9, <1>10 DEF IInv

LEMMA StepTakeDisconnect ==
    ASSUME IInv, TakeDisconnect
    PROVE  IInv'
<1>1. /\ frame' \in [visible : Nat, scrolled : BOOLEAN] /\ frame'.visible <= written
      /\ version' \in Nat /\ version <= version' /\ version' <= written
      /\ dirty' = FALSE /\ content' = FALSE
      /\ open /\ status # "failed" => frame' = Current
    BY Publishing DEF TakeDisconnect, Selecting
<1>2. /\ Head(chan) \in Commands /\ Tail(chan) \in Seq(Commands)
      /\ Len(Tail(chan)) = Len(chan) - 1
    BY Taking DEF IInv, TakeDisconnect
<1>3. Amounts'
    BY <1>1, TerminalAssumption DEF TakeDisconnect, Selecting, bufferVars, IInv, Amounts
<1>4. Flags'
    BY <1>1 DEF TakeDisconnect, Selecting, bufferVars, IInv, Flags
<1>5. Shown'
    BY <1>1 DEF TakeDisconnect, Selecting, bufferVars, IInv, Amounts, Shown
<1>6. Control'
    BY DEF TakeDisconnect, Selecting, bufferVars, IInv, Control
<1>7. Channel'
    BY <1>2, TerminalAssumption DEF TakeDisconnect, Selecting, bufferVars, IInv, Channel
<1>8. Places'
    BY <1>1 DEF TakeDisconnect, Selecting, bufferVars, IInv, Flags, Control, Places, Current
<1>9. QED
    BY <1>3, <1>4, <1>5, <1>6, <1>7, <1>8 DEF IInv

LEMMA StepTick ==
    ASSUME IInv, Tick
    PROVE  IInv'
<1>1. /\ frame' \in [visible : Nat, scrolled : BOOLEAN] /\ frame'.visible <= written
      /\ version' \in Nat /\ version <= version' /\ version' <= written
      /\ dirty' = FALSE /\ content' = FALSE
      /\ open /\ status # "failed" => frame' = Current
    BY Publishing DEF Tick, Selecting
<1>2. Amounts'
    BY <1>1, TerminalAssumption DEF Tick, Selecting, bufferVars, IInv, Amounts
<1>3. Flags'
    BY <1>1 DEF Tick, Selecting, bufferVars, IInv, Flags
<1>4. Shown'
    BY <1>1 DEF Tick, Selecting, bufferVars, IInv, Amounts, Shown
<1>5. Control'
    BY DEF Tick, Selecting, bufferVars, IInv, Control
<1>6. Channel'
    BY TerminalAssumption DEF Tick, Selecting, bufferVars, IInv, Channel
<1>7. Places'
    BY <1>1 DEF Tick, Selecting, bufferVars, IInv, Flags, Control, Places, Current
<1>8. QED
    BY <1>2, <1>3, <1>4, <1>5, <1>6, <1>7 DEF IInv

\* Each version has its output, which is dirty at once or when the answer is sent.
LEMMA StepOutput ==
    ASSUME IInv, Output
    PROVE  IInv'
<1>1. Amounts'
    BY TerminalAssumption DEF Output, Selecting, IInv, Amounts
<1>2. Flags'
    <2>1. CASE dirty' = TRUE /\ content' = TRUE
        BY <2>1 DEF Output, IInv, Flags
    <2>2. CASE UNCHANGED <<dirty, content>>
        BY <2>2 DEF Output, IInv, Flags
    <2>3. QED
        BY <2>1, <2>2 DEF Output
<1>3. Shown'
    BY DEF Output, Selecting, IInv, Amounts, Shown
<1>4. Control'
    BY DEF Output, Selecting, IInv, Control
<1>5. Channel'
    BY TerminalAssumption DEF Output, Selecting, IInv, Channel
<1>6. Places'
    BY DEF Output, Selecting, IInv, Flags, Control, Places, Current
<1>7. QED
    BY <1>1, <1>2, <1>3, <1>4, <1>5, <1>6 DEF IInv

\* What was not shown is dirty now.
LEMMA StepSent ==
    ASSUME IInv, Sent
    PROVE  IInv'
<1>1. Amounts'
    BY TerminalAssumption DEF Sent, bufferVars, IInv, Amounts
<1>2. Flags'
    BY DEF Sent, bufferVars, IInv, Flags
<1>3. Shown'
    BY DEF Sent, bufferVars, IInv, Amounts, Shown
<1>4. Control'
    BY DEF Sent, bufferVars, IInv, Control
<1>5. Channel'
    BY TerminalAssumption DEF Sent, bufferVars, IInv, Channel
<1>6. Places'
    BY DEF Sent, bufferVars, IInv, Flags, Control, Places, Current
<1>7. QED
    BY <1>1, <1>2, <1>3, <1>4, <1>5, <1>6 DEF IInv

\* What waited is lost to the frame, and the session shows as failed.
LEMMA StepSendFails ==
    ASSUME IInv, SendFails
    PROVE  IInv'
<1>1. Amounts'
    BY TerminalAssumption DEF SendFails, Fail, SetStatus, bufferVars, shownVars, IInv, Amounts
<1>2. Flags'
    BY DEF SendFails, Fail, SetStatus, bufferVars, shownVars, IInv, Flags
<1>3. Shown'
    BY DEF SendFails, Fail, SetStatus, bufferVars, shownVars, IInv, Amounts, Shown
<1>4. Control'
    BY DEF SendFails, Fail, SetStatus, bufferVars, shownVars, IInv, Control
<1>5. Channel'
    BY TerminalAssumption DEF SendFails, Fail, SetStatus, bufferVars, shownVars, IInv, Channel
<1>6. Places'
    BY DEF SendFails, Fail, SetStatus, bufferVars, shownVars, IInv, Flags, Control, Places, Current
<1>7. QED
    BY <1>1, <1>2, <1>3, <1>4, <1>5, <1>6 DEF IInv

LEMMA StepEof ==
    ASSUME IInv, Eof
    PROVE  IInv'
<1>1. Amounts'
    BY TerminalAssumption DEF Eof, Selecting, bufferVars, shownVars, IInv, Amounts
<1>2. Flags'
    BY DEF Eof, Selecting, bufferVars, shownVars, IInv, Flags
<1>3. Shown'
    BY DEF Eof, Selecting, bufferVars, shownVars, IInv, Amounts, Shown
<1>4. Control'
    BY DEF Eof, Selecting, bufferVars, shownVars, IInv, Control
<1>5. Channel'
    BY TerminalAssumption DEF Eof, Selecting, bufferVars, shownVars, IInv, Channel
<1>6. Places'
    BY DEF Eof, Selecting, bufferVars, shownVars, IInv, Flags, Control, Places, Current
<1>7. QED
    BY <1>1, <1>2, <1>3, <1>4, <1>5, <1>6 DEF IInv

\* The last output is shown here.
LEMMA StepRemoteCloses ==
    ASSUME IInv, RemoteCloses
    PROVE  IInv'
<1>1. /\ frame' \in [visible : Nat, scrolled : BOOLEAN] /\ frame'.visible <= written
      /\ version' \in Nat /\ version <= version' /\ version' <= written
      /\ dirty' = FALSE /\ content' = FALSE
      /\ open /\ status # "failed" => frame' = Current
    BY Publishing DEF RemoteCloses, Selecting
<1>2. Amounts'
    BY <1>1, TerminalAssumption DEF RemoteCloses, Selecting, bufferVars, IInv, Amounts
<1>3. Flags'
    BY <1>1 DEF RemoteCloses, Selecting, bufferVars, IInv, Flags
<1>4. Shown'
    BY <1>1 DEF RemoteCloses, Selecting, bufferVars, IInv, Amounts, Shown
<1>5. Control'
    BY DEF RemoteCloses, Selecting, bufferVars, IInv, Control
<1>6. Channel'
    BY TerminalAssumption DEF RemoteCloses, Selecting, bufferVars, IInv, Channel
<1>7. Places'
    BY <1>1 DEF RemoteCloses, Selecting, bufferVars, IInv, Flags, Control, Places, Current
<1>8. QED
    BY <1>2, <1>3, <1>4, <1>5, <1>6, <1>7 DEF IInv

\* By now nothing is dirty.
LEMMA StepDisconnected ==
    ASSUME IInv, Disconnected
    PROVE  IInv'
<1>1. Amounts'
    BY TerminalAssumption DEF Disconnected, SetStatus, bufferVars, shownVars, IInv, Amounts
<1>2. Flags'
    BY DEF Disconnected, SetStatus, bufferVars, shownVars, IInv, Flags
<1>3. Shown'
    BY DEF Disconnected, SetStatus, bufferVars, shownVars, IInv, Amounts, Shown
<1>4. Control'
    BY DEF Disconnected, SetStatus, bufferVars, shownVars, IInv, Control
<1>5. Channel'
    BY TerminalAssumption DEF Disconnected, SetStatus, bufferVars, shownVars, IInv, Channel
<1>6. Places'
    BY DEF Disconnected, SetStatus, bufferVars, shownVars, IInv, Flags, Control, Places, Current
<1>7. QED
    BY <1>1, <1>2, <1>3, <1>4, <1>5, <1>6 DEF IInv

LEMMA StepReadHistory ==
    ASSUME IInv, ReadHistory
    PROVE  IInv'
<1>1. /\ Head(chan) \in Commands /\ Tail(chan) \in Seq(Commands)
      /\ Len(Tail(chan)) = Len(chan) - 1
    BY Taking DEF IInv, ReadHistory
<1>2. /\ written' = written /\ visible' \in Nat /\ visible' <= written
      /\ scrolled' \in BOOLEAN
      /\ frame' = [visible |-> visible', scrolled |-> scrolled']
             \/ UNCHANGED <<visible, scrolled, frame>>
    <2>1. CASE Head(chan) \in {"resize", "scroll"} /\ open
        BY <2>1, Moving DEF ReadHistory, IInv
    <2>2. CASE ~(Head(chan) \in {"resize", "scroll"} /\ open)
        BY <2>2 DEF ReadHistory, bufferVars, IInv, Amounts, Flags
    <2>3. QED
        BY <2>1, <2>2
<1>3. Amounts'
    BY <1>2, TerminalAssumption DEF ReadHistory, bufferVars, IInv, Amounts
<1>4. Flags'
    BY <1>2 DEF ReadHistory, bufferVars, IInv, Flags
<1>5. Shown'
    BY <1>2 DEF ReadHistory, bufferVars, IInv, Amounts, Shown
<1>6. Control'
    BY DEF ReadHistory, bufferVars, IInv, Control
<1>7. Channel'
    BY <1>1, TerminalAssumption DEF ReadHistory, bufferVars, IInv, Channel
<1>8. Places'
    BY <1>2 DEF ReadHistory, bufferVars, IInv, Flags, Control, Places, Current
<1>9. QED
    BY <1>3, <1>4, <1>5, <1>6, <1>7, <1>8 DEF IInv

\* Every step keeps the invariant.
LEMMA Inductive == IInv /\ [Next]_vars => IInv'
<1>1. SUFFICES ASSUME IInv, [Next]_vars PROVE IInv'
    OBVIOUS
<1>2. CASE UNCHANGED vars
    BY <1>1, <1>2 DEF vars, bufferVars, shownVars, IInv, Amounts, Flags, Shown, Control, Channel,
                      Places, Current
<1>3. ASSUME NEW command \in Commands, Send(command) PROVE IInv'
    BY <1>1, <1>3, StepSend
<1>4. CASE Close
    BY <1>1, <1>4, StepClose
<1>5. CASE Revoke
    BY <1>1, <1>5, StepRevoke
<1>6. CASE Poll
    BY <1>1, <1>6, StepPoll
<1>7. CASE ShellOpens
    BY <1>1, <1>7, StepShellOpens
<1>8. CASE ShellFails
    BY <1>1, <1>8, StepShellFails
<1>9. CASE TakeCommand
    BY <1>1, <1>9, StepTakeCommand
<1>10. CASE TakeDisconnect
    BY <1>1, <1>10, StepTakeDisconnect
<1>11. CASE Sent
    BY <1>1, <1>11, StepSent
<1>12. CASE SendFails
    BY <1>1, <1>12, StepSendFails
<1>13. CASE Tick
    BY <1>1, <1>13, StepTick
<1>14. CASE Output
    BY <1>1, <1>14, StepOutput
<1>15. CASE Eof
    BY <1>1, <1>15, StepEof
<1>16. CASE RemoteCloses
    BY <1>1, <1>16, StepRemoteCloses
<1>17. CASE Disconnected
    BY <1>1, <1>17, StepDisconnected
<1>18. CASE ReadHistory
    BY <1>1, <1>18, StepReadHistory
<1>19. QED
    BY <1>1, <1>2, <1>3, <1>4, <1>5, <1>6, <1>7, <1>8, <1>9, <1>10, <1>11, <1>12, <1>13, <1>14, <1>15, <1>16, <1>17, <1>18 DEF Next, Run

(***************************************************************************)
(* The invariant holds in every state a session reaches.                   *)
(***************************************************************************)
THEOREM InductiveInvariant == Spec => []IInv
BY Initially, Inductive, PTL DEF Spec

(***************************************************************************)
(* Types; scrolling is no news; a version is never ahead of the output.    *)
(***************************************************************************)
THEOREM TypeCorrect == Spec => []TypeOK
BY InductiveInvariant, Implied, PTL

(***************************************************************************)
(* What was written is in the frame before the session shows as            *)
(* disconnected, on every way out of the loop that does not fail.          *)
(***************************************************************************)
THEOREM LastOutput == Spec => []LastOutputShown
BY InductiveInvariant, Implied, PTL

=============================================================================
