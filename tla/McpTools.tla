------------------------------ MODULE McpTools ------------------------------
(***************************************************************************)
(* What an MCP tool does with a workspace (infrastructure/agent_mcp:       *)
(* tools.rs, bridge/endpoint.rs and bridge/dispatch.rs, and the checks of  *)
(* application/sftp/external.rs, application/ssh and                       *)
(* application/session/validation.rs).  Pure operators: a tool is a row of *)
(* a table, and its answer a function of the session it names.  The queues *)
(* between the endpoint and the dispatcher are McpRouter's.                *)
(***************************************************************************)
EXTENDS Integers, Sequences

\* A tool reads DATA_CONTEXT, or sends a command and expects a kind of response;
\* `named': it takes ip and title, which must be the session's.
Reads(snapshot, named) == [by |-> "read", what |-> snapshot, expects |-> "", named |-> named]
Sends(command, response, named) ==
    [by |-> "command", what |-> command, expects |-> response, named |-> named]

SessionTools ==
    [list_profiles |-> Sends("ListProfiles", "Profiles", FALSE),
     open_session |-> Sends("OpenSession", "WorkspaceId", TRUE),
     open_ssh_tunnel |-> Sends("OpenSshTunnel", "SshTunnelWorkspace", FALSE)]

DirectoryTools ==
    [list_sftp_local |-> Reads("sftp", FALSE),
     list_sftp_remote |-> Reads("sftp", FALSE),
     change_sftp_local_directory |-> Sends("ChangeSftpLocalDirectory", "Empty", TRUE),
     change_sftp_remote_directory |-> Sends("ChangeSftpRemoteDirectory", "Empty", TRUE)]

TransferTools ==
    [upload_sftp |-> Sends("UploadSftp", "SftpTransferSummary", FALSE),
     download_sftp |-> Sends("DownloadSftp", "SftpTransferSummary", FALSE),
     list_sftp_transfers |-> Reads("sftp", FALSE)]

WatchTools ==
    [watch_sftp_local |-> Sends("WatchSftpLocal", "SftpWatch", TRUE),
     stop_sftp_local_watch |-> Sends("StopSftpLocalWatch", "Empty", TRUE),
     list_sftp_local_watches |-> Reads("sftp", TRUE)]

TerminalTools ==
    [mcp_read_terminal |-> Reads("terminal", FALSE),
     send_text |-> Sends("SendText", "Empty", FALSE),
     send_key |-> Sends("SendKey", "Empty", FALSE)]

Of(tools, t) == IF t \in DOMAIN tools THEN {tools[t]} ELSE {}
ToolNames ==
    DOMAIN SessionTools \cup DOMAIN DirectoryTools \cup DOMAIN TransferTools
        \cup DOMAIN WatchTools \cup DOMAIN TerminalTools
Tool(t) ==
    CHOOSE row \in Of(SessionTools, t) \cup Of(DirectoryTools, t) \cup Of(TransferTools, t)
                       \cup Of(WatchTools, t) \cup Of(TerminalTools, t) : TRUE

-----------------------------------------------------------------------------
(* The application                                                         *)

\* What the code tells apart of a session: its protocol ("none": there is no such
\* workspace), whether ip and title are its own, and its runtime; `terminal' and
\* `sftp' are its entries in DATA_CONTEXT, which stay as long as the workspace.
SessionsOf ==
    [protocol : {"none", "ssh", "sftp", "mysql"}, matches : BOOLEAN,
     runtime : {"none", "live", "ended"}]
HasTerminal(s) == s.protocol = "ssh"
HasSftp(s) == s.protocol = "sftp"

\* validate_session and validate_session_protocol
ValidSession(s, protocol, named) == s.protocol = protocol /\ (named => s.matches)

\* runtime_available: the runtime is in the map and its channel open.
Live(s) == s.runtime = "live"

Failed == "error"

\* The checks the application makes before it queues a command for a session.
Accepted(tool, s) ==
    CASE tool.what \in {"ListProfiles", "OpenSshTunnel"} -> TRUE
      [] tool.what = "OpenSession" -> s.matches
      [] tool.what \in {"SendText", "SendKey"} ->
            ValidSession(s, "ssh", FALSE) /\ HasTerminal(s) /\ Live(s)
      [] tool.what \in {"UploadSftp", "DownloadSftp"} -> HasSftp(s) /\ Live(s)
      [] tool.what = "ChangeSftpLocalDirectory" -> ValidSession(s, "sftp", TRUE) /\ s.runtime # "none"
      [] OTHER -> ValidSession(s, "sftp", TRUE) /\ Live(s)

\* Mutant: the session's runtime is looked up, its protocol is not.
DispatchUnchecked(tool, s) ==
    IF Live(s) \/ tool.what \in {"ListProfiles", "OpenSession", "OpenSshTunnel"}
    THEN tool.expects ELSE Failed

\* dispatch: the commands that make a session find its profile, the others their
\* runtime, and what is answered when they succeed.
Dispatch(tool, s) ==
    LET response ==
          CASE tool.what = "ListProfiles" -> "Profiles"
            [] tool.what = "OpenSession" -> "WorkspaceId"
            [] tool.what = "OpenSshTunnel" -> "SshTunnelWorkspace"
            [] tool.what \in {"UploadSftp", "DownloadSftp"} -> "SftpTransferSummary"
            [] tool.what = "WatchSftpLocal" -> "SftpWatch"
            [] OTHER -> "Empty"
    IN IF Accepted(tool, s) THEN response ELSE Failed

\* The methods of McpBridgeEndpoint that read: of which snapshot, if it is there.
Read(tool, s) ==
    CASE tool.what = "terminal" -> IF HasTerminal(s) THEN "page" ELSE Failed
      [] tool.what = "sftp" ->
            IF HasSftp(s) /\ (tool.named => ValidSession(s, "sftp", TRUE)) THEN "page" ELSE Failed

\* A response of another kind than expected is an error: nothing but this table
\* keeps endpoint and dispatcher in step.
Answered(tool, response) ==
    IF response \in {Failed, tool.expects} THEN response ELSE "wrong response"

AnswerOf(t, s) ==
    LET tool == Tool(t) IN
    IF tool.by = "read" THEN Read(tool, s) ELSE Answered(tool, Dispatch(tool, s))

ToolCalls == [tool : ToolNames, session : SessionsOf]

\* The tools that need no runtime of the session.
LocalTools == {"change_sftp_local_directory", "list_profiles", "open_session", "open_ssh_tunnel"}

\* No answer is of the wrong kind.  A tool that answers has acted on a workspace
\* of its own protocol, on the one that ip and title are of when it takes them,
\* and when it changes something there, on a live one.
ToolsActOnWhatTheyName(call) ==
    LET answer == AnswerOf(call.tool, call.session) tool == Tool(call.tool) s == call.session IN
    /\ answer # "wrong response"
    /\ answer # Failed =>
        /\ call.tool \in DOMAIN TerminalTools => s.protocol = "ssh"
        /\ call.tool \in DOMAIN DirectoryTools \cup DOMAIN TransferTools \cup DOMAIN WatchTools =>
               s.protocol = "sftp"
        /\ tool.named => s.matches
        /\ tool.by = "command" /\ call.tool \notin LocalTools => s.runtime = "live"

-----------------------------------------------------------------------------
(* send_key: what a key is on the wire (application/ssh/core/key.rs)       *)

Escape == 27
\* The texts of the named keys are distinct; what they are is left out.
NamedKeys ==
    {"enter", "backspace", "tab", "escape", "up", "down", "right", "left", "home", "end",
     "delete", "pageup", "pagedown", "insert", "f1", "f2", "f3", "f4", "f5", "f6", "f7", "f8",
     "f9", "f10", "f11", "f12"}
CursorKeys == {"up", "down", "right", "left", "home", "end"}

\* encode_special_key: a cursor key has another text in application mode.
SpecialKey(key, application) == <<"special", key, application /\ key \in CursorKeys>>

IsLetter(c) == c \in 65..90 \/ c \in 97..122
\* to_ascii_lowercase, & 0x1f
Lower(c) == IF c \in 65..90 THEN c + 32 ELSE c

\* Mutant: the letters only, counted from zero.
ControlKeyOfLetters(c) == IF IsLetter(c) THEN Lower(c) - 97 ELSE -1

\* encode_control_key: letters, space, and @ [ \ ] ^ _; -1 for any other.
ControlKey(c) ==
    CASE IsLetter(c) -> Lower(c) % 32
      [] c \in {32, 64} -> 0
      [] c \in 91..95 -> c - 64
      [] OTHER -> -1

\* A key press: a named key, a letter or another character, or a text of several.
KeyPresses ==
    [key : {<<"named", k>> : k \in NamedKeys} \cup {<<"char", c>> : c \in 32..126}
               \cup {<<"text", 0>>},
     control : BOOLEAN, alt : BOOLEAN, shift : BOOLEAN, application : BOOLEAN]

Shifted(key, shift) == <<key[1], key[2], shift /\ key[1] = "char">>

\* SshApplication::send_key. A named key takes Alt and ignores Control; of a
\* character with Control, Alt is ignored.
KeyBytes(p) ==
    LET prefix == IF p.alt THEN <<Escape>> ELSE <<>>
        control == IF p.key[1] = "char" THEN ControlKey(p.key[2]) ELSE -1
    IN CASE p.key[1] = "named" -> Append(prefix, SpecialKey(p.key[2], p.application))
         [] p.key[1] # "named" /\ p.control -> IF control = -1 THEN <<>> ELSE <<control>>
         [] OTHER -> Append(prefix, Shifted(p.key, p.shift))

CodeOfControl(c) ==   \* of ASCII: a character of the columns @ to _, or its small letter
    IF c \in 64..95 THEN c - 64 ELSE IF c \in 97..122 THEN c - 96 ELSE 0

\* Control with a character is the control code of that character or refused:
\* never the character itself, and never the code of another key.
ControlIsControl(p) ==
    p.control /\ p.key[1] = "char" =>
        LET c == p.key[2] IN
        IF c \in 64..95 \/ c \in 97..122 \/ c = 32 THEN KeyBytes(p) = <<CodeOfControl(c)>>
        ELSE KeyBytes(p) = <<>>

=============================================================================
