---------------------------- MODULE ProxyRequests ---------------------------
(***************************************************************************)
(* What the proxy servers answer to one client: handle_request of the HTTP *)
(* proxy (infrastructure/http_proxy/relay.rs) and negotiate, reject_busy   *)
(* of the SOCKS5 proxy (infrastructure/socks5_proxy/protocol.rs).  Pure    *)
(* operators: a request is a record of what the code tells apart, and the  *)
(* answer what is written and the target that is connected, if any.        *)
(***************************************************************************)
EXTENDS Integers, Sequences, SequencesExt, FiniteSets

\* No target, no port.
Absent == 0
MaxPort == 65535

-----------------------------------------------------------------------------
(* HTTP                                                                    *)

\* The texts an authority may have: of the host ("name", "[v6]", or a bracket
\* that is not closed) and after it (nothing, ":" and a port, or something
\* else); the port is not a number (also "") or a number of any size.
NotDigits == -1
Authorities ==
    [host : {"name", "bracketed", "open"}, userinfo : BOOLEAN,
     after : {"nothing", "port", "other"}, port : {NotDigits, 0, 80, 443, MaxPort, MaxPort + 1}]

\* The `Proxy-Authorization' headers: how many, and of what kind the first is.
Authorizations == {"none", "twice", "other scheme", "not decoded", "other", "right"}

\* authorized: several headers are as bad as none.
Authorized(r) == r.credentials => r.authorization = "right"

\* Mutant: the port as hyper parses it, which has none for an invalid one.
PortOfAuthority(a) ==
    IF a.after = "port" /\ a.port \in 1..MaxPort THEN a.port ELSE Absent

\* parse_authority_port: no port, a port, or an error (-1). What it makes of a
\* user's name in front of the host is left out: such a request is refused.
AuthorityPort(a) ==
    IF a.host = "open" \/ (a.host = "bracketed" /\ a.after = "other") THEN -1
    ELSE IF a.after # "port" THEN Absent
    ELSE IF a.port \in 1..MaxPort THEN a.port ELSE -1

\* connect_target, whose outcome is the network's.
HttpConnected(port, reached, answer) ==
    CASE reached = "yes" -> [status |-> answer, target |-> port]
      [] reached = "refused" -> [status |-> 502, target |-> Absent]
      [] reached = "late" -> [status |-> 504, target |-> Absent]

Refused(status) == [status |-> status, target |-> Absent]

\* connect_tunnel
ConnectTunnel(r) ==
    LET port == AuthorityPort(r.authority) IN
    IF port \in {Absent, -1} \/ r.authority.userinfo \/ r.scheme # "none" \/ r.path THEN Refused(400)
    ELSE HttpConnected(port, r.reached, 200)

\* forward_request
ForwardRequest(r) ==
    LET port == AuthorityPort(r.authority) IN
    IF r.scheme # "http" \/ r.authority.userinfo \/ port = -1 THEN Refused(400)
    ELSE HttpConnected(IF port = Absent THEN 80 ELSE port, r.reached, 299)

HttpRequests ==
    [credentials : BOOLEAN, authorization : Authorizations, connect : BOOLEAN,
     authority : Authorities, scheme : {"none", "http", "https"}, path : BOOLEAN,
     reached : {"yes", "refused", "late"}]

\* handle_request
HandleRequest(r) ==
    IF ~Authorized(r) THEN Refused(407)
    ELSE IF r.connect THEN ConnectTunnel(r) ELSE ForwardRequest(r)

HopByHop ==
    {"connection", "proxy-connection", "proxy-authorization", "proxy-authenticate",
     "keep-alive", "te", "trailer", "transfer-encoding", "upgrade"}

\* strip_hop_headers, and what forward_request inserts again; `named' are the
\* headers that the values of `connection' name.
Stripped(headers, named) == headers \ (named \cup HopByHop)
SentUpstream(headers, named) == Stripped(headers, named) \cup {"host", "connection"}

-----------------------------------------------------------------------------
(* SOCKS5                                                                  *)

NoAuth == 0
UsernamePassword == 2
NoAcceptableMethod == 255
Connect == 1
Succeeded == 0
GeneralFailure == 1

\* map_connect_error, and the timeouts of connect_target
CodeOf(outcome) ==
    CASE outcome = "refused" -> 5 [] outcome = "network" -> 3
      [] outcome = "host" -> 4 [] outcome = "late" -> 6 [] outcome = "other" -> 1
Outcomes == {"yes", "refused", "network", "host", "late", "other"}

\* connect_target: the addresses of a domain are tried in turn; the code of the
\* last one tells what went wrong.
SocksConnected(addressType, outcomes) ==
    IF addressType = "unsupported" THEN 8
    ELSE IF outcomes = <<>> THEN CodeOf("host")
    ELSE IF \E i \in DOMAIN outcomes : outcomes[i] = "yes" THEN Succeeded
    ELSE CodeOf(Last(outcomes))

\* What a client may send: its version, the methods it offers, the version of
\* the authentication and whether it is right, the version of the request, the
\* command and the address; `outcomes' is what the addresses it has answer.
Greetings ==
    [credentials : BOOLEAN, version : {4, 5}, methods : SUBSET {NoAuth, UsernamePassword, 1},
     authVersion : {1, 5}, right : BOOLEAN, requestVersion : {4, 5}, command : {1, 2, 3},
     addressType : {"address", "domain", "empty", "unsupported"},
     outcomes : SeqOf({"yes", "refused", "late"}, 2)]

Answer(replies, target) == [replies |-> replies, target |-> target]

\* read_request and what follows it in negotiate.
SocksRequest(g, replies) ==
    LET code == SocksConnected(g.addressType, g.outcomes) IN
    IF g.requestVersion # 5 \/ g.addressType = "empty" THEN Answer(replies, FALSE)
    ELSE IF g.command # Connect THEN Answer(Append(replies, 7), FALSE)
    ELSE Answer(Append(replies, code), code = Succeeded)

SelectedMethod(g) ==
    IF g.credentials
    THEN IF UsernamePassword \in g.methods THEN UsernamePassword ELSE NoAcceptableMethod
    ELSE IF NoAuth \in g.methods THEN NoAuth ELSE NoAcceptableMethod

\* Mutant: the method the client prefers is taken.
NegotiateOffered(g) ==
    IF g.version # 5 THEN Answer(<<>>, FALSE)
    ELSE IF NoAuth \in g.methods THEN SocksRequest(g, <<NoAuth>>)
    ELSE Answer(<<NoAcceptableMethod>>, FALSE)

\* negotiate: the method, the authentication (0 when it succeeds), the request.
Negotiate(g) ==
    LET method == SelectedMethod(g) IN
    CASE g.version # 5 -> Answer(<<>>, FALSE)
      [] g.version = 5 /\ method = NoAcceptableMethod -> Answer(<<method>>, FALSE)
      [] g.version = 5 /\ method = NoAuth -> SocksRequest(g, <<method>>)
      [] g.version = 5 /\ method = UsernamePassword ->
            IF g.authVersion = 1 /\ g.right THEN SocksRequest(g, <<method, Succeeded>>)
            ELSE Answer(<<method, 1>>, FALSE)

\* reject_busy: whatever the credentials of the server, the method is one the
\* client offers, and the last thing it is told is a failure.
RejectBusy(g) ==
    CASE g.version # 5 -> <<>>
      [] g.version = 5 /\ NoAuth \in g.methods -> <<NoAuth, GeneralFailure>>
      [] g.version = 5 /\ NoAuth \notin g.methods /\ UsernamePassword \in g.methods ->
            IF g.authVersion = 1 THEN <<UsernamePassword, 1>> ELSE <<UsernamePassword>>
      [] OTHER -> <<NoAcceptableMethod>>

-----------------------------------------------------------------------------
(* Properties of one request                                               *)

\* A target of the HTTP proxy is connected only for an authorized request, on
\* the port that the authority says; only an authority without one means 80,
\* and a tunnel always says which.
HttpTargetIsAsked(r) ==
    LET answer == HandleRequest(r) IN
    answer.target # Absent =>
        /\ r.credentials => r.authorization = "right"
        /\ ~r.authority.userinfo
        /\ IF r.authority.after = "port" THEN answer.target = r.authority.port
           ELSE answer.target = 80 /\ ~r.connect

\* A target of the SOCKS5 proxy is connected only for a client that proved what
\* the server asks for, with a method the client offered, and it is told so last;
\* a busy server tells every client a failure, and none that it is connected.
SocksTargetIsAsked(g) ==
    LET answer == Negotiate(g) busy == RejectBusy(g) IN
    /\ answer.target =>
        /\ g.credentials => g.right /\ UsernamePassword \in g.methods
        /\ g.command = Connect /\ \E i \in DOMAIN g.outcomes : g.outcomes[i] = "yes"
        /\ Last(answer.replies) = Succeeded
    /\ \A replies \in {answer.replies, busy} :
        replies # <<>> => replies[1] \in g.methods \cup {NoAcceptableMethod}
    /\ Len(busy) > 1 => Last(busy) # Succeeded

=============================================================================
