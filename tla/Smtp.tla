-------------------------------- MODULE Smtp --------------------------------
(***************************************************************************)
(* FLSmtpClient sends one message at a time through Smtp, a state machine  *)
(* driven by the lines a mail server answers.  Lines travel in segments of *)
(* any size and readyRead takes what has arrived: at most one answer, and  *)
(* perhaps only a part of it.  The mail server and the name server are     *)
(* external and answer as their protocols say.                             *)
(***************************************************************************)
EXTENDS Naturals, Sequences, FiniteSetsExt

CONSTANTS
    Recipients,  \* how many recipients the message has
    MultiLine    \* commands (and "banner") whose answer may take two lines

VARIABLES
    settings,  \* connectionType_, authMethod_ and whether mailServer_ is given
    conn,      \* the socket
    ssl,       \* its SSL device
    state,     \* state_
    code,      \* responseCode_
    rcpt,      \* recipients sent
    starttls,  \* starttls_
    kicks,     \* calls of readyRead queued with singleShot(0)
    inbox,     \* lines in the buffer of the socket
    toClient,  \* lines on their way
    toServer,  \* commands on their way
    srv,       \* the mail server: the stage it is at and the recipients it took
    said       \* verdicts told by changeStatus

wire == <<inbox, toClient, toServer>>
vars == <<settings, conn, ssl, state, code, rcpt, starttls, kicks, wire, srv, said>>

Settings == [type : {"Tcp", "Ssl", "Tls"}, auth : {"NoAuth", "AuthPlain", "AuthLogin"},
             mailServer : BOOLEAN]
States == {"Init", "Mail", "Rcpt", "Data", "Body", "Quit", "Close", "StartTTLS",
           "WaitingForSTARTTLS", "SendAuthPlain", "SendAuthLogin", "WaitingForAuthPlain",
           "WaitingForAuthLogin", "WaitingForUser", "WaitingForPass"}
Commands == {"HELO", "STARTTLS", "AUTH_PLAIN", "AUTH_LOGIN", "user", "pass", "MAIL", "RCPT",
             "DATA", "body", "QUIT"}
Codes == {0, 220, 221, 235, 250, 334, 354, 450, 550}
Verdicts == {"SendOk", "SmtpError", "MxDnsError", "SocketError", "ServerError", "ClientError"}
Lines == [code : Codes, last : BOOLEAN]

TypeOK ==
    /\ settings \in Settings
    /\ conn \in {"none", "lookup", "connecting", "open", "lost", "failed", "closed"}
    /\ ssl \in {"none", "init", "uninit", "nolib", "on", "deaf", "broken"}
    /\ state \in States
    /\ code \in Codes
    /\ rcpt \in 0 .. Recipients
    /\ starttls \in BOOLEAN
    /\ kicks \in Nat
    /\ inbox \in Seq(Lines)
    /\ toClient \in Seq(Lines)
    /\ toServer \in Seq(Commands)
    /\ srv \in [stage : {"idle", "mail", "data", "taken"}, rcpts : 0 .. Recipients]
    /\ said \subseteq Verdicts

\* a client that has sent nothing yet
Unused ==
    [settings |-> [type |-> "Tcp", auth |-> "NoAuth", mailServer |-> TRUE],
     srv |-> [stage |-> "idle", rcpts |-> 0]]

Init ==
    /\ settings = Unused.settings
    /\ conn = "none"
    /\ ssl = "none"
    /\ state = "Init"
    /\ code = 0
    /\ rcpt = 0
    /\ starttls = FALSE
    /\ kicks = 0
    /\ inbox = <<>>
    /\ toClient = <<>>
    /\ toServer = <<>>
    /\ srv = Unused.srv
    /\ said = {}

\* nothing more will happen to the message
Ended == \/ conn \in {"failed", "closed"}
         \/ state = "Close"
         \/ "MxDnsError" \in said

\* The SSL device is taken for connected and has no session: the library is missing, or its
\* handshake failed.  Reading from it gives -1 and no error, of which the socket tells nobody.
NoSession == ssl \in {"deaf", "broken"}

\* the connection seems open and nothing is read from it any more
Unheard == conn = "lost" \/ (conn = "open" /\ NoSession)

-----------------------------------------------------------------------------
\* A new SSL device is initialised.  When that fails, for want of the library or of a context,
\* the failure is told and the device is used all the same.
initSSL(type) ==
    /\ ssl' \in (IF type = "Tcp" THEN {"none"} ELSE {"init", "uninit", "nolib"})
    /\ said' = IF ssl' \in {"uninit", "nolib"} THEN {"ClientError"} ELSE {}

\* What connectSSL returns.  It is true without the library, which skips the handshake, and
\* for every handshake SSL_connect answers with 1 or -1: one that is made, one that SSL_read
\* and SSL_write complete later, or one that has failed.
connectSSL(ok) ==
    IF ok THEN ssl' \in (CASE ssl = "init" -> {"on", "broken"}
                           [] ssl = "nolib" -> {"deaf"}
                           [] OTHER -> {})
    ELSE ssl \in {"init", "uninit"} /\ UNCHANGED ssl

\* Mutant: a device without a session writes to the plain socket.
writeBlockPlain(cmd) == toServer' = Append(toServer, cmd)

\* The device writes to the plain socket until it is taken for connected, and with SSL_write
\* from then on, which fails without a session.
writeBlock(cmd) == toServer' = IF NoSession THEN toServer ELSE Append(toServer, cmd)

\* FLSmtpClient::startSend with a mail server of its own, through connectToMailServer; or
\* the name server is asked for one
startSend(s) ==
    /\ conn = "none"
    /\ settings' = s
    /\ IF s.mailServer
         THEN conn' = "connecting" /\ initSSL(s.type) /\ starttls' = (s.type = "Tls")
         ELSE conn' = "lookup" /\ UNCHANGED <<ssl, said, starttls>>
    /\ UNCHANGED <<state, code, rcpt, kicks, wire, srv>>

\* The FLSmtpClient of a message that is over, or given up, is destroyed, and with it its Smtp;
\* another is made for the next message.
destroyed ==
    /\ conn # "none" /\ (Ended \/ Unheard)
    /\ settings' = Unused.settings
    /\ conn' = "none"
    /\ ssl' = "none"
    /\ state' = "Init"
    /\ code' = 0
    /\ rcpt' = 0
    /\ starttls' = FALSE
    /\ kicks' = 0
    /\ inbox' = <<>> /\ toClient' = <<>> /\ toServer' = <<>>
    /\ srv' = Unused.srv
    /\ said' = {}

dnsLookupHelper(found) ==
    /\ conn = "lookup" /\ ~Ended
    /\ IF found
         THEN /\ conn' = "connecting"
              /\ initSSL(settings.type)
              /\ starttls' = (settings.type = "Tls")
         ELSE /\ said' = said \cup {"MxDnsError"}
              /\ UNCHANGED <<conn, ssl, starttls>>
    /\ UNCHANGED <<settings, state, code, rcpt, kicks, wire, srv>>

\* an answer of the server: one line, or two
Answers(cmd, c) ==
    {<<[code |-> c, last |-> TRUE]>>} \cup
    (IF cmd \in MultiLine
       THEN {<<[code |-> c, last |-> FALSE], [code |-> c, last |-> TRUE]>>} ELSE {})

\* The connection is made, and SSL with it when connectSSL says so (otherwise: socketError),
\* and the server says its banner.
connected ==
    /\ conn = "connecting"
    /\ conn' = "open"
    /\ IF settings.type = "Ssl" THEN connectSSL(TRUE) ELSE UNCHANGED ssl
    /\ \E c \in {220, 450, 550} : \E a \in Answers("banner", c) : toClient' = a
    /\ UNCHANGED <<settings, state, code, rcpt, starttls, kicks, inbox, toServer, srv, said>>

\* The state is left as it was.  Once open, only the plain socket has errors.
socketError ==
    /\ conn = "connecting" \/ (conn = "open" /\ ssl # "on" /\ ~NoSession)
    /\ conn' = "failed"
    /\ said' = said \cup {"SocketError"}
    /\ UNCHANGED <<settings, ssl, state, code, rcpt, starttls, kicks, wire, srv>>

\* A secured connection is lost: SSL_read fails, which is no error of the socket.
sessionLost ==
    /\ conn = "open" /\ ssl = "on"
    /\ conn' = "lost"
    /\ UNCHANGED <<settings, ssl, state, code, rcpt, starttls, kicks, wire, srv, said>>

connectionClosed ==
    /\ conn = "open" /\ ssl # "deaf"
    /\ conn' = "closed"
    /\ state' = "Close"
    /\ UNCHANGED <<settings, ssl, code, rcpt, starttls, kicks, wire, srv, said>>

-----------------------------------------------------------------------------
\* the answer each state waits for
Expected ==
    [s \in States |->
        CASE s \in {"Init", "WaitingForSTARTTLS"} -> 220
          [] s \in {"WaitingForAuthPlain", "WaitingForPass"} -> 235
          [] s \in {"WaitingForAuthLogin", "WaitingForUser"} -> 334
          [] s = "Body" -> 354
          [] OTHER -> 250]

\* Mutant: a recipient the server refuses is passed over.
expectsOrRefused(c) == c = Expected[state] \/ (state \in {"Rcpt", "Data"} /\ c = 550)

expects(c) == c = Expected[state]

\* the state after the banner, and after the banner and STARTTLS
afterHelo == IF starttls THEN "StartTTLS"
             ELSE CASE settings.auth = "AuthPlain" -> "SendAuthPlain"
                    [] settings.auth = "AuthLogin" -> "SendAuthLogin"
                    [] settings.auth = "NoAuth" -> "Mail"

\* Mutant: the end of the recipients is noticed one too late.
nextRcptLate == IF rcpt = Recipients THEN "Data" ELSE "Rcpt"

\* the state after a recipient is sent
nextRcpt == IF rcpt + 1 = Recipients THEN "Data" ELSE "Rcpt"

\* what is sent, and the next state, in the states that only send
Sends ==
    [s \in {"Init", "SendAuthPlain", "SendAuthLogin", "WaitingForAuthLogin", "WaitingForUser",
            "StartTTLS", "Mail", "Rcpt", "Data", "Body", "Quit"} |->
        CASE s = "Init" -> <<"HELO", afterHelo>>
          [] s = "SendAuthPlain" -> <<"AUTH_PLAIN", "WaitingForAuthPlain">>
          [] s = "SendAuthLogin" -> <<"AUTH_LOGIN", "WaitingForAuthLogin">>
          [] s = "WaitingForAuthLogin" -> <<"user", "WaitingForUser">>
          [] s = "WaitingForUser" -> <<"pass", "WaitingForPass">>
          [] s = "StartTTLS" -> <<"STARTTLS", "WaitingForSTARTTLS">>
          [] s = "Mail" -> <<"MAIL", "Rcpt">>
          [] s = "Rcpt" -> <<"RCPT", nextRcpt>>
          [] s = "Data" -> <<"DATA", "Body">>
          [] s = "Body" -> <<"body", "Quit">>
          [] s = "Quit" -> <<"QUIT", "Close">>]

SendsCommand(heard) ==
    /\ state \in DOMAIN Sends
    /\ writeBlock(Sends[state][1])
    /\ state' = Sends[state][2]
    /\ rcpt' = IF state = "Rcpt" THEN rcpt + 1 ELSE rcpt
    /\ said' = said \cup heard \cup (IF state = "Quit" THEN {"SendOk"} ELSE {})
    /\ UNCHANGED <<ssl, starttls>>

\* Mutant: the next command waits for an answer that was read already.
AuthenticatedWaits(heard, more) ==
    /\ state \in {"WaitingForAuthPlain", "WaitingForPass"}
    /\ state' = "Mail"
    /\ code' = 250
    /\ kicks' = more
    /\ said' = said \cup heard
    /\ UNCHANGED <<ssl, rcpt, starttls, toServer>>

\* 235: readyRead is called again as if the server had said 250
Authenticated(heard, more) ==
    /\ state \in {"WaitingForAuthPlain", "WaitingForPass"}
    /\ state' = "Mail"
    /\ code' = 250
    /\ kicks' = more + 1
    /\ said' = said \cup heard
    /\ UNCHANGED <<ssl, rcpt, starttls, toServer>>

\* 220: the session begins again over TLS, with this answer for a banner
startTLS(c, heard, more) ==
    /\ state = "WaitingForSTARTTLS"
    /\ starttls' = FALSE
    /\ code' = c
    /\ \/ /\ connectSSL(TRUE)
          /\ state' = "Init"
          /\ kicks' = more + 1
          /\ said' = said \cup heard
       \/ /\ connectSSL(FALSE)
          /\ state' = "Close"
          /\ kicks' = more
          /\ said' = said \cup heard \cup {"ClientError"}
    /\ UNCHANGED <<rcpt, toServer>>

\* the rest of readyRead, once the code is known; `more` calls remain queued
Handle(c, heard, more) ==
    \/ /\ state # "Close" /\ expects(c)
       /\ \/ SendsCommand(heard) /\ code' = c /\ kicks' = more
          \/ Authenticated(heard, more)
          \/ startTLS(c, heard, more)
    \/ /\ state = "Close" \/ ~expects(c)
       /\ state' = "Close"
       /\ said' = said \cup heard \cup (IF state = "Close" THEN {} ELSE {"SmtpError"})
       /\ code' = c
       /\ kicks' = more
       /\ UNCHANGED <<ssl, rcpt, starttls, toServer>>

\* A segment of n lines arrives: lines are read up to the end of an answer, or while there
\* are any; the code is that of the last one.
readyRead(n) ==
    LET all  == inbox \o SubSeq(toClient, 1, n)
        ends == {i \in DOMAIN all : all[i].last}
        k    == IF ends = {} THEN Len(all) ELSE Min(ends)
        c    == all[k].code
    IN  /\ conn = "open" /\ ~NoSession
        /\ inbox' = SubSeq(all, k + 1, Len(all))
        /\ toClient' = SubSeq(toClient, n + 1, Len(toClient))
        /\ Handle(c, CASE c = 450 -> {"ServerError"} [] c = 550 -> {"ClientError"}
                       [] OTHER -> {}, kicks)
        /\ UNCHANGED <<settings, conn, srv>>

\* singleShot(0): the code is the one left by the call that queued it, or a later one
queuedReadyRead ==
    /\ kicks > 0
    /\ conn \in {"open", "lost", "closed", "failed"}
    /\ Handle(code, {}, kicks - 1)
    /\ UNCHANGED <<settings, conn, inbox, toClient, srv>>

-----------------------------------------------------------------------------
\* The mail server takes a command and answers.
Refusals == {450, 550}
Replies(cmd) ==
    CASE cmd = "HELO" -> {250} \cup Refusals
      [] cmd = "STARTTLS" -> {220} \cup Refusals
      [] cmd \in {"AUTH_PLAIN", "pass"} -> {235} \cup Refusals
      [] cmd \in {"AUTH_LOGIN", "user"} -> {334} \cup Refusals
      [] cmd = "MAIL" -> {250} \cup Refusals
      [] cmd = "RCPT" -> IF srv.stage = "mail" THEN {250} \cup Refusals ELSE {550}
      [] cmd = "DATA" -> IF srv.rcpts > 0 THEN {354} \cup Refusals ELSE {550}
      [] cmd = "body" -> IF srv.stage = "data" THEN {250} \cup Refusals ELSE {550}
      [] cmd = "QUIT" -> {221}

MailServer ==
    /\ conn = "open"
    /\ toServer # <<>>
    /\ toServer' = Tail(toServer)
    /\ LET cmd == Head(toServer)
       IN  \E c \in Replies(cmd) :
             /\ \E a \in Answers(cmd, c) : toClient' = toClient \o a
             /\ srv' = CASE cmd = "MAIL" /\ c = 250 -> [srv EXCEPT !.stage = "mail"]
                         [] cmd = "RCPT" /\ c = 250 -> [srv EXCEPT !.rcpts = @ + 1]
                         [] cmd = "DATA" /\ c = 354 -> [srv EXCEPT !.stage = "data"]
                         [] cmd = "body" /\ c = 250 -> [srv EXCEPT !.stage = "taken"]
                         [] OTHER -> srv
    /\ UNCHANGED <<settings, conn, ssl, state, code, rcpt, starttls, kicks, inbox, said>>

-----------------------------------------------------------------------------
Lookup == \E found \in BOOLEAN : dnsLookupHelper(found)
Receive == \E n \in 1 .. Len(toClient) : readyRead(n)

Next ==
    \/ \E s \in Settings : startSend(s)
    \/ destroyed
    \/ Lookup
    \/ connected
    \/ socketError
    \/ sessionLost
    \/ connectionClosed
    \/ Receive
    \/ queuedReadyRead
    \/ MailServer

Spec == Init /\ [][Next]_vars

\* The name server answers, a connection is made or fails, the mail server answers, and what
\* arrives is read.
Fairness ==
    /\ WF_vars(Lookup)
    /\ WF_vars(conn = "connecting" /\ (connected \/ socketError))
    /\ WF_vars(Receive)
    /\ WF_vars(queuedReadyRead)
    /\ WF_vars(MailServer)

FairSpec == Spec /\ Fairness

-----------------------------------------------------------------------------
(***************************************************************************)
(* SendOk is reported only for a message the server has taken for every    *)
(* recipient, however its answers are cut into segments: an answer read in *)
(* two parts puts the client a command ahead of the server.                *)
(***************************************************************************)
SentMeansTaken ==
    "SendOk" \in said => srv.stage = "taken" /\ srv.rcpts = Recipients

(***************************************************************************)
(* With SslConnection nothing is sent in clear.  With TlsConnection only   *)
(* HELO and STARTTLS are, and nothing once STARTTLS is answered, the HELO  *)
(* that readyRead repeats included: also when connectSSL says there is a   *)
(* session that there is not.                                              *)
(***************************************************************************)
NothingInClear ==
    settings.type # "Tcp" /\ ssl # "on"
      => \A i \in DOMAIN toServer : starttls /\ toServer[i] \in {"HELO", "STARTTLS"}

(***************************************************************************)
(* A sending ends, well or badly: client and server never wait for each    *)
(* other, although readyRead leaves lines in the buffer that no signal     *)
(* announces again.  The code does not end one whose SSL session was not   *)
(* made or is lost, since SSLSocket tells nobody of it (Unheard).          *)
(***************************************************************************)
SendingEnds == conn # "none" ~> (Ended \/ Unheard)

=============================================================================
