------------------------------ MODULE SmtpProofs ------------------------------
(***************************************************************************)
(* What FLSmtpClient promises, for any number of recipients, whichever     *)
(* answers of the server take two lines and however they are cut into      *)
(* segments: SendOk is told of a message the server has taken, and nothing *)
(* that must be secured is sent in clear.                                  *)
(***************************************************************************)
EXTENDS Smtp, SequenceLemmas, TLAPS

\* The message is for somebody: the list of recipients is read at its beginning unconditionally.
RecipientsAssumption == Recipients \in Nat \ {0}

\* the lines of the server that the client has not read
Unread == inbox \o toClient

\* an answer that refuses a command is still to be read
Refused == \E i \in DOMAIN Unread : Unread[i].code \in Refusals

\* commands sent after the recipients
Trail == CASE state = "Body" -> 1 [] state = "Quit" -> 2 [] OTHER -> 0

\* of the commands on their way, d of them sent after the recipients, how many are recipients
OnTheWay(d) ==
    IF Len(toServer) <= d THEN 0
    ELSE IF Len(toServer) - d <= rcpt THEN Len(toServer) - d ELSE rcpt

(***************************************************************************)
(* Client and server before they talk; where the client is in its list of  *)
(* recipients; the code of the answer readyRead saw last.                  *)
(***************************************************************************)
Silent ==
    conn \in {"none", "lookup", "connecting"} =>
        /\ state = "Init" /\ kicks = 0 /\ srv = Unused.srv
        /\ inbox = <<>> /\ toClient = <<>> /\ toServer = <<>>
        /\ ssl \notin {"on", "deaf", "broken"}
        /\ conn # "connecting" => ssl = "none" /\ ~starttls

Progress ==
    /\ state = "Rcpt" => rcpt < Recipients
    /\ state \in {"Data", "Body", "Quit"} => rcpt = Recipients
    /\ state \notin {"Rcpt", "Data", "Body", "Quit", "Close"} => rcpt = 0

LastCode ==
    /\ code = 354 => state \in {"Quit", "Close"}
    /\ state = "Quit" => code = 354

\* The first line of an answer in two lines is followed by the second.
WholeAnswers ==
    \A i \in DOMAIN Unread : ~Unread[i].last =>
        /\ i + 1 \in DOMAIN Unread
        /\ Unread[i + 1].last /\ Unread[i + 1].code = Unread[i].code

(***************************************************************************)
(* The recipients on their way lie between the d commands sent last and    *)
(* those sent before them, and with those the server took they are no more *)
(* than were sent.                                                         *)
(***************************************************************************)
RcptSpan(d) ==
    /\ \A i \in DOMAIN toServer :
          toServer[i] = "RCPT" <=> d <= Len(toServer) - i /\ Len(toServer) - i < d + rcpt
    /\ srv.rcpts + OnTheWay(d) <= rcpt

Spans == IF state = "Close" THEN \E d \in 0 .. 3 : RcptSpan(d) ELSE RcptSpan(Trail)

(***************************************************************************)
(* Every recipient that reached the server was taken, or the client has    *)
(* still to read that one was refused.                                     *)
(***************************************************************************)
Counted == state # "Close" => Refused \/ srv.rcpts + OnTheWay(Trail) = rcpt

(***************************************************************************)
(* DATA is the last command sent until the message is; 354 is answered to  *)
(* it, and nothing is answered after it before the message is sent.        *)
(***************************************************************************)
DataLast ==
    state \notin {"Quit", "Close"} =>
        \A i \in DOMAIN toServer : toServer[i] = "DATA" => state = "Body" /\ i = Len(toServer)

NoGoAhead ==
    state \notin {"Body", "Quit", "Close"} => \A i \in DOMAIN Unread : Unread[i].code # 354

AtBody ==
    state = "Body" =>
        \A i \in DOMAIN Unread : Unread[i].code = 354 =>
            /\ toServer = <<>> /\ srv.stage = "data"
            /\ \A j \in DOMAIN Unread : j > i => Unread[j].code = 354

\* The message is on its way, or the server has taken it or refused it.
AtQuit ==
    state = "Quit" =>
        /\ srv.rcpts = Recipients
        /\ \/ /\ Len(toServer) = 1 /\ toServer[1] = "body" /\ srv.stage = "data"
              /\ \A i \in DOMAIN Unread : Unread[i].code = 354
           \/ /\ toServer = <<>>
              /\ srv.stage = "taken" \/ \A i \in DOMAIN Unread : Unread[i].code # 250

\* After SendOk only QUIT is sent.
Told ==
    "SendOk" \in said =>
        /\ state = "Close"
        /\ srv.stage = "taken" /\ srv.rcpts = Recipients
        /\ \A i \in DOMAIN toServer : toServer[i] = "QUIT"

(***************************************************************************)
(* Until STARTTLS is answered the client waits for one answer at a time,   *)
(* and no call of readyRead is queued.                                     *)
(***************************************************************************)
Starting ==
    /\ starttls => settings.type = "Tls" /\ ssl # "on" /\ kicks = 0
    /\ state \in {"StartTTLS", "WaitingForSTARTTLS"} => starttls

AtStart ==
    starttls /\ state # "Close" =>
        /\ state \in {"Init", "StartTTLS", "WaitingForSTARTTLS"}
        /\ Len(toServer) <= 1
        /\ state = "Init" =>
              toServer = <<>> /\ \A i \in DOMAIN Unread : Unread[i].code # 250
        /\ state = "StartTTLS" =>
              \A i \in DOMAIN Unread : Unread[i].code = 250 =>
                  toServer = <<>> /\ \A j \in DOMAIN Unread : j > i => Unread[j].code = 250
        /\ state = "WaitingForSTARTTLS" =>
              \A i \in DOMAIN Unread : Unread[i].code = 220 => toServer = <<>>

(***************************************************************************)
(* Without a session nothing is on its way to the server, and nothing is   *)
(* done but by the call of readyRead that startTLS queued.                 *)
(***************************************************************************)
Deafened ==
    NoSession =>
        /\ toServer = <<>> /\ ~starttls
        /\ \/ state = "Init" /\ kicks <= 1
           \/ state \in {"SendAuthPlain", "SendAuthLogin", "Mail"} /\ kicks = 0
           \/ state = "Close"

(***************************************************************************)
(* A connection that is to be secured and is not: with SslConnection       *)
(* nothing was sent, with TlsConnection nothing but HELO and STARTTLS, and *)
(* nothing of them is left once STARTTLS is answered.                      *)
(***************************************************************************)
Unsecured ==
    settings.type # "Tcp" /\ ssl # "on" /\ ~NoSession =>
        \/ /\ settings.type = "Ssl" /\ conn \notin {"open", "lost", "closed"}
           /\ kicks = 0 /\ toServer = <<>>
        \/ /\ settings.type = "Tls"
           /\ state \in {"Init", "StartTTLS", "WaitingForSTARTTLS", "Close"}
           /\ state = "Close" \/ conn \in {"none", "lookup"} \/ starttls
           /\ \A i \in DOMAIN toServer : starttls /\ toServer[i] \in {"HELO", "STARTTLS"}

MailInv ==
    /\ TypeOK
    /\ Silent /\ Progress /\ LastCode /\ WholeAnswers
    /\ Spans /\ Counted
    /\ DataLast /\ NoGoAhead /\ AtBody /\ AtQuit /\ Told
    /\ Starting /\ AtStart /\ Deafened /\ Unsecured

-----------------------------------------------------------------------------
\* what the client sends before the recipients
Prelude == {"HELO", "STARTTLS", "AUTH_PLAIN", "AUTH_LOGIN", "user", "pass", "MAIL"}

\* The answer each state waits for.
LEMMA ExpectedCode ==
    ASSUME NEW s \in States
    PROVE  /\ Expected[s] \in {220, 235, 250, 334, 354}
           /\ Expected[s] = 354 <=> s = "Body"
           /\ s \in {"Init", "WaitingForSTARTTLS"} <=> Expected[s] = 220
           /\ s \in {"Rcpt", "Data", "Quit"} => Expected[s] = 250
  BY DEF Expected, States

\* What is sent before the recipients, and the state after it.
LEMMA EarlySends ==
    ASSUME TypeOK, state \in {"Init", "SendAuthPlain", "SendAuthLogin", "WaitingForAuthLogin",
                              "WaitingForUser", "StartTTLS", "Mail"}
    PROVE  /\ Sends[state][1] \in Prelude
           /\ Sends[state][2] \in {"Rcpt", "Mail", "StartTTLS", "SendAuthPlain", "SendAuthLogin",
                                   "WaitingForAuthPlain", "WaitingForAuthLogin",
                                   "WaitingForUser", "WaitingForPass", "WaitingForSTARTTLS"}
           /\ Sends[state][2] = "StartTTLS" <=> state = "Init" /\ starttls
           /\ Sends[state][2] = "WaitingForSTARTTLS" <=> state = "StartTTLS"
           /\ state = "Init" => Sends[state][1] = "HELO"
           /\ state = "StartTTLS" => Sends[state][1] = "STARTTLS"
           /\ state \in DOMAIN Sends
<1>1. settings.auth \in {"NoAuth", "AuthPlain", "AuthLogin"}
  BY DEF TypeOK, Settings
<1>2. /\ afterHelo \in {"StartTTLS", "SendAuthPlain", "SendAuthLogin", "Mail"}
      /\ afterHelo = "StartTTLS" <=> starttls
  BY <1>1 DEF afterHelo, TypeOK
<1> HIDE DEF afterHelo
<1> QED
  BY <1>2 DEF Sends, Prelude

\* What is sent from the recipients on, and the state after it.
LEMMA LateSends ==
    /\ {"Rcpt", "Data", "Body", "Quit"} \subseteq DOMAIN Sends
    /\ Sends["Rcpt"] = <<"RCPT", nextRcpt>>
    /\ Sends["Data"] = <<"DATA", "Body">>
    /\ Sends["Body"] = <<"body", "Quit">>
    /\ Sends["Quit"] = <<"QUIT", "Close">>
    /\ DOMAIN Sends = {"Init", "SendAuthPlain", "SendAuthLogin", "WaitingForAuthLogin",
                       "WaitingForUser", "StartTTLS", "Mail", "Rcpt", "Data", "Body", "Quit"}
<1> HIDE DEF nextRcpt, afterHelo
<1> QED
  BY DEF Sends

\* A command is added after those on their way.
LEMMA SentLast ==
    ASSUME NEW q \in Seq(Commands), NEW cmd \in Commands
    PROVE  /\ Append(q, cmd) \in Seq(Commands)
           /\ Len(Append(q, cmd)) = Len(q) + 1
           /\ DOMAIN Append(q, cmd) = 1 .. Len(q) + 1
           /\ DOMAIN q = 1 .. Len(q) /\ Len(q) \in Nat
           /\ Append(q, cmd)[Len(q) + 1] = cmd
           /\ \A i \in 1 .. Len(q) : Append(q, cmd)[i] = q[i]
  OBVIOUS

-----------------------------------------------------------------------------
(***************************************************************************)
(* readyRead, told as a step over the lines not read yet: the first k, of  *)
(* one answer, are read.  A call that was queued reads none.               *)
(***************************************************************************)
Reads(c, k) ==
    /\ k \in 0 .. 2 /\ Len(Unread') = Len(Unread) - k
    /\ \A i \in 1 .. Len(Unread') : Unread'[i] = Unread[i + k]
    /\ \A i \in 1 .. Len(Unread) : i <= k => Unread[i].code = c
    /\ k > 0 => conn = "open" /\ ~NoSession /\ Len(Unread) > 0
    /\ k = 0 => c = code /\ kicks > 0 /\ conn \in {"open", "lost", "closed", "failed"}
    /\ c \in Codes /\ inbox' \in Seq(Lines) /\ toClient' \in Seq(Lines)
    /\ UNCHANGED <<settings, conn, srv>>

\* what Handle is given besides the code
Heard == SUBSET {"ServerError", "ClientError"}

\* The lines not read yet are a sequence of lines.
LEMMA UnreadType ==
    ASSUME TypeOK
    PROVE  Unread \in Seq(Lines) /\ Len(Unread) \in Nat /\ DOMAIN Unread = 1 .. Len(Unread)
           /\ Len(Unread) = Len(inbox) + Len(toClient)
  BY DEF TypeOK, Unread

\* readyRead reads the lines of one answer, one or two.
LEMMA ReadyReadReads ==
    ASSUME TypeOK, WholeAnswers, NEW n \in 1 .. Len(toClient), readyRead(n)
    PROVE  \E c \in Codes, k \in 1 .. 2, heard \in Heard : Reads(c, k) /\ Handle(c, heard, kicks)
<1> DEFINE all  == inbox \o SubSeq(toClient, 1, n)
           ends == {i \in DOMAIN all : all[i].last}
           k    == IF ends = {} THEN Len(all) ELSE Min(ends)
           c    == all[k].code
           h    == CASE c = 450 -> {"ServerError"} [] c = 550 -> {"ClientError"} [] OTHER -> {}
<1>1. /\ inbox \in Seq(Lines) /\ toClient \in Seq(Lines)
      /\ Len(toClient) \in Nat /\ Len(inbox) \in Nat /\ n \in Nat /\ n >= 1 /\ n <= Len(toClient)
  BY DEF TypeOK
<1>2. SubSeq(toClient, 1, n) \in Seq(Lines) /\ Len(SubSeq(toClient, 1, n)) = n
      /\ \A i \in 1 .. n : SubSeq(toClient, 1, n)[i] = toClient[i]
  BY <1>1
<1>3. /\ all \in Seq(Lines) /\ Len(all) = Len(inbox) + n /\ DOMAIN all = 1 .. Len(all)
      /\ \A i \in 1 .. Len(all) : all[i] = Unread[i] /\ i \in DOMAIN Unread
  BY <1>1, <1>2 DEF Unread
<1>4. \A i \in 1 .. Len(all) : ~all[i].last /\ i + 1 <= Len(all)
                                 => all[i + 1].last /\ all[i + 1].code = all[i].code
  <2> SUFFICES ASSUME NEW i \in 1 .. Len(all), ~all[i].last, i + 1 <= Len(all)
               PROVE  all[i + 1].last /\ all[i + 1].code = all[i].code
    OBVIOUS
  <2> HIDE DEF all
  <2>1. i + 1 \in 1 .. Len(all)
    BY <1>1, <1>3
  <2>2. all[i] = Unread[i] /\ all[i + 1] = Unread[i + 1] /\ i \in DOMAIN Unread
    BY <1>3, <2>1
  <2> QED
    BY <2>2 DEF WholeAnswers
<1>5. UNCHANGED <<settings, conn, srv>> /\ conn = "open" /\ ~NoSession
      /\ inbox' = SubSeq(all, k + 1, Len(all))
      /\ toClient' = SubSeq(toClient, n + 1, Len(toClient))
      /\ Handle(c, h, kicks)
  BY DEF readyRead
<1>6. Len(all) \in Nat /\ Len(all) >= 1
  BY <1>1, <1>3
<1> HIDE DEF all
<1>7. /\ k \in 1 .. 2 /\ k <= Len(all)
      /\ \A i \in 1 .. Len(all) : i <= k => all[i].code = all[k].code
  <2>1. CASE ends = {}
    <3>1. Len(all) = 1
      <4>1. ~all[1].last
        BY <1>3, <1>6, <2>1
      <4>2. Len(all) >= 2 => 2 \in ends
        BY <1>3, <1>4, <1>6, <4>1
      <4>3. ~(Len(all) >= 2)
        BY <2>1, <4>2
      <4>4. \A x \in Nat : x >= 1 /\ ~(x >= 2) => x = 1
        OBVIOUS
      <4> QED
        BY <1>6, <4>3, <4>4
    <3>2. k = 1
      BY <2>1, <3>1
    <3> HIDE DEF k
    <3>3. \A i \in 1 .. 1 : i <= 1 => i = 1
      OBVIOUS
    <3> QED
      BY <3>1, <3>2, <3>3
  <2>2. CASE 1 \in ends
    <3>1. \A i \in ends : 1 <= i
      BY <1>3
    <3>2. Min(ends) = 1
      <4>1. Min(ends) \in ends /\ \A i \in ends : Min(ends) <= i
        BY <2>2, <3>1 DEF Min
      <4>2. Min(ends) <= 1 /\ 1 <= Min(ends) /\ Min(ends) \in Nat
        BY <1>3, <1>6, <2>2, <3>1, <4>1
      <4> QED
        BY ONLY <4>2
    <3>3. k = 1
      BY <2>2, <3>2
    <3> HIDE DEF k
    <3>4. \A i \in 1 .. Len(all) : i <= 1 => i = 1
      BY <1>6
    <3> QED
      BY <1>6, <3>3, <3>4
  <2>3. CASE ends # {} /\ 1 \notin ends
    <3>1. ~all[1].last
      BY <1>3, <1>6, <2>3
    <3>2. Len(all) >= 2
      BY <1>3, <1>6, <2>3
    <3>3. 2 \in ends /\ all[2].code = all[1].code
      BY <1>3, <1>4, <1>6, <3>1, <3>2
    <3>4. \A i \in ends : 2 <= i
      BY <1>3, <2>3
    <3>5. Min(ends) = 2
      <4>1. Min(ends) \in ends /\ \A i \in ends : Min(ends) <= i
        BY <3>3, <3>4 DEF Min
      <4>2. Min(ends) <= 2 /\ 2 <= Min(ends) /\ Min(ends) \in Nat
        BY <1>3, <1>6, <3>3, <3>4, <4>1
      <4> QED
        BY ONLY <4>2
    <3>6. k = 2
      BY <2>3, <3>5
    <3> HIDE DEF k
    <3>7. \A i \in 1 .. Len(all) : i <= 2 => i = 1 \/ i = 2
      BY <1>6
    <3> QED
      BY <1>6, <3>2, <3>3, <3>6, <3>7
  <2> QED
    BY <2>1, <2>2, <2>3
<1>8. c \in Codes
  <2>1. all[k] \in Lines
    BY <1>3, <1>7
  <2> QED
    BY <2>1 DEF Lines
<1> HIDE DEF k
<1>9. /\ inbox' \in Seq(Lines) /\ Len(inbox') = Len(all) - k
      /\ \A i \in 1 .. Len(all) - k : inbox'[i] = all[i + k]
  <2>1. /\ k + 1 \in 1 .. Len(all) + 1 /\ Len(all) \in (k + 1) - 1 .. Len(all)
    BY <1>6, <1>7
  <2>2. SubSeq(all, k + 1, Len(all)) \in Seq(Lines)
    BY <1>3, <2>1, SubSeqType
  <2>3. /\ Len(SubSeq(all, k + 1, Len(all))) = Len(all) - k
        /\ \A i \in 1 .. Len(all) - k : SubSeq(all, k + 1, Len(all))[i] = all[i + k]
    BY <1>3, <1>6, <1>7
  <2> QED
    BY <1>5, <2>2, <2>3
<1>10. /\ toClient' \in Seq(Lines) /\ Len(toClient') = Len(toClient) - n
       /\ \A i \in 1 .. Len(toClient) - n : toClient'[i] = toClient[i + n]
  <2>1. n + 1 \in 1 .. Len(toClient) + 1 /\ Len(toClient) \in (n + 1) - 1 .. Len(toClient)
    BY <1>1
  <2>2. SubSeq(toClient, n + 1, Len(toClient)) \in Seq(Lines)
    BY <1>1, <2>1, SubSeqType
  <2>3. /\ Len(SubSeq(toClient, n + 1, Len(toClient))) = Len(toClient) - n
        /\ \A i \in 1 .. Len(toClient) - n :
              SubSeq(toClient, n + 1, Len(toClient))[i] = toClient[i + n]
    BY <1>1
  <2> QED
    BY <1>5, <2>2, <2>3
<1>11. Len(Unread') = Len(Unread) - k /\ Len(Unread) > 0
  <2>0. inbox' \in Seq(Lines) /\ toClient' \in Seq(Lines)
    BY <1>9, <1>10
  <2>1. Len(Unread') = Len(inbox') + Len(toClient')
    BY <2>0 DEF Unread
  <2>2. Len(Unread) = Len(inbox) + Len(toClient)
    BY <1>1 DEF Unread
  <2>3. k \in Nat
    BY <1>7
  <2> QED
    BY <1>1, <1>3, <1>9, <1>10, <2>1, <2>2, <2>3
<1>12. \A i \in 1 .. Len(Unread') : Unread'[i] = Unread[i + k]
  <2> SUFFICES ASSUME NEW i \in 1 .. Len(Unread') PROVE Unread'[i] = Unread[i + k]
    OBVIOUS
  <2>1. Len(Unread') = Len(inbox') + Len(toClient')
    BY <1>9, <1>10 DEF Unread
  <2>2. CASE i <= Len(all) - k
    <3>1. Unread'[i] = inbox'[i]
      BY <1>6, <1>7, <1>9, <1>10, <2>1, <2>2 DEF Unread
    <3> QED
      BY <1>3, <1>6, <1>7, <1>9, <2>2, <3>1
  <2>3. CASE i > Len(all) - k
    <3> DEFINE j == i - (Len(all) - k)
    <3>1. j \in 1 .. Len(toClient) - n /\ i = Len(inbox') + j
      BY <1>1, <1>6, <1>7, <1>9, <1>10, <2>1, <2>3
    <3>2. Unread'[i] = toClient'[j]
      BY <1>9, <1>10, <2>1, <2>3, <3>1 DEF Unread
    <3>3. i + k = Len(inbox) + (j + n) /\ j + n \in 1 .. Len(toClient)
      BY <1>1, <1>3, <1>7, <3>1
    <3> HIDE DEF j
    <3>4. Unread[i + k] = toClient[j + n]
      BY <1>1, <3>1, <3>3 DEF Unread
    <3> QED
      BY <1>10, <3>1, <3>2, <3>4
  <2> QED
    BY <1>6, <1>7, <2>2, <2>3
<1>13. \A i \in 1 .. Len(Unread) : i <= k => Unread[i].code = c
  BY <1>3, <1>6, <1>7
<1>14. h \in Heard
  BY DEF Heard
<1> HIDE DEF c, h
<1>15. Reads(c, k)
  BY <1>5, <1>7, <1>8, <1>9, <1>10, <1>11, <1>12, <1>13 DEF Reads
<1> QED
  BY <1>5, <1>7, <1>8, <1>14, <1>15

\* A call that was queued handles the code again.
LEMMA QueuedReads ==
    ASSUME TypeOK, queuedReadyRead
    PROVE  Reads(code, 0) /\ Handle(code, {}, kicks - 1) /\ kicks - 1 \in Nat /\ {} \in Heard
<1>1. /\ inbox' = inbox /\ toClient' = toClient /\ kicks > 0 /\ UNCHANGED <<settings, conn, srv>>
      /\ conn \in {"open", "lost", "closed", "failed"} /\ Handle(code, {}, kicks - 1)
  BY DEF queuedReadyRead
<1>2. Unread' = Unread
  BY <1>1 DEF Unread
<1>3. /\ inbox \in Seq(Lines) /\ toClient \in Seq(Lines) /\ kicks \in Nat /\ code \in Codes
  BY DEF TypeOK
<1> QED
  BY <1>1, <1>2, <1>3, UnreadType DEF Reads, Heard

\* The lines left are lines there were; a refusal not read is still there.
LEMMA LinesLeft ==
    ASSUME TypeOK, WholeAnswers, NEW c, NEW k, Reads(c, k)
    PROVE  /\ WholeAnswers'
           /\ DOMAIN Unread' = 1 .. Len(Unread') /\ Len(Unread') \in Nat /\ k \in Nat
           /\ \A i \in DOMAIN Unread' : i + k \in DOMAIN Unread /\ Unread'[i] = Unread[i + k]
           /\ Refused => Refused' \/ c \in Refusals
           /\ k > 0 => 1 \in DOMAIN Unread /\ Unread[1].code = c
<1>1. Unread \in Seq(Lines) /\ Len(Unread) \in Nat /\ DOMAIN Unread = 1 .. Len(Unread)
  BY UnreadType
<1>2. /\ k \in 0 .. 2 /\ Len(Unread') = Len(Unread) - k
      /\ \A i \in 1 .. Len(Unread') : Unread'[i] = Unread[i + k]
      /\ \A i \in 1 .. Len(Unread) : i <= k => Unread[i].code = c
      /\ k > 0 => Len(Unread) > 0
      /\ inbox' \in Seq(Lines) /\ toClient' \in Seq(Lines)
  BY DEF Reads
<1>3. Unread' \in Seq(Lines)
  BY <1>2 DEF Unread
<1>4. DOMAIN Unread' = 1 .. Len(Unread') /\ Len(Unread') \in Nat
  BY <1>3
<1>5. \A i \in DOMAIN Unread' : i + k \in DOMAIN Unread /\ Unread'[i] = Unread[i + k]
  <2> SUFFICES ASSUME NEW i \in 1 .. Len(Unread')
               PROVE  i + k \in DOMAIN Unread /\ Unread'[i] = Unread[i + k]
    BY <1>4
  <2>1. i + k \in 1 .. Len(Unread)
    <3>1. k \in Nat /\ Len(Unread) \in Nat /\ Len(Unread') = Len(Unread) - k
      BY <1>1, <1>2
    <3> QED
      BY <3>1
  <2> QED
    BY <1>1, <1>2, <2>1
<1>6. WholeAnswers'
  <2> SUFFICES ASSUME NEW i \in DOMAIN Unread', ~Unread'[i].last
               PROVE  /\ i + 1 \in DOMAIN Unread'
                      /\ Unread'[i + 1].last /\ Unread'[i + 1].code = Unread'[i].code
    BY DEF WholeAnswers
  <2>1. i + k \in DOMAIN Unread /\ Unread'[i] = Unread[i + k]
    BY <1>5
  <2>2. /\ (i + k) + 1 \in DOMAIN Unread
        /\ Unread[(i + k) + 1].last /\ Unread[(i + k) + 1].code = Unread[i + k].code
    BY <2>1 DEF WholeAnswers
  <2>3. i + 1 \in 1 .. Len(Unread') /\ (i + 1) + k = (i + k) + 1
    BY <1>1, <1>2, <1>4, <2>2
  <2> QED
    BY <1>2, <1>4, <2>1, <2>2, <2>3
<1>7. Refused => Refused' \/ c \in Refusals
  <2> SUFFICES ASSUME NEW i \in DOMAIN Unread, Unread[i].code \in Refusals, c \notin Refusals
               PROVE  Refused'
    BY DEF Refused
  <2>1. i > k
    BY <1>1, <1>2
  <2>2. i - k \in 1 .. Len(Unread') /\ (i - k) + k = i
    BY <1>1, <1>2, <2>1
  <2>3. Unread'[i - k] = Unread[i]
    BY <1>2, <2>2
  <2> QED
    BY <1>4, <2>2, <2>3 DEF Refused
<1> QED
  BY <1>1, <1>2, <1>4, <1>5, <1>6, <1>7

\* What the client does with a code: it sends, goes on or closes.
LEMMA HandleKinds ==
    ASSUME TypeOK, NEW c \in Codes, NEW heard \in Heard, NEW more \in Nat,
           Handle(c, heard, more)
    PROVE  \/ /\ SendsCommand(heard) /\ code' = c /\ kicks' = more
              /\ state # "Close" /\ c = Expected[state]
           \/ Authenticated(heard, more) /\ c = 235
           \/ startTLS(c, heard, more) /\ c = 220
           \/ /\ state' = "Close" /\ code' = c /\ kicks' = more
              /\ state = "Close" \/ c # Expected[state]
              /\ \E h \in SUBSET Verdicts : "SendOk" \notin h /\ said' = said \cup h
              /\ UNCHANGED <<ssl, rcpt, starttls, toServer>>
<1>1. ASSUME startTLS(c, heard, more), c = Expected[state]
      PROVE  c = 220
  BY <1>1, ExpectedCode DEF startTLS, TypeOK
<1>2. ASSUME Authenticated(heard, more), c = Expected[state]
      PROVE  c = 235
  BY <1>2 DEF Authenticated, Expected, States
<1>3. ASSUME said' = said \cup heard \cup (IF state = "Close" THEN {} ELSE {"SmtpError"})
      PROVE  \E h \in SUBSET Verdicts : "SendOk" \notin h /\ said' = said \cup h
  <2> DEFINE h == heard \cup (IF state = "Close" THEN {} ELSE {"SmtpError"})
  <2>1. h \in SUBSET Verdicts /\ "SendOk" \notin h /\ said' = said \cup h
    BY <1>3 DEF Heard, Verdicts
  <2> QED
    BY <2>1
<1> QED
  BY <1>1, <1>2, <1>3 DEF Handle, expects

-----------------------------------------------------------------------------
\* The parts of the invariant about what was sent.
SentInv == Progress /\ LastCode /\ Spans /\ Counted /\ DataLast /\ NoGoAhead /\ AtBody /\ AtQuit /\ Told

\* The client closes: what is on its way stays, and no verdict is SendOk.
LEMMA CloseSent ==
    ASSUME MailInv, UNCHANGED <<srv, rcpt, toServer>>, state' = "Close",
           "SendOk" \in said' => "SendOk" \in said
    PROVE  SentInv'
<1>1. Spans'
  <2>1. \E d \in 0 .. 3 : RcptSpan(d)
    BY DEF MailInv, Spans, Trail
  <2>2. \A d \in 0 .. 3 : RcptSpan(d)' <=> RcptSpan(d)
    BY DEF RcptSpan, OnTheWay
  <2> QED
    BY <2>1, <2>2 DEF Spans
<1>2. Told'
  BY DEF MailInv, Told
<1> QED
  BY <1>1, <1>2
     DEF SentInv, Progress, LastCode, Counted, DataLast, NoGoAhead, AtBody, AtQuit

\* The client goes on with nothing sent: after the authentication, after STARTTLS, and where
\* the device cannot send.
LEMMA GoOnSent ==
    ASSUME MailInv, NEW c, NEW k, Reads(c, k), UNCHANGED <<rcpt, toServer>>,
           c \notin Refusals, code' # 354, state \notin {"Rcpt", "Data", "Body", "Quit", "Close"},
           state' \in {"Init", "SendAuthPlain", "SendAuthLogin", "Mail"}, "SendOk" \in said' => "SendOk" \in said
    PROVE  SentInv'
<1>1. srv' = srv /\ Trail = 0 /\ Trail' = 0
  BY DEF Reads, Trail
<1>2. TypeOK /\ WholeAnswers
  BY DEF MailInv
<1>3. Progress' /\ LastCode' /\ AtBody' /\ AtQuit' /\ DataLast' /\ Told'
  BY DEF MailInv, Progress, LastCode, AtBody, AtQuit, DataLast, Told
<1>4. NoGoAhead'
  BY <1>2, LinesLeft DEF MailInv, NoGoAhead
<1>5. Spans'
  BY <1>1 DEF MailInv, Spans, RcptSpan, OnTheWay
<1>6. Counted'
  BY <1>1, <1>2, LinesLeft DEF MailInv, Counted, OnTheWay
<1> QED
  BY <1>3, <1>4, <1>5, <1>6 DEF SentInv

\* Without a session readyRead is called only by itself, once, and what it writes is not sent.
LEMMA DeafSent ==
    ASSUME MailInv, NEW c, NEW k, Reads(c, k), NEW heard \in Heard,
           SendsCommand(heard), code' = c, c = Expected[state], NoSession
    PROVE  /\ SentInv' /\ state = "Init" /\ kicks = 1 /\ k = 0 /\ UNCHANGED toServer
           /\ state' \in {"SendAuthPlain", "SendAuthLogin", "Mail"}
<1>1. /\ k = 0 /\ kicks > 0 /\ kicks \in Nat /\ ~starttls /\ TypeOK
      /\ \/ state = "Init" /\ kicks <= 1
         \/ state \in {"SendAuthPlain", "SendAuthLogin", "Mail"} /\ kicks = 0
         \/ state = "Close"
  BY DEF MailInv, Deafened, Reads, TypeOK
<1>2. /\ state \in DOMAIN Sends /\ state' = Sends[state][2] /\ UNCHANGED toServer
      /\ rcpt' = IF state = "Rcpt" THEN rcpt + 1 ELSE rcpt
      /\ said' = said \cup heard \cup (IF state = "Quit" THEN {"SendOk"} ELSE {})
  BY DEF SendsCommand, writeBlock
<1>3. state = "Init" /\ kicks = 1
  <2>1. state # "Close"
    BY <1>2, LateSends
  <2> QED
    BY <1>1, <2>1
<1>4. state' \in {"SendAuthPlain", "SendAuthLogin", "Mail"}
  <2>1. Sends["Init"][2] = afterHelo
    BY DEF Sends
  <2>2. settings.auth \in {"NoAuth", "AuthPlain", "AuthLogin"}
    BY <1>1 DEF TypeOK, Settings
  <2> QED
    BY <1>1, <1>2, <1>3, <2>1, <2>2 DEF afterHelo
<1>5. "SendOk" \in said' => "SendOk" \in said
  BY <1>2, <1>3 DEF Heard
<1>6. c = 220
  BY <1>3 DEF Expected, States
<1>7. SentInv'
  BY <1>2, <1>3, <1>4, <1>5, <1>6, GoOnSent DEF Refusals
<1> QED
  BY <1>1, <1>2, <1>3, <1>4, <1>7

\* A command is sent before the recipients.
LEMMA PreludeSent ==
    ASSUME RecipientsAssumption, MailInv, NEW c, NEW k, Reads(c, k), NEW heard \in Heard,
           SendsCommand(heard), code' = c, c = Expected[state], ~NoSession,
           state \in {"Init", "SendAuthPlain", "SendAuthLogin", "WaitingForAuthLogin",
                      "WaitingForUser", "StartTTLS", "Mail"}
    PROVE  SentInv'
<1>0. TypeOK /\ WholeAnswers /\ c \notin Refusals /\ c # 354 /\ srv' = srv
  <2>1. TypeOK /\ WholeAnswers /\ srv' = srv
    BY DEF MailInv, Reads
  <2>2. state \in States /\ state # "Body"
    BY DEF States
  <2>3. Expected[state] \in {220, 235, 250, 334, 354} /\ Expected[state] # 354
    BY <2>2, ExpectedCode
  <2> QED
    BY <2>1, <2>3 DEF Refusals
<1>1. /\ toServer' = Append(toServer, Sends[state][1]) /\ Sends[state][1] \in Prelude
      /\ state' = Sends[state][2]
      /\ rcpt' = rcpt /\ rcpt = 0 /\ Trail = 0
      /\ "SendOk" \in said' => "SendOk" \in said
  BY <1>0, EarlySends DEF SendsCommand, writeBlock, MailInv, Progress, Heard, Trail
<1>2. /\ state' \notin {"Data", "Body", "Quit", "Close"} /\ Trail' = 0
  BY <1>0, <1>1, EarlySends DEF Trail
<1>3. PICK cmd \in Prelude : toServer' = Append(toServer, cmd)
  BY <1>1
<1>4. /\ Len(toServer') = Len(toServer) + 1 /\ DOMAIN toServer' = 1 .. Len(toServer) + 1
      /\ DOMAIN toServer = 1 .. Len(toServer) /\ Len(toServer) \in Nat
      /\ toServer'[Len(toServer) + 1] = cmd
      /\ \A i \in 1 .. Len(toServer) : toServer'[i] = toServer[i]
  <2>1. cmd \in Commands /\ toServer \in Seq(Commands)
    BY <1>0 DEF Prelude, Commands, TypeOK
  <2> QED
    BY <1>3, <2>1, SentLast
<1>5. \A i \in DOMAIN toServer' : i \in DOMAIN toServer \/ i = Len(toServer) + 1
  BY <1>4
<1>6. Progress' /\ LastCode' /\ AtBody' /\ AtQuit' /\ Told'
  BY <1>0, <1>1, <1>2
     DEF RecipientsAssumption, MailInv, Progress, LastCode, AtBody, AtQuit, Told
<1>7. DataLast'
  BY <1>3, <1>4, <1>5 DEF MailInv, DataLast, Prelude
<1>8. NoGoAhead'
  BY <1>0, LinesLeft DEF MailInv, NoGoAhead
<1>9. Spans'
  <2>1. \A i \in DOMAIN toServer : toServer[i] # "RCPT"
    BY <1>1, <1>4 DEF MailInv, Spans, RcptSpan
  <2>2. \A i \in DOMAIN toServer' : toServer'[i] # "RCPT"
    BY <1>3, <1>4, <1>5, <2>1 DEF Prelude
  <2>3. OnTheWay(0) = 0 /\ OnTheWay(0)' = 0
    BY <1>1, <1>4 DEF OnTheWay
  <2>4. srv.rcpts + OnTheWay(0) <= rcpt
    BY <1>1 DEF MailInv, Spans, RcptSpan
  <2>5. \A i \in DOMAIN toServer' : ~(0 <= Len(toServer') - i /\ Len(toServer') - i < 0 + rcpt')
    BY <1>1, <1>4
  <2> QED
    BY <1>0, <1>1, <1>2, <2>2, <2>3, <2>4, <2>5 DEF Spans, RcptSpan
<1>10. Counted'
  <2>1. OnTheWay(0) = 0 /\ OnTheWay(0)' = 0
    BY <1>1, <1>4 DEF OnTheWay
  <2> QED
    BY <1>0, <1>1, <1>2, <2>1, LinesLeft DEF MailInv, Counted
<1> QED
  BY <1>6, <1>7, <1>8, <1>9, <1>10 DEF SentInv

\* A recipient is sent.
LEMMA RcptSent ==
    ASSUME RecipientsAssumption, MailInv, NEW c, NEW k, Reads(c, k), NEW heard \in Heard,
           SendsCommand(heard), code' = c, c = Expected[state], ~NoSession, state = "Rcpt"
    PROVE  SentInv'
<1>0. TypeOK /\ WholeAnswers /\ c \notin Refusals /\ c # 354 /\ srv' = srv
  BY ExpectedCode DEF MailInv, TypeOK, Refusals, Reads
<1>1. /\ toServer' = Append(toServer, "RCPT") /\ state' = nextRcpt /\ rcpt' = rcpt + 1
      /\ "SendOk" \in said' => "SendOk" \in said
  BY LateSends DEF SendsCommand, writeBlock, Heard
<1>2. /\ rcpt \in Nat /\ rcpt < Recipients /\ Recipients \in Nat
      /\ rcpt + 1 = Recipients => state' = "Data"
      /\ rcpt + 1 # Recipients => state' = "Rcpt"
      /\ Trail = 0 /\ Trail' = 0
  BY <1>0, <1>1 DEF MailInv, Progress, TypeOK, RecipientsAssumption, nextRcpt, Trail
<1>3. /\ Len(toServer') = Len(toServer) + 1 /\ DOMAIN toServer' = 1 .. Len(toServer) + 1
      /\ DOMAIN toServer = 1 .. Len(toServer) /\ Len(toServer) \in Nat
      /\ toServer'[Len(toServer) + 1] = "RCPT"
      /\ \A i \in 1 .. Len(toServer) : toServer'[i] = toServer[i]
  <2>1. "RCPT" \in Commands /\ toServer \in Seq(Commands)
    BY <1>0 DEF Commands, TypeOK
  <2> QED
    BY <1>1, <2>1, SentLast
<1>4. \A i \in DOMAIN toServer' : i \in DOMAIN toServer \/ i = Len(toServer) + 1
  BY <1>3
<1>5. Progress' /\ LastCode' /\ AtBody' /\ AtQuit' /\ Told'
  BY <1>0, <1>1, <1>2 DEF MailInv, Progress, LastCode, AtBody, AtQuit, Told
<1>6. DataLast'
  BY <1>2, <1>3, <1>4 DEF MailInv, DataLast
<1>7. NoGoAhead'
  BY <1>0, <1>2, LinesLeft DEF MailInv, NoGoAhead
<1>8. srv.rcpts \in Nat /\ OnTheWay(0)' = OnTheWay(0) + 1 /\ OnTheWay(0) \in Nat
  BY <1>0, <1>1, <1>2, <1>3 DEF OnTheWay, TypeOK
<1>9. Spans'
  <2>1. /\ \A i \in DOMAIN toServer : toServer[i] = "RCPT" <=> Len(toServer) - i < rcpt
        /\ srv.rcpts + OnTheWay(0) <= rcpt
    BY <1>2, <1>3 DEF MailInv, Spans, RcptSpan
  <2>2. \A i \in DOMAIN toServer' :
           toServer'[i] = "RCPT" <=> 0 <= Len(toServer') - i /\ Len(toServer') - i < 0 + rcpt'
    <3> SUFFICES ASSUME NEW i \in DOMAIN toServer'
                 PROVE  toServer'[i] = "RCPT"
                          <=> 0 <= Len(toServer') - i /\ Len(toServer') - i < 0 + rcpt'
      OBVIOUS
    <3>1. CASE i \in DOMAIN toServer
      <4>1. /\ toServer'[i] = toServer[i]
            /\ Len(toServer') - i = Len(toServer) - i + 1 /\ 0 <= Len(toServer') - i
            /\ Len(toServer) - i \in Nat
        BY <1>3, <3>1
      <4> QED
        BY <1>1, <1>2, <2>1, <3>1, <4>1
    <3>2. CASE i = Len(toServer) + 1
      BY <1>1, <1>2, <1>3, <3>2
    <3> QED
      BY <1>4, <3>1, <3>2
  <2>3. srv'.rcpts + OnTheWay(0)' <= rcpt'
    BY <1>0, <1>1, <1>2, <1>8, <2>1
  <2> QED
    BY <1>2, <2>2, <2>3 DEF Spans, RcptSpan
<1>10. Counted'
  <2>1. Refused \/ srv.rcpts + OnTheWay(0) = rcpt
    BY <1>2 DEF MailInv, Counted
  <2>2. Refused' \/ srv'.rcpts + OnTheWay(0)' = rcpt'
    BY <1>0, <1>1, <1>2, <1>8, <2>1, LinesLeft
  <2> QED
    BY <1>2, <2>2 DEF Counted
<1> QED
  BY <1>5, <1>6, <1>7, <1>9, <1>10 DEF SentInv

\* DATA is sent after the recipients.
LEMMA DataSent ==
    ASSUME RecipientsAssumption, MailInv, NEW c, NEW k, Reads(c, k), NEW heard \in Heard,
           SendsCommand(heard), code' = c, c = Expected[state], ~NoSession, state = "Data"
    PROVE  SentInv'
<1>0. TypeOK /\ WholeAnswers /\ c \notin Refusals /\ c # 354 /\ srv' = srv
  BY ExpectedCode DEF MailInv, TypeOK, Refusals, Reads
<1>1. /\ toServer' = Append(toServer, "DATA") /\ state' = "Body" /\ rcpt' = rcpt
      /\ "SendOk" \in said' => "SendOk" \in said
  BY LateSends DEF SendsCommand, writeBlock, Heard
<1>2. Trail = 0 /\ Trail' = 1 /\ rcpt \in Nat
  BY <1>0, <1>1 DEF TypeOK, Trail
<1>3. /\ Len(toServer') = Len(toServer) + 1 /\ DOMAIN toServer' = 1 .. Len(toServer) + 1
      /\ DOMAIN toServer = 1 .. Len(toServer) /\ Len(toServer) \in Nat
      /\ toServer'[Len(toServer) + 1] = "DATA"
      /\ \A i \in 1 .. Len(toServer) : toServer'[i] = toServer[i]
  <2>1. "DATA" \in Commands /\ toServer \in Seq(Commands)
    BY <1>0 DEF Commands, TypeOK
  <2> QED
    BY <1>1, <2>1, SentLast
<1>4. \A i \in DOMAIN toServer' : i \in DOMAIN toServer \/ i = Len(toServer) + 1
  BY <1>3
<1>5. Progress' /\ LastCode' /\ AtQuit' /\ Told' /\ NoGoAhead'
  BY <1>0, <1>1, <1>2 DEF MailInv, Progress, LastCode, AtQuit, Told, NoGoAhead
<1>6. AtBody'
  <2>1. \A i \in DOMAIN Unread' : Unread'[i].code # 354
    BY <1>0, LinesLeft DEF MailInv, NoGoAhead
  <2> QED
    BY <2>1 DEF AtBody
<1>7. DataLast'
  BY <1>1, <1>3, <1>4 DEF MailInv, DataLast
<1>8. OnTheWay(1)' = OnTheWay(0)
  BY <1>1, <1>2, <1>3 DEF OnTheWay
<1>9. Spans'
  <2>1. /\ \A i \in DOMAIN toServer : toServer[i] = "RCPT" <=> Len(toServer) - i < rcpt
        /\ srv.rcpts + OnTheWay(0) <= rcpt
    BY <1>2, <1>3 DEF MailInv, Spans, RcptSpan
  <2>2. \A i \in DOMAIN toServer' :
           toServer'[i] = "RCPT" <=> 1 <= Len(toServer') - i /\ Len(toServer') - i < 1 + rcpt'
    <3> SUFFICES ASSUME NEW i \in DOMAIN toServer'
                 PROVE  toServer'[i] = "RCPT"
                          <=> 1 <= Len(toServer') - i /\ Len(toServer') - i < 1 + rcpt'
      OBVIOUS
    <3>1. CASE i \in DOMAIN toServer
      <4>1. /\ toServer'[i] = toServer[i]
            /\ Len(toServer') - i = Len(toServer) - i + 1 /\ 1 <= Len(toServer') - i
            /\ Len(toServer) - i \in Nat
        BY <1>3, <3>1
      <4> QED
        BY <1>1, <1>2, <2>1, <3>1, <4>1
    <3>2. CASE i = Len(toServer) + 1
      BY <1>1, <1>2, <1>3, <3>2
    <3> QED
      BY <1>4, <3>1, <3>2
  <2> QED
    BY <1>0, <1>1, <1>2, <1>8, <2>1, <2>2 DEF Spans, RcptSpan
<1>10. Counted'
  BY <1>0, <1>1, <1>2, <1>8, LinesLeft DEF MailInv, Counted
<1> QED
  BY <1>5, <1>6, <1>7, <1>9, <1>10 DEF SentInv

\* 354 is read: DATA was answered and nothing else is to be read, every recipient was taken.
LEMMA BodySent ==
    ASSUME RecipientsAssumption, MailInv, NEW c, NEW k, Reads(c, k), NEW heard \in Heard,
           SendsCommand(heard), code' = c, c = Expected[state], ~NoSession, state = "Body"
    PROVE  SentInv'
<1>0. TypeOK /\ WholeAnswers /\ c = 354 /\ srv' = srv
  BY ExpectedCode DEF MailInv, TypeOK, Reads
<1>1. /\ toServer' = Append(toServer, "body") /\ state' = "Quit" /\ rcpt' = rcpt
      /\ rcpt = Recipients
      /\ "SendOk" \in said' => "SendOk" \in said
  BY LateSends DEF SendsCommand, writeBlock, Heard, MailInv, Progress
<1>2. k > 0 /\ 1 \in DOMAIN Unread /\ Unread[1].code = 354
  <2>1. k # 0
    BY <1>0 DEF MailInv, LastCode, Reads
  <2> QED
    BY <1>0, <2>1, LinesLeft DEF Reads
<1>3. /\ toServer = <<>> /\ srv.stage = "data"
      /\ \A j \in DOMAIN Unread : Unread[j].code = 354
  <2>1. /\ toServer = <<>> /\ srv.stage = "data"
        /\ \A j \in DOMAIN Unread : j > 1 => Unread[j].code = 354
    BY <1>2 DEF MailInv, AtBody
  <2>2. \A j \in DOMAIN Unread : j > 1 \/ j = 1
    BY <1>0, UnreadType
  <2> QED
    BY <1>2, <2>1, <2>2
<1>4. srv.rcpts = Recipients
  <2>1. ~Refused
    BY <1>3 DEF Refused, Refusals
  <2>2. OnTheWay(1) = 0 /\ Trail = 1
    BY <1>3 DEF OnTheWay, Trail
  <2>3. srv.rcpts \in Nat
    BY <1>0 DEF TypeOK
  <2> QED
    BY <1>1, <2>1, <2>2, <2>3 DEF MailInv, Counted
<1>5. Len(toServer') = 1 /\ toServer'[1] = "body" /\ DOMAIN toServer' = {1}
  BY <1>1, <1>3
<1>6. \A i \in DOMAIN Unread' : Unread'[i].code = 354
  BY <1>0, <1>3, LinesLeft
<1>7. /\ Progress' /\ LastCode' /\ Told' /\ NoGoAhead' /\ AtBody' /\ DataLast'
  BY <1>0, <1>1 DEF MailInv, Progress, LastCode, Told, NoGoAhead, AtBody, DataLast
<1>8. AtQuit'
  BY <1>0, <1>3, <1>4, <1>5, <1>6 DEF AtQuit
<1>9. Trail' = 2 /\ OnTheWay(2)' = 0 /\ rcpt \in Nat
  BY <1>0, <1>1, <1>5 DEF Trail, OnTheWay, TypeOK
<1>10. Spans' /\ Counted'
  <2>1. srv'.rcpts + OnTheWay(2)' = rcpt'
    BY <1>0, <1>1, <1>4, <1>9
  <2>2. \A i \in DOMAIN toServer' :
           toServer'[i] = "RCPT" <=> 2 <= Len(toServer') - i /\ Len(toServer') - i < 2 + rcpt'
    BY <1>5
  <2> QED
    BY <1>0, <1>1, <1>4, <1>9, <2>1, <2>2 DEF Spans, RcptSpan, Counted
<1> QED
  BY <1>7, <1>8, <1>10 DEF SentInv

\* 250 is read after the message: the server has taken it, and SendOk is told.
LEMMA QuitSent ==
    ASSUME RecipientsAssumption, MailInv, NEW c, NEW k, Reads(c, k), NEW heard \in Heard,
           SendsCommand(heard), code' = c, c = Expected[state], ~NoSession, state = "Quit"
    PROVE  SentInv'
<1>0. TypeOK /\ WholeAnswers /\ c = 250 /\ srv' = srv
  BY ExpectedCode DEF MailInv, TypeOK, Reads
<1>1. /\ toServer' = Append(toServer, "QUIT") /\ state' = "Close" /\ rcpt' = rcpt
      /\ rcpt = Recipients
  BY LateSends DEF SendsCommand, writeBlock, MailInv, Progress
<1>2. k > 0 /\ 1 \in DOMAIN Unread /\ Unread[1].code = 250
  <2>1. k # 0
    BY <1>0 DEF MailInv, LastCode, Reads
  <2> QED
    BY <1>0, <2>1, LinesLeft DEF Reads
<1>3. toServer = <<>> /\ srv.stage = "taken" /\ srv.rcpts = Recipients
  BY <1>2 DEF MailInv, AtQuit
<1>4. Len(toServer') = 1 /\ toServer'[1] = "QUIT" /\ DOMAIN toServer' = {1}
  BY <1>1, <1>3
<1>5. Told'
  BY <1>0, <1>1, <1>3, <1>4 DEF Told
<1>6. Spans'
  <2>1. OnTheWay(1)' = 0 /\ rcpt \in Nat
    BY <1>0, <1>4 DEF OnTheWay, TypeOK
  <2>2. RcptSpan(1)'
    BY <1>0, <1>1, <1>3, <1>4, <2>1 DEF RcptSpan
  <2> QED
    BY <1>1, <2>2 DEF Spans
<1> QED
  BY <1>0, <1>1, <1>5, <1>6
     DEF SentInv, Progress, LastCode, Counted, DataLast, NoGoAhead, AtBody, AtQuit

-----------------------------------------------------------------------------
\* What is read before STARTTLS is answered: 220 is the answer to it, or the banner.
LEMMA StartRead ==
    ASSUME MailInv, NEW c, NEW k, Reads(c, k), starttls, state # "Close"
    PROVE  /\ k > 0 /\ state = "WaitingForSTARTTLS" /\ c = 220 => toServer = <<>>
           /\ state = "StartTTLS" /\ c = 250 =>
                 toServer = <<>> /\ \A i \in DOMAIN Unread' : Unread'[i].code = 250
           /\ state = "Init" =>
                 toServer = <<>> /\ \A i \in DOMAIN Unread' : Unread'[i].code # 250
<1>1. TypeOK /\ WholeAnswers /\ kicks = 0
  BY DEF MailInv, Starting
<1>2. k > 0 /\ k \in Nat
  BY <1>1, LinesLeft DEF Reads
<1>3. /\ 1 \in DOMAIN Unread /\ Unread[1].code = c /\ DOMAIN Unread' = 1 .. Len(Unread')
      /\ \A i \in DOMAIN Unread' : i + k \in DOMAIN Unread /\ Unread'[i] = Unread[i + k]
  BY <1>1, <1>2, LinesLeft
<1>4. ASSUME state = "StartTTLS", c = 250
      PROVE  toServer = <<>> /\ \A i \in DOMAIN Unread' : Unread'[i].code = 250
  <2>1. toServer = <<>> /\ \A j \in DOMAIN Unread : j > 1 => Unread[j].code = 250
    BY <1>3, <1>4 DEF MailInv, AtStart
  <2>2. \A i \in DOMAIN Unread' : i + k > 1
    BY <1>2, <1>3
  <2> QED
    BY <1>3, <2>1, <2>2
<1> QED
  BY <1>2, <1>3, <1>4 DEF MailInv, AtStart

(***************************************************************************)
(* Reading keeps the types, and sends in clear nothing but HELO and        *)
(* STARTTLS where the connection is to be secured.                         *)
(***************************************************************************)
LEMMA ReadTyped ==
    ASSUME RecipientsAssumption, MailInv, NEW c \in Codes, NEW k, Reads(c, k),
           NEW heard \in Heard, NEW more \in Nat, more = IF k = 0 THEN kicks - 1 ELSE kicks,
           Handle(c, heard, more)
    PROVE  TypeOK' /\ Starting' /\ AtStart' /\ Deafened' /\ Unsecured' /\ Silent'
<1>1. /\ TypeOK /\ inbox' \in Seq(Lines) /\ toClient' \in Seq(Lines)
      /\ UNCHANGED <<settings, conn, srv>>
      /\ conn \in {"open", "lost", "closed", "failed"}
      /\ conn = "open" \/ kicks > 0
      /\ kicks \in Nat /\ k \in 0 .. 2
      /\ k > 0 => ~NoSession
      /\ k = 0 => kicks > 0
  BY DEF MailInv, Reads, TypeOK
<1>2. Silent'
  BY <1>1 DEF Silent
<1>3. /\ starttls => settings.type = "Tls" /\ ssl # "on" /\ kicks = 0 /\ k > 0 /\ ~NoSession
      /\ state \in {"StartTTLS", "WaitingForSTARTTLS"} => starttls
      /\ starttls => state \in {"Init", "StartTTLS", "WaitingForSTARTTLS", "Close"}
  BY <1>1 DEF MailInv, Starting, AtStart, Deafened
<1>4. settings.type # "Tcp" /\ ssl # "on" /\ ~NoSession =>
        /\ settings.type = "Tls"
        /\ state \in {"Init", "StartTTLS", "WaitingForSTARTTLS", "Close"}
        /\ state = "Close" \/ starttls
        /\ \A i \in DOMAIN toServer : starttls /\ toServer[i] \in {"HELO", "STARTTLS"}
  BY <1>1 DEF MailInv, Unsecured, TypeOK
<1>5. heard \subseteq Verdicts /\ said \subseteq Verdicts /\ "SendOk" \in Verdicts
      /\ "ClientError" \in Verdicts
  BY <1>1 DEF Heard, Verdicts, TypeOK
<1>6. CASE /\ SendsCommand(heard) /\ code' = c /\ kicks' = more
           /\ state # "Close" /\ c = Expected[state]
  <2>1. /\ UNCHANGED <<ssl, starttls>> /\ state \in DOMAIN Sends
        /\ toServer' = IF NoSession THEN toServer ELSE Append(toServer, Sends[state][1])
        /\ state' = Sends[state][2]
        /\ rcpt' = IF state = "Rcpt" THEN rcpt + 1 ELSE rcpt
        /\ said' \subseteq Verdicts
    BY <1>5, <1>6 DEF SendsCommand, writeBlock
  <2>4. CASE NoSession
    <3>1. /\ state = "Init" /\ kicks = 1 /\ k = 0 /\ UNCHANGED toServer
          /\ state' \in {"SendAuthPlain", "SendAuthLogin", "Mail"}
      BY <1>6, <2>4, DeafSent
    <3>2. NoSession' /\ ~starttls' /\ kicks' = 0 /\ toServer = <<>>
      BY <1>3, <1>6, <2>1, <2>4, <3>1 DEF NoSession, MailInv, Deafened
    <3>3. TypeOK'
      BY <1>1, <1>6, <2>1, <3>1 DEF TypeOK, States
    <3>4. Starting' /\ AtStart' /\ Deafened' /\ Unsecured'
      BY <3>1, <3>2 DEF Starting, AtStart, Deafened, Unsecured
    <3> QED
      BY <1>2, <3>3, <3>4
  <2>2. CASE ~NoSession /\ state \in {"Init", "SendAuthPlain", "SendAuthLogin", "WaitingForAuthLogin",
                        "WaitingForUser", "StartTTLS", "Mail"}
    <3>1. /\ Sends[state][1] \in Prelude /\ state' \in States
          /\ state' = "StartTTLS" <=> state = "Init" /\ starttls
          /\ state' = "WaitingForSTARTTLS" <=> state = "StartTTLS"
          /\ state = "Init" => Sends[state][1] = "HELO"
          /\ state = "StartTTLS" => Sends[state][1] = "STARTTLS"
      BY <1>1, <2>1, <2>2, EarlySends DEF States
    <3>2. PICK cmd \in Prelude : /\ toServer' = Append(toServer, cmd)
                                 /\ state = "Init" => cmd = "HELO"
                                 /\ state = "StartTTLS" => cmd = "STARTTLS"
      BY <2>1, <2>2, <3>1
    <3>3. cmd \in Commands /\ toServer \in Seq(Commands)
      BY <1>1 DEF Prelude, Commands, TypeOK
    <3>4. /\ toServer' \in Seq(Commands)
          /\ \A i \in DOMAIN toServer' :
                \/ i \in DOMAIN toServer /\ toServer'[i] = toServer[i]
                \/ toServer'[i] = cmd
      BY <3>2, <3>3, SentLast
    <3>5. TypeOK'
      BY <1>1, <1>6, <2>1, <2>2, <3>1, <3>4 DEF TypeOK
    <3>6. Starting'
      BY <1>1, <1>3, <1>6, <2>1, <3>1 DEF Starting
    <3>8. AtStart' /\ Deafened'
      <4>1. ~NoSession'
        BY <2>1, <2>2 DEF NoSession
      <4>2. ASSUME starttls, state = "Init"
            PROVE  /\ state' = "StartTTLS" /\ Len(toServer') <= 1
                   /\ \A i \in DOMAIN Unread' : Unread'[i].code # 250
        <5>1. toServer = <<>> /\ \A i \in DOMAIN Unread' : Unread'[i].code # 250
          BY <1>6, <4>2, StartRead
        <5> QED
          BY <3>1, <3>2, <4>2, <5>1
      <4>3. ASSUME starttls, state = "StartTTLS"
            PROVE  /\ state' = "WaitingForSTARTTLS" /\ Len(toServer') <= 1
                   /\ \A i \in DOMAIN Unread' : Unread'[i].code # 220
        <5>1. c = 250
          BY <1>6, <4>3 DEF Expected, States
        <5>2. toServer = <<>> /\ \A i \in DOMAIN Unread' : Unread'[i].code = 250
          BY <1>6, <4>3, <5>1, StartRead
        <5> QED
          BY <3>1, <3>2, <4>3, <5>2
      <4>4. starttls /\ state # "Close" => state \in {"Init", "StartTTLS"}
        BY <1>3, <2>2
      <4> QED
        BY <1>6, <2>1, <4>1, <4>2, <4>3, <4>4 DEF AtStart, Deafened
    <3>7. Unsecured'
      <4> SUFFICES ASSUME settings.type # "Tcp", ssl # "on"
                   PROVE  Unsecured'
        BY <1>1, <2>1 DEF Unsecured, NoSession
      <4>1. /\ settings.type = "Tls" /\ starttls
            /\ state \in {"Init", "StartTTLS"}
            /\ \A i \in DOMAIN toServer : toServer[i] \in {"HELO", "STARTTLS"}
        BY <1>4, <2>2
      <4>2. \A i \in DOMAIN toServer' : toServer'[i] \in {"HELO", "STARTTLS"}
        BY <3>2, <3>4, <4>1
      <4> QED
        BY <1>1, <2>1, <3>1, <4>1, <4>2 DEF Unsecured
    <3> QED
      BY <1>2, <3>5, <3>6, <3>7, <3>8
  <2>3. CASE ~NoSession /\ state \in {"Rcpt", "Data", "Body", "Quit"}
    <3>1. Sends[state][1] \in Commands
      <4>1. \A s \in {"Rcpt", "Data", "Body", "Quit"} : Sends[s][1] \in Commands
        <5>1. /\ Sends["Rcpt"][1] = "RCPT" /\ Sends["Data"][1] = "DATA"
              /\ Sends["Body"][1] = "body" /\ Sends["Quit"][1] = "QUIT"
          BY LateSends
        <5> QED
          BY <5>1 DEF Commands
      <4> QED
        BY <2>3, <4>1
    <3>2. toServer' \in Seq(Commands)
      BY <1>1, <2>1, <2>3, <3>1, SentLast DEF TypeOK
    <3>3. state' \in {"Rcpt", "Data", "Body", "Quit", "Close"}
      BY <2>1, <2>3, LateSends DEF nextRcpt
    <3>4. rcpt' \in 0 .. Recipients
      BY <1>1, <2>1, <2>3 DEF TypeOK, MailInv, Progress, RecipientsAssumption
    <3>5. TypeOK'
      BY <1>1, <1>6, <2>1, <3>2, <3>3, <3>4 DEF TypeOK, States
    <3>6. Starting'
      BY <1>1, <1>3, <2>1, <2>3, <3>3 DEF Starting
    <3>7. AtStart' /\ Deafened'
      BY <1>3, <2>1, <2>3 DEF AtStart, Deafened, NoSession
    <3>8. Unsecured'
      BY <1>1, <1>4, <2>1, <2>3 DEF Unsecured, NoSession
    <3> QED
      BY <1>2, <3>5, <3>6, <3>7, <3>8
  <2> QED
    BY <2>1, <2>4, <2>2, <2>3, LateSends
<1>7. CASE Authenticated(heard, more)
  <2>1. /\ state \in {"WaitingForAuthPlain", "WaitingForPass"} /\ state' = "Mail"
        /\ code' = 250 /\ kicks' = more + 1 /\ said' = said \cup heard
        /\ UNCHANGED <<ssl, rcpt, starttls, toServer>>
    BY <1>7 DEF Authenticated
  <2>2. TypeOK'
    BY <1>1, <1>5, <2>1 DEF TypeOK, States, Codes
  <2>3. ~starttls /\ ~NoSession
    BY <1>1, <1>3, <2>1 DEF MailInv, Deafened
  <2>4. Starting' /\ AtStart' /\ Deafened' /\ Unsecured'
    BY <1>1, <1>4, <2>1, <2>3 DEF Starting, AtStart, Deafened, Unsecured, NoSession
  <2> QED
    BY <1>2, <2>2, <2>4
<1>8. CASE startTLS(c, heard, more) /\ c = 220
  <2>1. /\ state = "WaitingForSTARTTLS" /\ starttls /\ ~NoSession /\ k > 0 /\ more = 0
        /\ starttls' = FALSE /\ code' = c /\ said' \subseteq Verdicts
        /\ UNCHANGED <<rcpt, toServer>>
        /\ \/ ssl' \in {"on", "broken", "deaf"} /\ state' = "Init" /\ kicks' = 1
           \/ ssl' = ssl /\ state' = "Close" /\ kicks' = 0
    BY <1>1, <1>3, <1>5, <1>8 DEF startTLS, connectSSL
  <2>2. toServer = <<>>
    BY <1>8, <2>1, StartRead
  <2>3. TypeOK'
    <3>1. ssl' \in {"none", "init", "uninit", "nolib", "on", "deaf", "broken"}
      BY <1>1, <2>1 DEF TypeOK
    <3>2. kicks' \in Nat /\ state' \in States
      BY <2>1 DEF States
    <3> QED
      BY <1>1, <2>1, <3>1, <3>2 DEF TypeOK
  <2>4. settings.type = "Tls"
    BY <1>3, <2>1
  <2>5. Starting' /\ AtStart' /\ Deafened' /\ Unsecured'
    BY <1>1, <2>1, <2>2, <2>4 DEF Starting, AtStart, Deafened, Unsecured, NoSession
  <2> QED
    BY <1>2, <2>3, <2>5
<1>9. CASE /\ state' = "Close" /\ code' = c /\ kicks' = more
           /\ \E h \in SUBSET Verdicts : "SendOk" \notin h /\ said' = said \cup h
           /\ UNCHANGED <<ssl, rcpt, starttls, toServer>>
  <2>1. TypeOK'
    BY <1>1, <1>5, <1>9 DEF TypeOK, States
  <2>2. Starting' /\ AtStart'
    BY <1>1, <1>3, <1>9 DEF Starting, AtStart
  <2>3. Deafened' /\ Unsecured'
    BY <1>1, <1>3, <1>4, <1>9 DEF MailInv, Deafened, Unsecured, NoSession
  <2> QED
    BY <1>2, <2>1, <2>2, <2>3
<1> QED
  BY <1>1, <1>6, <1>7, <1>8, <1>9, HandleKinds

\* What is read, whatever is done of it, keeps the invariant.
LEMMA ReadStep ==
    ASSUME RecipientsAssumption, MailInv, NEW c \in Codes, NEW k, Reads(c, k),
           NEW heard \in Heard, NEW more \in Nat, more = IF k = 0 THEN kicks - 1 ELSE kicks,
           Handle(c, heard, more)
    PROVE  MailInv'
<1>1. TypeOK /\ WholeAnswers /\ UNCHANGED srv
  BY DEF MailInv, Reads
<1>2. SentInv'
  <2>1. CASE /\ SendsCommand(heard) /\ code' = c /\ c = Expected[state]
    <3>1. state \in DOMAIN Sends
      BY <2>1 DEF SendsCommand
    <3>2. \/ state \in {"Init", "SendAuthPlain", "SendAuthLogin", "WaitingForAuthLogin",
                        "WaitingForUser", "StartTTLS", "Mail"}
          \/ state \in {"Rcpt", "Data", "Body", "Quit"}
      BY <3>1, LateSends
    <3> QED
      BY <2>1, <3>2, DeafSent, PreludeSent, RcptSent, DataSent, BodySent, QuitSent
  <2>2. CASE Authenticated(heard, more) /\ c = 235
    <3>1. /\ state \in {"WaitingForAuthPlain", "WaitingForPass"} /\ state' = "Mail"
          /\ code' = 250 /\ UNCHANGED <<rcpt, toServer>> /\ c \notin Refusals
      BY <2>2 DEF Authenticated, Refusals
    <3>2. "SendOk" \in said' => "SendOk" \in said
      BY <2>2 DEF Authenticated, Heard
    <3> QED
      BY <3>1, <3>2, GoOnSent
  <2>3. CASE startTLS(c, heard, more) /\ c = 220
    <3>1. /\ state = "WaitingForSTARTTLS" /\ state' \in {"Init", "Close"}
          /\ code' = 220 /\ UNCHANGED <<rcpt, toServer>> /\ c \notin Refusals
      BY <2>3 DEF startTLS, connectSSL, Refusals
    <3>2. "SendOk" \in said' => "SendOk" \in said
      BY <2>3 DEF startTLS, connectSSL, Heard
    <3> QED
      BY <1>1, <3>1, <3>2, GoOnSent, CloseSent
  <2>4. CASE /\ state' = "Close"
             /\ \E h \in SUBSET Verdicts : "SendOk" \notin h /\ said' = said \cup h
             /\ UNCHANGED <<ssl, rcpt, starttls, toServer>>
    BY <1>1, <2>4, CloseSent
  <2> QED
    BY <1>1, <2>1, <2>2, <2>3, <2>4, HandleKinds
<1> QED
  BY <1>1, <1>2, ReadTyped, LinesLeft DEF MailInv, SentInv

-----------------------------------------------------------------------------
(***************************************************************************)
(* The mail server, told as a step: it takes the first command on its way  *)
(* and its answer, of code c, follows the lines not read yet.              *)
(***************************************************************************)
Serves(cmd, c) ==
    /\ conn = "open" /\ cmd \in Commands /\ c \in Replies(cmd) /\ c \in Codes
    /\ Len(toServer) >= 1 /\ toServer[1] = cmd
    /\ toServer' \in Seq(Commands) /\ Len(toServer') = Len(toServer) - 1
    /\ \A i \in DOMAIN toServer' : i + 1 \in DOMAIN toServer /\ toServer'[i] = toServer[i + 1]
    /\ toClient' \in Seq(Lines) /\ WholeAnswers'
    /\ \A i \in DOMAIN Unread : i \in DOMAIN Unread' /\ Unread'[i] = Unread[i]
    /\ \A i \in DOMAIN Unread' : i \in DOMAIN Unread \/ Unread'[i].code = c
    /\ \A i \in DOMAIN Unread', j \in DOMAIN Unread' :
          i \notin DOMAIN Unread /\ j > i => j \notin DOMAIN Unread
    /\ \E i \in DOMAIN Unread' : Unread'[i].code = c
    /\ srv' = CASE cmd = "MAIL" /\ c = 250 -> [srv EXCEPT !.stage = "mail"]
                [] cmd = "RCPT" /\ c = 250 -> [srv EXCEPT !.rcpts = @ + 1]
                [] cmd = "DATA" /\ c = 354 -> [srv EXCEPT !.stage = "data"]
                [] cmd = "body" /\ c = 250 -> [srv EXCEPT !.stage = "taken"]
                [] OTHER -> srv
    /\ UNCHANGED <<settings, conn, ssl, state, code, rcpt, starttls, kicks, inbox, said>>

\* What the server answers to each command.
LEMMA ReplyCodes ==
    ASSUME NEW cmd \in Commands, NEW c \in Replies(cmd)
    PROVE  /\ c \in Codes
           /\ c = 354 => cmd = "DATA"
           /\ cmd \in {"RCPT", "body"} => c = 250 \/ c \in Refusals
<1>1. CASE cmd = "HELO"
  BY <1>1 DEF Replies, Refusals, Codes
<1>2. CASE cmd = "STARTTLS"
  BY <1>2 DEF Replies, Refusals, Codes
<1>3. CASE cmd = "AUTH_PLAIN"
  BY <1>3 DEF Replies, Refusals, Codes
<1>4. CASE cmd = "AUTH_LOGIN"
  BY <1>4 DEF Replies, Refusals, Codes
<1>5. CASE cmd = "user"
  BY <1>5 DEF Replies, Refusals, Codes
<1>6. CASE cmd = "pass"
  BY <1>6 DEF Replies, Refusals, Codes
<1>7. CASE cmd = "MAIL"
  BY <1>7 DEF Replies, Refusals, Codes
<1>8. CASE cmd = "RCPT"
  BY <1>8 DEF Replies, Refusals, Codes
<1>9. CASE cmd = "DATA"
  BY <1>9 DEF Replies, Refusals, Codes
<1>10. CASE cmd = "body"
  BY <1>10 DEF Replies, Refusals, Codes
<1>11. CASE cmd = "QUIT"
  BY <1>11 DEF Replies, Refusals, Codes
<1> QED
  BY <1>1, <1>2, <1>3, <1>4, <1>5, <1>6, <1>7, <1>8, <1>9, <1>10, <1>11 DEF Commands

\* An answer is one or two whole lines of its code.
LEMMA AnswerLines ==
    ASSUME NEW cmd, NEW c \in Codes, NEW a \in Answers(cmd, c)
    PROVE  /\ a \in Seq(Lines) /\ Len(a) \in 1 .. 2
           /\ \A i \in 1 .. Len(a) : a[i].code = c /\ (a[i].last <=> i = Len(a))
<1>1. \/ a = <<[code |-> c, last |-> TRUE]>>
      \/ a = <<[code |-> c, last |-> FALSE], [code |-> c, last |-> TRUE]>>
  BY DEF Answers
<1>2. [code |-> c, last |-> TRUE] \in Lines /\ [code |-> c, last |-> FALSE] \in Lines
  BY DEF Lines
<1>3. CASE a = <<[code |-> c, last |-> TRUE]>>
  BY <1>2, <1>3
<1>4. CASE a = <<[code |-> c, last |-> FALSE], [code |-> c, last |-> TRUE]>>
  BY <1>2, <1>4
<1> QED
  BY <1>1, <1>3, <1>4

\* MailServer takes one command and answers it.
LEMMA MailServerServes ==
    ASSUME TypeOK, WholeAnswers, MailServer
    PROVE  \E cmd \in Commands, c \in Codes : Serves(cmd, c)
<1> DEFINE cmd == Head(toServer)
<1>1. /\ toServer \in Seq(Commands) /\ toServer # <<>> /\ toServer' = Tail(toServer)
      /\ inbox \in Seq(Lines) /\ toClient \in Seq(Lines) /\ conn = "open"
      /\ UNCHANGED <<settings, conn, ssl, state, code, rcpt, starttls, kicks, inbox, said>>
  BY DEF MailServer, TypeOK
<1>2. /\ cmd \in Commands /\ toServer[1] = cmd
      /\ Len(toServer) \in Nat /\ Len(toServer) >= 1
      /\ toServer' \in Seq(Commands) /\ Len(toServer') = Len(toServer) - 1
      /\ \A i \in DOMAIN toServer' : i + 1 \in DOMAIN toServer /\ toServer'[i] = toServer[i + 1]
  BY <1>1
<1>3. PICK c \in Replies(cmd) :
        /\ \E a \in Answers(cmd, c) : toClient' = toClient \o a
        /\ srv' = CASE cmd = "MAIL" /\ c = 250 -> [srv EXCEPT !.stage = "mail"]
                    [] cmd = "RCPT" /\ c = 250 -> [srv EXCEPT !.rcpts = @ + 1]
                    [] cmd = "DATA" /\ c = 354 -> [srv EXCEPT !.stage = "data"]
                    [] cmd = "body" /\ c = 250 -> [srv EXCEPT !.stage = "taken"]
                    [] OTHER -> srv
  BY DEF MailServer
<1> HIDE DEF cmd
<1>4. c \in Codes
  BY <1>2, <1>3, ReplyCodes
<1>5. PICK a \in Answers(cmd, c) : toClient' = toClient \o a
  BY <1>3
<1>6. /\ a \in Seq(Lines) /\ Len(a) \in 1 .. 2
      /\ \A i \in 1 .. Len(a) : a[i].code = c /\ (a[i].last <=> i = Len(a))
  BY <1>4, AnswerLines
<1>7. toClient' \in Seq(Lines) /\ Unread \in Seq(Lines) /\ Unread' \in Seq(Lines)
      /\ Unread' = Unread \o a
  <2>1. toClient' \in Seq(Lines)
    BY <1>1, <1>5, <1>6
  <2>2. Unread' = inbox \o (toClient \o a)
    BY <1>1, <1>5 DEF Unread
  <2>3. inbox \o (toClient \o a) = (inbox \o toClient) \o a
    BY <1>1, <1>6
  <2> QED
    BY <1>1, <1>6, <2>1, <2>2, <2>3 DEF Unread
<1> DEFINE u == Unread
<1>8. /\ Len(u) \in Nat /\ DOMAIN u = 1 .. Len(u) /\ DOMAIN Unread' = 1 .. Len(u) + Len(a)
      /\ \A i \in 1 .. Len(u) : Unread'[i] = u[i]
      /\ \A i \in 1 .. Len(u) + Len(a) : i > Len(u) =>
            Unread'[i] = a[i - Len(u)] /\ i - Len(u) \in 1 .. Len(a)
  <2> HIDE DEF u
  <2>1. u \in Seq(Lines) /\ Unread' = u \o a
    BY <1>7 DEF u
  <2> QED
    BY <1>6, <2>1
<1>9. WholeAnswers'
  <2> SUFFICES ASSUME NEW i \in DOMAIN Unread', ~Unread'[i].last
               PROVE  /\ i + 1 \in DOMAIN Unread'
                      /\ Unread'[i + 1].last /\ Unread'[i + 1].code = Unread'[i].code
    BY DEF WholeAnswers
  <2>1. CASE i \in 1 .. Len(u)
    <3>1. Unread'[i] = u[i] /\ ~u[i].last
      BY <1>8, <2>1
    <3>2. i + 1 \in DOMAIN u /\ u[i + 1].last /\ u[i + 1].code = u[i].code
      BY <1>8, <2>1, <3>1 DEF WholeAnswers
    <3>3. i + 1 \in 1 .. Len(u) + Len(a)
      BY <1>6, <1>8, <2>1, <3>2
    <3> QED
      BY <1>8, <3>1, <3>2, <3>3
  <2>2. CASE i \notin 1 .. Len(u)
    <3> DEFINE j == i - Len(u)
    <3>1. i \in 1 .. Len(u) + Len(a) /\ i > Len(u)
      BY <1>6, <1>8, <2>2
    <3>2. Unread'[i] = a[j] /\ j \in 1 .. Len(a)
      BY <1>8, <3>1
    <3>3. a[j].code = c /\ j # Len(a)
      BY <1>6, <3>2
    <3>4. j = 1 /\ Len(a) = 2
      BY <1>6, <3>2, <3>3
    <3>5. i + 1 \in 1 .. Len(u) + Len(a) /\ i + 1 > Len(u) /\ (i + 1) - Len(u) = 2
      BY <1>8, <3>1, <3>4
    <3>6. Unread'[i + 1] = a[2]
      BY <1>8, <3>5
    <3>7. a[2].last /\ a[2].code = c
      BY <1>6, <3>4
    <3> QED
      BY <1>8, <3>2, <3>3, <3>5, <3>6, <3>7
  <2> QED
    BY <2>1, <2>2
<1>10. \A i \in DOMAIN Unread' : i \in DOMAIN Unread \/ Unread'[i].code = c
  BY <1>6, <1>8
<1>11. \A i \in DOMAIN Unread', j \in DOMAIN Unread' :
          i \notin DOMAIN Unread /\ j > i => j \notin DOMAIN Unread
  BY <1>6, <1>8
<1>12. \E i \in DOMAIN Unread' : Unread'[i].code = c
  <2>1. Len(u) + 1 \in DOMAIN Unread' /\ Len(u) + 1 \notin DOMAIN Unread
    BY <1>6, <1>8
  <2> QED
    BY <1>10, <2>1
<1>13. \A i \in DOMAIN Unread : i \in DOMAIN Unread' /\ Unread'[i] = Unread[i]
  BY <1>6, <1>8
<1>14. Serves(cmd, c)
  BY <1>1, <1>2, <1>3, <1>4, <1>7, <1>9, <1>10, <1>11, <1>12, <1>13 DEF Serves
<1> QED
  BY <1>2, <1>4, <1>14

-----------------------------------------------------------------------------
\* What the server's side counts after a command is taken.
LEMMA ServedCounts ==
    ASSUME TypeOK, NEW cmd, NEW c, Serves(cmd, c)
    PROVE  /\ srv \in [stage : {"idle", "mail", "data", "taken"}, rcpts : Nat]
           /\ srv' \in [stage : {"idle", "mail", "data", "taken"}, rcpts : Nat]
           /\ srv'.rcpts = IF cmd = "RCPT" /\ c = 250 THEN srv.rcpts + 1 ELSE srv.rcpts
           /\ cmd = "DATA" /\ c = 354 => srv'.stage = "data"
           /\ cmd = "body" /\ c = 250 => srv'.stage = "taken"
           /\ cmd = "QUIT" => srv' = srv
<1>1. srv \in [stage : {"idle", "mail", "data", "taken"}, rcpts : Nat]
  BY DEF TypeOK
<1>2. srv' = CASE cmd = "MAIL" /\ c = 250 -> [srv EXCEPT !.stage = "mail"]
               [] cmd = "RCPT" /\ c = 250 -> [srv EXCEPT !.rcpts = @ + 1]
               [] cmd = "DATA" /\ c = 354 -> [srv EXCEPT !.stage = "data"]
               [] cmd = "body" /\ c = 250 -> [srv EXCEPT !.stage = "taken"]
               [] OTHER -> srv
  BY DEF Serves
<1> QED
  BY <1>1, <1>2

\* The commands move up by one: of the recipients on their way, the one taken is counted.
LEMMA ServedSpan ==
    ASSUME TypeOK, NEW cmd, NEW c, Serves(cmd, c), NEW d \in 0 .. 3, RcptSpan(d)
    PROVE  /\ RcptSpan(d)'
           /\ srv.rcpts + OnTheWay(d) = rcpt /\ c \notin Refusals
                => srv'.rcpts + OnTheWay(d)' = rcpt'
<1> DEFINE L == Len(toServer)
<1>1. /\ L \in Nat /\ L >= 1 /\ toServer[1] = cmd /\ DOMAIN toServer = 1 .. L
      /\ Len(toServer') = L - 1 /\ DOMAIN toServer' = 1 .. L - 1
      /\ rcpt' = rcpt /\ rcpt \in Nat /\ d \in Nat
      /\ \A i \in DOMAIN toServer' : i + 1 \in DOMAIN toServer /\ toServer'[i] = toServer[i + 1]
  BY DEF TypeOK, Serves
<1>2. /\ \A i \in DOMAIN toServer : toServer[i] = "RCPT" <=> d <= L - i /\ L - i < d + rcpt
      /\ srv.rcpts + OnTheWay(d) <= rcpt
  BY DEF RcptSpan
<1>3. srv.rcpts \in Nat /\ srv'.rcpts \in Nat
      /\ srv'.rcpts = IF cmd = "RCPT" /\ c = 250 THEN srv.rcpts + 1 ELSE srv.rcpts
  BY ServedCounts
<1>4. cmd = "RCPT" => c = 250 \/ c \in Refusals
  BY ReplyCodes DEF Serves
<1>5. OnTheWay(d) = IF L <= d THEN 0 ELSE IF L - d <= rcpt THEN L - d ELSE rcpt
  BY DEF OnTheWay
<1>6. OnTheWay(d)' = IF L - 1 <= d THEN 0 ELSE IF (L - 1) - d <= rcpt THEN (L - 1) - d ELSE rcpt
  BY <1>1 DEF OnTheWay
<1>7. \A i \in DOMAIN toServer' :
         toServer'[i] = "RCPT" <=> d <= Len(toServer') - i /\ Len(toServer') - i < d + rcpt'
  <2> SUFFICES ASSUME NEW i \in DOMAIN toServer'
               PROVE  toServer'[i] = "RCPT"
                        <=> d <= Len(toServer') - i /\ Len(toServer') - i < d + rcpt'
    OBVIOUS
  <2>1. i \in Nat /\ i + 1 \in DOMAIN toServer /\ toServer'[i] = toServer[i + 1]
    BY <1>1
  <2>2. Len(toServer') - i = L - (i + 1)
    BY <1>1, <2>1
  <2> QED
    BY <1>1, <1>2, <2>1, <2>2
<1>8. cmd = "RCPT" <=> d <= L - 1 /\ L - 1 < d + rcpt
  BY <1>1, <1>2
<1>9. OnTheWay(d) \in Nat /\ OnTheWay(d)' \in Nat
      /\ OnTheWay(d)' = IF cmd = "RCPT" THEN OnTheWay(d) - 1 ELSE OnTheWay(d)
  <2> HIDE DEF L
  <2> QED
    BY <1>1, <1>5, <1>6, <1>8
<1>10. /\ srv'.rcpts + OnTheWay(d)' <= rcpt
       /\ srv.rcpts + OnTheWay(d) = rcpt /\ c \notin Refusals => srv'.rcpts + OnTheWay(d)' = rcpt
  BY <1>1, <1>2, <1>3, <1>4, <1>9
<1> QED
  BY <1>1, <1>7, <1>10 DEF RcptSpan

\* A command taken and answered keeps the invariant.
LEMMA ServeStep ==
    ASSUME RecipientsAssumption, MailInv, NEW cmd, NEW c, Serves(cmd, c)
    PROVE  MailInv'
<1>1. /\ TypeOK /\ conn = "open" /\ cmd \in Commands /\ c \in Codes /\ c \in Replies(cmd)
      /\ toServer # <<>> /\ Len(toServer) \in Nat /\ Len(toServer) >= 1
      /\ DOMAIN toServer = 1 .. Len(toServer) /\ toServer[1] = cmd
      /\ toServer' \in Seq(Commands) /\ Len(toServer') = Len(toServer) - 1
      /\ DOMAIN toServer' = 1 .. Len(toServer) - 1
      /\ \A i \in DOMAIN toServer' : i + 1 \in DOMAIN toServer /\ toServer'[i] = toServer[i + 1]
      /\ toClient' \in Seq(Lines)
      /\ UNCHANGED <<settings, conn, ssl, state, code, rcpt, starttls, kicks, inbox, said>>
  BY DEF MailInv, TypeOK, Serves
<1>2. /\ WholeAnswers'
      /\ \A i \in DOMAIN Unread : i \in DOMAIN Unread' /\ Unread'[i] = Unread[i]
      /\ \A i \in DOMAIN Unread' : i \in DOMAIN Unread \/ Unread'[i].code = c
      /\ \A i \in DOMAIN Unread', j \in DOMAIN Unread' :
            i \notin DOMAIN Unread /\ j > i => j \notin DOMAIN Unread
      /\ \E i \in DOMAIN Unread' : Unread'[i].code = c
  BY DEF Serves
<1>3. /\ c = 354 => cmd = "DATA"
      /\ cmd \in {"RCPT", "body"} => c = 250 \/ c \in Refusals
  BY <1>1, ReplyCodes
<1>4. Trail \in 0 .. 3 /\ Trail' = Trail
  BY <1>1 DEF Trail
<1>5. Spans'
  <2>1. CASE state = "Close"
    BY <1>1, <2>1, ServedSpan DEF MailInv, Spans
  <2>2. CASE state # "Close"
    BY <1>1, <1>4, <2>2, ServedSpan DEF MailInv, Spans
  <2> QED
    BY <2>1, <2>2
<1>6. Counted'
  <2> SUFFICES ASSUME state # "Close", ~Refused' PROVE srv'.rcpts + OnTheWay(Trail)' = rcpt'
    BY <1>1, <1>4 DEF Counted
  <2>1. ~Refused /\ c \notin Refusals
    BY <1>2 DEF Refused
  <2>2. srv.rcpts + OnTheWay(Trail) = rcpt /\ RcptSpan(Trail)
    BY <2>1 DEF MailInv, Counted, Spans
  <2> QED
    BY <1>1, <1>4, <2>1, <2>2, ServedSpan
<1>7. TypeOK'
  <2>1. srv' \in [stage : {"idle", "mail", "data", "taken"}, rcpts : Nat]
    BY <1>1, ServedCounts
  <2>2. PICK d \in 0 .. 3 : RcptSpan(d)
    BY <1>4 DEF MailInv, Spans
  <2>3. srv'.rcpts + OnTheWay(d)' <= rcpt'
    BY <1>1, <2>2, ServedSpan DEF RcptSpan
  <2>4. rcpt' \in Nat /\ rcpt' <= Recipients /\ Recipients \in Nat
    BY <1>1 DEF TypeOK, RecipientsAssumption
  <2>5. OnTheWay(d)' \in Nat
    BY <1>1, <2>4 DEF OnTheWay
  <2>6. srv'.rcpts \in 0 .. Recipients
    BY <2>1, <2>3, <2>4, <2>5
  <2>7. srv' \in [stage : {"idle", "mail", "data", "taken"}, rcpts : 0 .. Recipients]
    BY <2>1, <2>6
  <2> QED
    BY <1>1, <2>7 DEF TypeOK
<1>8. Silent' /\ Progress' /\ LastCode' /\ Starting'
  BY <1>1 DEF MailInv, Silent, Progress, LastCode, Starting
<1>9. DataLast'
  BY <1>1 DEF MailInv, DataLast
<1>10. c = 354 /\ state \notin {"Quit", "Close"} => state = "Body" /\ Len(toServer) = 1
  BY <1>1, <1>3 DEF MailInv, DataLast
<1>11. NoGoAhead'
  BY <1>1, <1>2, <1>10 DEF MailInv, NoGoAhead
<1>12. AtBody'
  <2> SUFFICES ASSUME state = "Body", NEW i \in DOMAIN Unread', Unread'[i].code = 354
               PROVE  /\ toServer' = <<>> /\ srv'.stage = "data"
                      /\ \A j \in DOMAIN Unread' : j > i => Unread'[j].code = 354
    BY <1>1 DEF AtBody
  <2>1. i \notin DOMAIN Unread
    BY <1>1, <1>2 DEF MailInv, AtBody
  <2>2. c = 354 /\ cmd = "DATA"
    BY <1>2, <1>3, <2>1
  <2>3. Len(toServer) = 1
    BY <1>10, <2>2
  <2>4. toServer' = <<>>
    BY <1>1, <2>3
  <2>5. srv'.stage = "data"
    BY <1>1, <2>2, ServedCounts
  <2> QED
    BY <1>2, <2>1, <2>2, <2>4, <2>5
<1>13. AtQuit'
  <2> SUFFICES ASSUME state = "Quit"
               PROVE  /\ srv'.rcpts = Recipients /\ toServer' = <<>>
                      /\ srv'.stage = "taken" \/ \A i \in DOMAIN Unread' : Unread'[i].code # 250
    BY <1>1 DEF AtQuit
  <2>1. /\ srv.rcpts = Recipients /\ Len(toServer) = 1 /\ cmd = "body"
        /\ \A i \in DOMAIN Unread : Unread[i].code = 354
    BY <1>1 DEF MailInv, AtQuit
  <2>2. srv'.rcpts = Recipients /\ (c = 250 => srv'.stage = "taken")
    BY <1>1, <2>1, ServedCounts
  <2>3. c = 250 \/ c \in Refusals
    BY <1>3, <2>1
  <2>4. c # 250 => \A i \in DOMAIN Unread' : Unread'[i].code # 250
    BY <1>2, <2>1
  <2>5. toServer' = <<>>
    BY <1>1, <2>1
  <2> QED
    BY <2>2, <2>4, <2>5
<1>14. Told'
  <2> SUFFICES ASSUME "SendOk" \in said PROVE Told'
    BY <1>1 DEF Told
  <2>1. /\ state = "Close" /\ srv.stage = "taken" /\ srv.rcpts = Recipients
        /\ \A i \in DOMAIN toServer : toServer[i] = "QUIT"
    BY DEF MailInv, Told
  <2>2. srv' = srv
    BY <1>1, <2>1, ServedCounts
  <2> QED
    BY <1>1, <2>1, <2>2 DEF Told
<1>15. ~NoSession /\ ~NoSession'
  BY <1>1 DEF MailInv, Deafened, NoSession
<1>16. Unsecured' /\ Deafened'
  BY <1>1, <1>15 DEF MailInv, Unsecured, Deafened
<1>17. AtStart'
  <2> SUFFICES ASSUME starttls, state # "Close" PROVE AtStart'
    BY <1>1 DEF AtStart
  <2>1. /\ state \in {"Init", "StartTTLS", "WaitingForSTARTTLS"} /\ state # "Init"
        /\ Len(toServer) = 1 /\ toServer' = <<>> /\ Len(toServer') = 0
    BY <1>1 DEF MailInv, AtStart
  <2>2. ASSUME state = "StartTTLS", NEW i \in DOMAIN Unread', Unread'[i].code = 250,
               NEW j \in DOMAIN Unread', j > i
        PROVE  Unread'[j].code = 250
    <3>1. i \notin DOMAIN Unread
      BY <1>1, <1>2, <2>1, <2>2 DEF MailInv, AtStart
    <3> QED
      BY <1>2, <2>2, <3>1
  <2> QED
    BY <1>1, <2>1, <2>2 DEF AtStart
<1> QED
  BY <1>2, <1>5, <1>6, <1>7, <1>8, <1>9, <1>11, <1>12, <1>13, <1>14, <1>16, <1>17 DEF MailInv

-----------------------------------------------------------------------------
\* A client that has sent nothing.
LEMMA UnusedMail == RecipientsAssumption => (Init => MailInv)
<1> SUFFICES ASSUME RecipientsAssumption, Init PROVE MailInv
  OBVIOUS
<1>0. settings = [type |-> "Tcp", auth |-> "NoAuth", mailServer |-> TRUE]
      /\ srv = [stage |-> "idle", rcpts |-> 0]
  BY DEF Init, Unused
<1>1. /\ conn = "none" /\ ssl = "none" /\ state = "Init" /\ code = 0 /\ rcpt = 0
      /\ starttls = FALSE /\ kicks = 0 /\ said = {} /\ srv = Unused.srv
      /\ inbox = <<>> /\ toClient = <<>> /\ toServer = <<>>
  BY DEF Init
<1>2. inbox \in Seq(Lines) /\ toClient \in Seq(Lines) /\ toServer \in Seq(Commands)
      /\ Len(toServer) = 0 /\ DOMAIN toServer = {} /\ DOMAIN Unread = {}
  BY <1>1 DEF Unread
<1>3. TypeOK
  <2>1. settings \in Settings
    BY <1>0 DEF Settings
  <2>2. 0 \in 0 .. Recipients
    BY DEF RecipientsAssumption
  <2>3. srv \in [stage : {"idle", "mail", "data", "taken"}, rcpts : 0 .. Recipients]
    BY <1>0, <2>2
  <2> QED
    BY <1>1, <1>2, <2>1, <2>2, <2>3 DEF TypeOK, States, Codes
<1>4. Silent /\ Progress /\ LastCode /\ WholeAnswers
  BY <1>1, <1>2 DEF Silent, Progress, LastCode, WholeAnswers
<1>5. OnTheWay(0) = 0 /\ Trail = 0
  BY <1>1, <1>2 DEF OnTheWay, Trail
<1>6. Spans /\ Counted
  BY <1>0, <1>1, <1>2, <1>5 DEF Spans, RcptSpan, Counted
<1>7. DataLast /\ NoGoAhead /\ AtBody /\ AtQuit /\ Told
  BY <1>1, <1>2 DEF DataLast, NoGoAhead, AtBody, AtQuit, Told
<1>8. Starting /\ AtStart /\ Deafened /\ Unsecured
  BY <1>0, <1>1 DEF Starting, AtStart, Deafened, Unsecured, NoSession
<1> QED
  BY <1>3, <1>4, <1>6, <1>7, <1>8 DEF MailInv

\* The same of the client made for the next message.
LEMMA NextMail == RecipientsAssumption => (Init' => MailInv')
<1>1. RecipientsAssumption => (Init => MailInv)
  BY UnusedMail
<1>2. RecipientsAssumption' <=> RecipientsAssumption
  BY DEF RecipientsAssumption
<1> QED
  BY <1>1, <1>2, PTL

\* The connection is asked for, or the name of a server is.
LEMMA AskStep ==
    ASSUME MailInv, conn \in {"none", "lookup"}, settings' \in Settings,
           UNCHANGED <<state, code, rcpt, kicks, wire, srv>>,
           \/ /\ conn' = "connecting" /\ initSSL(settings'.type)
              /\ starttls' = (settings'.type = "Tls")
           \/ /\ conn' = "lookup" /\ UNCHANGED <<ssl, starttls>>
              /\ said' \in {said, said \cup {"MxDnsError"}}
    PROVE  MailInv'
<1>1. /\ TypeOK /\ ssl = "none" /\ ~starttls /\ conn' \in {"lookup", "connecting"}
      /\ state = "Init" /\ kicks = 0 /\ srv = Unused.srv
      /\ inbox = <<>> /\ toClient = <<>> /\ toServer = <<>>
      /\ UNCHANGED <<inbox, toClient, toServer>> /\ Unread' = Unread
  BY DEF MailInv, Silent, wire, Unread
<1>2. /\ ssl' \in {"none", "init", "uninit", "nolib"} /\ said' \subseteq Verdicts
      /\ starttls' \in BOOLEAN /\ starttls' => settings'.type = "Tls"
      /\ conn' = "connecting" => starttls' = (settings'.type = "Tls")
      /\ conn' = "lookup" => ssl' = "none" /\ ~starttls'
      /\ "SendOk" \in said' => "SendOk" \in said
  <2>1. said \subseteq Verdicts /\ starttls \in BOOLEAN
    BY <1>1 DEF TypeOK
  <2>2. CASE /\ conn' = "connecting" /\ initSSL(settings'.type)
             /\ starttls' = (settings'.type = "Tls")
    <3>1. /\ ssl' \in {"none", "init", "uninit", "nolib"}
          /\ said' \in {{}, {"ClientError"}}
      BY <2>2 DEF initSSL
    <3>2. said' \subseteq Verdicts /\ "SendOk" \notin said'
      BY <3>1 DEF Verdicts
    <3> QED
      BY <2>2, <3>1, <3>2
  <2>3. CASE /\ conn' = "lookup" /\ UNCHANGED <<ssl, starttls>>
             /\ said' \in {said, said \cup {"MxDnsError"}}
    BY <1>1, <2>1, <2>3 DEF Verdicts
  <2> QED
    BY <2>2, <2>3
<1>3. TypeOK'
  BY <1>1, <1>2 DEF TypeOK
<1>4. Silent' /\ Progress' /\ LastCode' /\ WholeAnswers'
  BY <1>1, <1>2 DEF MailInv, Silent, Progress, LastCode, WholeAnswers
<1>5. Spans' /\ Counted'
  BY <1>1 DEF MailInv, Spans, RcptSpan, Counted, OnTheWay, Trail, Refused
<1>6. DataLast' /\ NoGoAhead' /\ AtBody' /\ AtQuit' /\ Told'
  BY <1>1, <1>2 DEF MailInv, DataLast, NoGoAhead, AtBody, AtQuit, Told
<1>7. Starting' /\ AtStart' /\ Deafened'
  <2>1. /\ state' = "Init" /\ kicks' = 0 /\ toServer' = <<>> /\ Len(toServer') = 0
        /\ DOMAIN Unread' = {} /\ ssl' # "on" /\ ~NoSession'
    BY <1>1, <1>2 DEF NoSession, Unread
  <2>2. starttls' => settings'.type = "Tls"
    BY <1>1, <1>2
  <2>3. Starting'
    BY <2>1, <2>2 DEF Starting
  <2>4. AtStart' /\ Deafened'
    BY <2>1 DEF AtStart, Deafened
  <2> QED
    BY <2>3, <2>4
<1>8. Unsecured'
  <2>1. settings'.type \in {"Tcp", "Ssl", "Tls"}
    BY DEF Settings
  <2>2. state' = "Init" /\ kicks' = 0 /\ toServer' = <<>> /\ DOMAIN toServer' = {}
    BY <1>1
  <2> QED
    BY <1>1, <1>2, <2>1, <2>2 DEF Unsecured
<1> QED
  BY <1>3, <1>4, <1>5, <1>6, <1>7, <1>8 DEF MailInv

\* The connection is made and the server says its banner.
LEMMA ConnectedStep ==
    ASSUME MailInv, connected
    PROVE  MailInv'
<1>1. /\ conn = "connecting" /\ conn' = "open"
      /\ settings.type = "Ssl" => ssl' \in {"on", "broken", "deaf"}
      /\ settings.type # "Ssl" => ssl' = ssl
      /\ UNCHANGED <<settings, state, code, rcpt, starttls, kicks, inbox, toServer, srv, said>>
  BY DEF connected, connectSSL
<1>2. PICK c \in {220, 450, 550} : \E a \in Answers("banner", c) : toClient' = a
  BY DEF connected
<1>3. c \in Codes
  BY DEF Codes
<1>4. PICK a \in Answers("banner", c) : toClient' = a
  BY <1>2
<1>5. /\ a \in Seq(Lines) /\ Len(a) \in 1 .. 2
      /\ \A i \in 1 .. Len(a) : a[i].code = c /\ (a[i].last <=> i = Len(a))
  BY <1>3, AnswerLines
<1>6. /\ TypeOK /\ ssl # "on" /\ ~NoSession /\ state = "Init" /\ kicks = 0
      /\ inbox = <<>> /\ toServer = <<>>
  BY <1>1 DEF MailInv, Silent, NoSession
<1>7. Unread' = a /\ DOMAIN Unread' = 1 .. Len(a)
  BY <1>1, <1>4, <1>5, <1>6 DEF Unread
<1>8. TypeOK'
  BY <1>1, <1>4, <1>5, <1>6 DEF TypeOK
<1>9. Silent' /\ Progress' /\ LastCode'
  BY <1>1 DEF MailInv, Silent, Progress, LastCode
<1>10. WholeAnswers'
  <2> SUFFICES ASSUME NEW i \in 1 .. Len(a), ~a[i].last
               PROVE  i + 1 \in 1 .. Len(a) /\ a[i + 1].last /\ a[i + 1].code = a[i].code
    BY <1>7 DEF WholeAnswers
  <2>1. i = 1 /\ Len(a) = 2
    BY <1>5
  <2> QED
    BY <1>5, <2>1
<1>11. Spans'
  BY <1>1, <1>6 DEF MailInv, Spans, RcptSpan, OnTheWay, Trail
<1>12. Counted'
  <2>1. ~Refused
    BY <1>1, <1>6 DEF MailInv, Silent, Refused, Unread
  <2> QED
    BY <1>1, <1>6, <2>1 DEF MailInv, Counted, OnTheWay, Trail
<1>13. DataLast' /\ AtBody' /\ AtQuit' /\ Told'
  BY <1>1, <1>6 DEF MailInv, DataLast, AtBody, AtQuit, Told
<1>14. NoGoAhead'
  <2>1. c # 354
    OBVIOUS
  <2>2. \A i \in DOMAIN Unread' : Unread'[i].code = c
    BY <1>5, <1>7
  <2> QED
    BY <2>1, <2>2 DEF NoGoAhead
<1>15. /\ starttls => settings.type = "Tls"
       /\ settings.type # "Ssl" => ~NoSession' /\ ssl' # "on"
       /\ settings.type = "Ssl" => ssl' = "on" \/ NoSession'
       /\ settings.type \in {"Tcp", "Ssl", "Tls"}
  BY <1>1, <1>6 DEF MailInv, Starting, NoSession, TypeOK, Settings
<1>16. Starting' /\ Deafened' /\ Unsecured'
  BY <1>1, <1>6, <1>15 DEF MailInv, Starting, Deafened, Unsecured
<1>17. AtStart'
  <2>1. \A i \in DOMAIN Unread' : Unread'[i].code = c
    BY <1>5, <1>7
  <2>2. c # 250
    OBVIOUS
  <2> QED
    BY <1>1, <1>6, <2>1, <2>2 DEF AtStart
<1> QED
  BY <1>8, <1>9, <1>10, <1>11, <1>12, <1>13, <1>14, <1>16, <1>17 DEF MailInv

\* The socket fails, or a secured connection is lost: the client stays as it was.
LEMMA ConnectionLostStep ==
    ASSUME MailInv, socketError \/ sessionLost
    PROVE  MailInv'
<1>1. /\ conn \in {"connecting", "open"} /\ conn' \in {"failed", "lost"}
      /\ conn' = "lost" => ssl = "on"
      /\ said' \in {said, said \cup {"SocketError"}}
      /\ UNCHANGED <<settings, ssl, state, code, rcpt, starttls, kicks, srv>>
      /\ UNCHANGED <<inbox, toClient, toServer>> /\ Unread' = Unread
  BY DEF socketError, sessionLost, wire, Unread
<1>2. TypeOK'
  BY <1>1 DEF MailInv, TypeOK, Verdicts
<1>3. Silent' /\ Progress' /\ LastCode' /\ WholeAnswers'
  BY <1>1 DEF MailInv, Silent, Progress, LastCode, WholeAnswers
<1>4. Spans' /\ Counted'
  BY <1>1 DEF MailInv, Spans, RcptSpan, Counted, OnTheWay, Trail, Refused
<1>5. DataLast' /\ NoGoAhead' /\ AtBody' /\ AtQuit' /\ Told'
  BY <1>1 DEF MailInv, DataLast, NoGoAhead, AtBody, AtQuit, Told
<1>6. Starting' /\ AtStart' /\ Deafened' /\ Unsecured'
  BY <1>1 DEF MailInv, Starting, AtStart, Deafened, Unsecured, NoSession
<1> QED
  BY <1>2, <1>3, <1>4, <1>5, <1>6 DEF MailInv

\* The server closes the connection.
LEMMA ConnectionClosedStep ==
    ASSUME MailInv, connectionClosed
    PROVE  MailInv'
<1>1. /\ conn = "open" /\ conn' = "closed" /\ state' = "Close"
      /\ UNCHANGED <<settings, ssl, code, rcpt, starttls, kicks, srv, said>>
      /\ UNCHANGED <<inbox, toClient, toServer>> /\ Unread' = Unread
  BY DEF connectionClosed, wire, Unread
<1>2. SentInv'
  BY <1>1, CloseSent
<1>3. TypeOK'
  BY <1>1 DEF MailInv, TypeOK, States
<1>4. Silent' /\ WholeAnswers'
  BY <1>1 DEF MailInv, Silent, WholeAnswers
<1>5. Starting' /\ AtStart' /\ Deafened' /\ Unsecured'
  BY <1>1 DEF MailInv, Starting, AtStart, Deafened, Unsecured, NoSession
<1> QED
  BY <1>2, <1>3, <1>4, <1>5 DEF MailInv, SentInv

\* Every step of a message keeps the invariant.
LEMMA MailStep ==
    ASSUME RecipientsAssumption, MailInv, [Next]_vars
    PROVE  MailInv'
<1>1. TypeOK /\ WholeAnswers /\ kicks \in Nat
  BY DEF MailInv, TypeOK
<1>2. CASE \E s \in Settings : startSend(s)
  <2>1. PICK s \in Settings : startSend(s)
    BY <1>2
  <2>2. CASE s.mailServer
    BY <2>1, <2>2, AskStep DEF startSend
  <2>3. CASE ~s.mailServer
    BY <2>1, <2>3, AskStep DEF startSend
  <2> QED
    BY <2>2, <2>3
<1>3. CASE destroyed
  <2>1. Init'
    BY <1>3 DEF destroyed, Init
  <2> QED
    BY <2>1, NextMail
<1>4. CASE Lookup
  <2>1. PICK found \in BOOLEAN : dnsLookupHelper(found)
    BY <1>4 DEF Lookup
  <2>2. settings' = settings /\ settings \in Settings /\ conn = "lookup"
    BY <1>1, <2>1 DEF dnsLookupHelper, TypeOK
  <2>3. CASE found
    BY <2>1, <2>2, <2>3, AskStep DEF dnsLookupHelper
  <2>4. CASE ~found
    BY <2>1, <2>2, <2>4, AskStep DEF dnsLookupHelper
  <2> QED
    BY <2>3, <2>4
<1>5. CASE Receive
  <2>1. PICK n \in 1 .. Len(toClient) : readyRead(n)
    BY <1>5 DEF Receive
  <2>2. PICK c \in Codes, k \in 1 .. 2, heard \in Heard : Reads(c, k) /\ Handle(c, heard, kicks)
    BY <1>1, <2>1, ReadyReadReads
  <2>3. k # 0
    OBVIOUS
  <2> QED
    BY <1>1, <2>2, <2>3, ReadStep
<1>6. CASE queuedReadyRead
  <2>1. /\ Reads(code, 0) /\ Handle(code, {}, kicks - 1) /\ kicks - 1 \in Nat /\ {} \in Heard
        /\ code \in Codes
    BY <1>1, <1>6, QueuedReads DEF TypeOK
  <2> QED
    BY <2>1, ReadStep
<1>7. CASE MailServer
  BY <1>1, <1>7, MailServerServes, ServeStep
<1>8. CASE UNCHANGED vars
  <2>1. /\ UNCHANGED <<settings, conn, ssl, state, code, rcpt, starttls, kicks, srv, said>>
        /\ UNCHANGED <<inbox, toClient, toServer>>
    BY <1>8 DEF vars, wire
  <2>2. TypeOK'
    BY <2>1 DEF MailInv, TypeOK
  <2>3. Silent' /\ Progress' /\ LastCode' /\ WholeAnswers'
    BY <2>1 DEF MailInv, Silent, Progress, LastCode, WholeAnswers, Unread
  <2>4. Spans' /\ Counted'
    BY <2>1 DEF MailInv, Spans, RcptSpan, Counted, OnTheWay, Trail, Refused, Unread
  <2>5. DataLast' /\ NoGoAhead' /\ AtBody' /\ AtQuit' /\ Told'
    BY <2>1 DEF MailInv, DataLast, NoGoAhead, AtBody, AtQuit, Told, Unread
  <2>6. Starting' /\ AtStart' /\ Deafened' /\ Unsecured'
    BY <2>1 DEF MailInv, Starting, AtStart, Deafened, Unsecured, NoSession, Unread
  <2> QED
    BY <2>2, <2>3, <2>4, <2>5, <2>6 DEF MailInv
<1> QED
  BY <1>2, <1>3, <1>4, <1>5, <1>6, <1>7, <1>8,
     ConnectedStep, ConnectionLostStep, ConnectionClosedStep DEF Next

\* The invariant holds of every message.
LEMMA MailInvariance == ASSUME RecipientsAssumption PROVE Spec => []MailInv
<1>1. Init => MailInv
  BY UnusedMail
<1>2. MailInv /\ [Next]_vars => MailInv'
  BY MailStep
<1> QED
  BY <1>1, <1>2, PTL DEF Spec

\* The variables of the client, the connection and the server keep their types: no more
\* recipients are sent than the message has, and no more are taken.
THEOREM MailTypes == ASSUME RecipientsAssumption PROVE Spec => []TypeOK
<1>1. MailInv => TypeOK
  BY DEF MailInv
<1> QED
  BY <1>1, MailInvariance, PTL

(***************************************************************************)
(* SendOk is told only of a message the server has taken for every         *)
(* recipient, whatever the number of recipients, however the answers are   *)
(* cut into segments and whenever readyRead is called again by itself.     *)
(***************************************************************************)
THEOREM SentIsTaken == ASSUME RecipientsAssumption PROVE Spec => []SentMeansTaken
<1>1. MailInv => SentMeansTaken
  BY DEF MailInv, Told, SentMeansTaken
<1> QED
  BY <1>1, MailInvariance, PTL

(***************************************************************************)
(* Credentials, addresses and the message are sent only over a connection  *)
(* that is secured, when it is to be: with SslConnection nothing is sent   *)
(* in clear, with TlsConnection HELO and STARTTLS and nothing once the     *)
(* latter is answered, whatever connectSSL says and whether there is a     *)
(* session or not.                                                         *)
(***************************************************************************)
THEOREM SecretsStaySecured == ASSUME RecipientsAssumption PROVE Spec => []NothingInClear
<1>1. MailInv => NothingInClear
  BY DEF MailInv, TypeOK, Unsecured, Deafened, NothingInClear
<1> QED
  BY <1>1, MailInvariance, PTL

=============================================================================
