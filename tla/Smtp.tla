-------------------------------- MODULE Smtp --------------------------------
(***************************************************************************)
(* One alarm mail: smtp.c, called by send_to_contact (email_alarm_thread.c)*)
(* with a client of its own, and the server at the other end.              *)
(*                                                                         *)
(* The connection is a stream of tokens that recv takes in any pieces: the *)
(* keyword lines of an EHLO answer ("words"), and a final line as its code *)
(* and its "end".  Data blocks have no answer and are sent with the end of *)
(* data.                                                                   *)
(***************************************************************************)
EXTENDS Integers, Sequences, FiniteSetsExt

CONSTANTS
    Receivers,     \* email_receiver_cnt, at least 1
    Offers         \* sets of keywords the server may offer

ASSUME SmtpAssumption == Receivers \in Nat \ {0}

VARIABLES
    security, ssl,        \* of the port: NO_SECURITY, USE_TLS or USE_SSL; m_ssl is in use
    at, cmd, receiver,    \* connecting, sending, waiting, over; the command, and whose RCPT
    recv_buf,             \* what the last recv left
    offers, owed, wire,   \* the server: keywords, commands to answer, answers under way
    closed,               \* there is no connection: closed by the server, or never made
    result                \* what send_email returns

(* For the properties. *)
VARIABLES
    accepted,      \* commands the server accepted
    late,          \* the answer of one command was parsed again for that of another
    cut            \* a final line came in two pieces

smtpVars == <<security, ssl, at, cmd, receiver, recv_buf, offers, owed, wire, closed, result,
              accepted, late, cut>>
server   == <<offers, owed, wire, closed, accepted>>

\* command_list: valid_reply_code.
valid_reply_code ==
    [INIT |-> "220", EHLO |-> "250", STARTTLS |-> "220", AUTH_LOGIN |-> "334", USER |-> "334",
     PASSWORD |-> "235", AUTH_PLAIN |-> "235", MAIL |-> "250", RCPT |-> "250", DATA |-> "354",
     DATAEND |-> "250", QUIT |-> "221"]

SmtpInit ==
    /\ security \in {"NO_SECURITY", "USE_TLS", "USE_SSL"} /\ offers \in Offers
    /\ ssl = FALSE /\ at = "connect" /\ cmd = "INIT" /\ receiver = 1 /\ recv_buf = <<>>
    /\ owed = <<>> /\ wire = <<>> /\ closed = FALSE /\ result = "none"
    /\ accepted = {} /\ late = FALSE /\ cut = FALSE

----------------------------------------------------------------------------
(***************************************************************************)
(* The client                                                              *)
(***************************************************************************)
Supports(buf, keyword) == "words" \in Range(buf) /\ keyword \in offers

\* receive_response: the code of the first final line in the buffer.
Code(buf) ==
    LET finals == {i \in 1..Len(buf) - 1 : buf[i] \notin {"words", "end"} /\ buf[i + 1] = "end"}
    IN  IF finals = {} THEN "none" ELSE buf[Min(finals)]

GoTo(c, i) == at' = "send" /\ cmd' = c /\ receiver' = i /\ UNCHANGED result
Over(ret)  == at' = "over" /\ result' = ret /\ UNCHANGED <<cmd, receiver>>

\* Socket, address, and the SSL handshake of port 465 may fail, and the time to connect may
\* run out.  A connection made at once is not used (m_socket is not set), and all sends fail.
\* A connection refused meanwhile is writeable as well, and goes for made
\* (socket_check_writeable asks for no error): only the handshake would notice.
Connect ==
    /\ at = "connect"
    /\ \/ Over("error") /\ UNCHANGED <<ssl, owed, closed>>
       \/ /\ at' = "wait" /\ ssl' = (security = "USE_SSL") /\ owed' = <<[cmd |-> "INIT", to |-> 1]>>
          /\ UNCHANGED <<cmd, receiver, result, closed>>
       \/ /\ security # "USE_SSL" /\ at' = "wait" /\ closed' = TRUE /\ owed' = <<>>
          /\ UNCHANGED <<ssl, cmd, receiver, result>>
    /\ UNCHANGED <<security, recv_buf, offers, wire, accepted, late, cut>>

\* A send fails when the connection is closed, though not the first one.
Send ==
    /\ at = "send"
    /\ \/ /\ at' = "wait" /\ owed' = IF closed THEN owed
                                     ELSE Append(owed, [cmd |-> cmd, to |-> receiver])
          /\ UNCHANGED <<cmd, receiver, result>>
       \/ closed /\ Over("error") /\ UNCHANGED owed
    /\ UNCHANGED <<security, ssl, recv_buf, offers, wire, closed, accepted, late, cut>>

\* connect_server after an EHLO.
Hello(buf) ==
    IF security = "USE_TLS" /\ ~ssl
    THEN IF Supports(buf, "STARTTLS") THEN GoTo("STARTTLS", 1) ELSE Over("error")
    ELSE IF ~Supports(buf, "AUTH") THEN GoTo("MAIL", 1)
    ELSE IF Supports(buf, "LOGIN") THEN GoTo("AUTH_LOGIN", 1)
    ELSE IF Supports(buf, "PLAIN") THEN GoTo("AUTH_PLAIN", 1) ELSE Over("error")

\* Mutant: the index of the receivers stays.
NextReceiverStays == IF receiver < Receivers THEN GoTo("RCPT", receiver) ELSE GoTo("DATA", 1)

NextReceiver == IF receiver < Receivers THEN GoTo("RCPT", receiver + 1) ELSE GoTo("DATA", 1)

\* The command has been answered as it should.
Valid(buf) ==
    CASE cmd = "INIT"       -> GoTo("EHLO", 1)
      [] cmd = "EHLO"       -> Hello(buf)
      [] cmd = "STARTTLS"   -> GoTo("EHLO", 1) \/ Over("error")      \* openssl_connect
      [] cmd = "AUTH_LOGIN" -> GoTo("USER", 1)
      [] cmd = "USER"       -> GoTo("PASSWORD", 1)
      [] cmd \in {"PASSWORD", "AUTH_PLAIN"} -> GoTo("MAIL", 1)
      [] cmd = "MAIL"       -> GoTo("RCPT", 1)
      [] cmd = "RCPT"       -> NextReceiver
      [] cmd = "DATA"       -> GoTo("DATAEND", 1)
      [] cmd = "DATAEND"    -> Over("ok")
      [] cmd = "QUIT"       -> Over("error")

\* Mutant: a refused receiver ends the loop over the receivers, not the mail.
RefusedEndsLoop(code) == IF cmd = "RCPT" THEN GoTo("DATA", 1) ELSE Over("error")

\* say_hello sets m_connected when EHLO is refused, and only then QUIT is sent and the
\* socket closed at the end.
Refused(code) == IF cmd = "EHLO" /\ code # "530" THEN GoTo("QUIT", 1) ELSE Over("error")

ParseReply(buf) ==
    /\ recv_buf' = buf
    /\ IF Code(buf) = "none" THEN UNCHANGED <<at, cmd, receiver, result, ssl>>
       ELSE IF Code(buf) = valid_reply_code[cmd]
       THEN Valid(buf) /\ ssl' = (ssl \/ (cmd = "STARTTLS" /\ at' = "send"))
       ELSE Refused(Code(buf)) /\ UNCHANGED ssl

\* receive_data: recv overwrites the buffer with what has arrived.
Receive ==
    /\ at = "wait"
    /\ \E n \in 1..Len(wire) :
          /\ ParseReply(SubSeq(wire, 1, n)) /\ wire' = SubSeq(wire, n + 1, Len(wire))
          /\ cut' = (cut \/ wire[n] \notin {"words", "end"})
    /\ UNCHANGED <<security, offers, owed, closed, accepted, late>>

\* The result of receive_data is not looked at.  Minutes without an answer: what an earlier
\* recv left is parsed again; receive_data_ssl leaves nothing, and the client waits again.
Timeout ==
    /\ at = "wait" /\ ~closed
    /\ IF ssl THEN ParseReply(<<>>) ELSE ParseReply(recv_buf)
    /\ late' = (late \/ (~ssl /\ Code(recv_buf) # "none"))
    /\ UNCHANGED <<security, server, cut>>

\* Without a connection recv returns 0, and the client finds nothing, again and again - or
\* first an error, and what an earlier recv left is parsed again.
EndOfStream ==
    /\ at = "wait" /\ closed /\ wire = <<>>
    /\ \/ ParseReply(<<>>) /\ UNCHANGED late
       \/ ~ssl /\ ParseReply(recv_buf) /\ late' = (late \/ Code(recv_buf) # "none")
    /\ UNCHANGED <<security, server, cut>>

----------------------------------------------------------------------------
(***************************************************************************)
(* The server                                                              *)
(***************************************************************************)
Reply ==
    /\ owed # <<>> /\ owed' = Tail(owed)
    /\ \/ /\ accepted' = accepted \cup {Head(owed)}
          /\ wire' = wire \o (IF Head(owed).cmd = "EHLO" THEN <<"words">> ELSE <<>>)
                          \o <<valid_reply_code[Head(owed).cmd], "end">>
       \/ /\ \E code \in {"550", "530"} : wire' = wire \o <<code, "end">>
          /\ UNCHANGED accepted
    /\ UNCHANGED <<security, ssl, at, cmd, receiver, recv_buf, offers, closed, result, late, cut>>

Close ==
    /\ at \notin {"connect", "over"} /\ ~closed /\ closed' = TRUE /\ owed' = <<>>
    /\ UNCHANGED <<security, ssl, at, cmd, receiver, recv_buf, offers, wire, result, accepted,
                   late, cut>>

----------------------------------------------------------------------------
Client == Connect \/ Send \/ Receive \/ EndOfStream
SmtpNext == Client \/ Timeout \/ Reply \/ Close

\* The thread is scheduled, and a server that has not closed the connection answers.
SmtpSpec == SmtpInit /\ [][SmtpNext]_smtpVars /\ WF_smtpVars(Client) /\ WF_smtpVars(Reply)

----------------------------------------------------------------------------
\* Types of the variables.
SmtpTypeOK ==
    /\ at \in {"connect", "send", "wait", "over"} /\ cmd \in DOMAIN valid_reply_code
    /\ receiver \in 1..Receivers /\ result \in {"none", "ok", "error"}
    /\ (at = "over") = (result # "none")
    /\ ssl \in BOOLEAN /\ closed \in BOOLEAN /\ late \in BOOLEAN /\ cut \in BOOLEAN
    /\ ssl => security # "NO_SECURITY"

\* A mail reported as sent is one the server has taken: message, sender and each receiver;
\* when an answer was taken for another one's after a time-out or an error of recv, still
\* message and sender, whatever became of the receivers.
MailAccepted ==
    result = "ok" =>
        /\ late \/ \A i \in 1..Receivers : [cmd |-> "RCPT", to |-> i] \in accepted
        /\ (late /\ cut) \/ \A c \in {"MAIL", "DATA", "DATAEND"} : [cmd |-> c, to |-> 1] \in accepted

\* The mail ends, sent or not, and the thread goes on to its next alarm - unless the
\* connection is refused or the server closes it, or a final line comes in two pieces: then
\* receive_response may never return.
MailIsOver == <>(at = "over" \/ closed \/ cut)
=============================================================================
