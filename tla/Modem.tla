-------------------------------- MODULE Modem --------------------------------
(***************************************************************************)
(* The short messages of one alarm: send_to_contact of                     *)
(* sms_alarm_thread.c, modem.c, and the modem at the end of a serial line. *)
(* A read waits for its whole time and takes what has come until then; an  *)
(* answer that comes later is there for the read after.                    *)
(***************************************************************************)
EXTENDS Integers, Sequences, Functions

CONSTANTS
    Contacts,      \* sms_contact_cnt, at least 1
    MaxOwed        \* bound of the runs: commands the modem has not dealt with

ASSUME ModemAssumption == Contacts \in Nat \ {0} /\ MaxOwed \in Nat

VARIABLES
    step, asked,          \* the AT command or packet in turn, or idle; it is written
    contact, part,        \* whom the message is for; 2 in the recursive call of send_sms
    text, rest,           \* empty, short, or long: more than 280 digits; the second part
    pdu_flag, converted,  \* the static flag; the content of this part was converted
    send_status,          \* of each contact's record: 0 sent, 1 not sent, 2 no record
    todo, prompt, line    \* the modem: commands to deal with, waiting for a packet; answers

(* For the properties. *)
VARIABLES
    taken,         \* contacts whose first part the modem has taken
    delayed        \* an answer was late for its read

modemVars == <<step, asked, contact, part, text, rest, pdu_flag, converted, send_status, todo, prompt,
               line, taken, delayed>>
modem  == <<todo, prompt, line, taken>>
sender == <<step, asked, contact, part, text, rest, pdu_flag, converted, send_status, delayed>>

People == 1..Contacts

ModemInit ==
    /\ step = "idle" /\ asked = FALSE /\ contact = 1 /\ part = 1 /\ text = "short" /\ rest = "empty"
    /\ pdu_flag = 0 /\ converted = FALSE /\ send_status = [c \in People |-> 2]
    /\ todo = <<>> /\ prompt = FALSE /\ line = <<>> /\ taken = {} /\ delayed = FALSE

----------------------------------------------------------------------------
(***************************************************************************)
(* send_to_contact                                                         *)
(***************************************************************************)
SendToContact ==
    /\ step = "idle" /\ step' = "AT" /\ contact' = 1 /\ part' = 1
    /\ text' \in {"empty", "short", "long"}
    /\ send_status' = [c \in People |-> 2] /\ taken' = {}
    /\ UNCHANGED <<asked, rest, pdu_flag, converted, todo, prompt, line, delayed>>

NextContact ==
    IF contact < Contacts THEN contact' = contact + 1 /\ step' = "CMGS"
                          ELSE contact' = 1 /\ step' = "idle"

\* Without a block for the record nothing is sent to this contact.
NoBlock ==
    /\ step = "CMGS" /\ part = 1 /\ ~asked /\ NextContact
    /\ UNCHANGED <<asked, part, text, rest, pdu_flag, converted, send_status, modem, delayed>>

\* send_sms returns, from the recursive call too, whose result is not looked at.
Return(ret, flag) ==
    /\ pdu_flag' = flag /\ part' = 1 /\ NextContact
    /\ send_status' = [send_status EXCEPT ![contact] = IF part = 2 THEN 0 ELSE ret]
    /\ UNCHANGED <<text, rest, converted>>

\* Mutant: an error leaves the flag as it is.
FailKeepsFlag == Return(1, IF part = 2 THEN 0 ELSE pdu_flag)

Fail == Return(1, 0)

Content == IF part = 1 THEN text ELSE rest

EmptyText ==
    /\ step = "CMGS" /\ ~asked /\ Content = "empty" /\ Return(0, 0)
    /\ UNCHANGED <<asked, modem, delayed>>

Write(what) ==
    /\ ~asked /\ asked' = TRUE /\ Len(todo) < MaxOwed
    /\ todo' = Append(todo, [what |-> what, to |-> contact, part |-> part])
    /\ UNCHANGED <<step, contact, part, text, rest, send_status, prompt, line, taken, delayed>>

\* at_cmd_implement and append_packet, first half.
Command ==
    step \in {"AT", "CSCA", "CMGF", "packet"} /\ Write(step) /\ UNCHANGED <<pdu_flag, converted>>

\* send_sms: a part is converted when no flag says that it is already.
Begin == /\ step = "CMGS" /\ Content # "empty" /\ Write("CMGS")
         /\ pdu_flag' = 1 /\ converted' = (pdu_flag = 0)

\* strstr in the answer; the number of the service centre comes with an echo of the command.
Good(tmp) == CASE step = "CMGS" -> tmp \cap {"OK", ">"} # {}
               [] step = "CSCA" -> {"OK", "CSCA"} \subseteq tmp
               [] OTHER         -> "OK" \in tmp

\* The rest of a long content is looked for 280 bytes further on in the text that was not
\* converted, behind its end: whatever is found there.
SecondPart == /\ part' = 2 /\ step' = "CMGS" /\ rest' \in {"empty", "short"}
              /\ UNCHANGED <<contact, text, pdu_flag, converted, send_status>>

Prelude(next) ==
    step' = next /\ UNCHANGED <<contact, part, text, rest, pdu_flag, converted, send_status>>

\* at_cmd_implement and append_packet, second half.  Without the prelude's answers every
\* contact's message is recorded as not sent.
Read ==
    /\ asked /\ asked' = FALSE /\ line' = <<>> /\ delayed' = (delayed \/ todo # <<>>)
    /\ IF Good(Range(line))
       THEN CASE step = "AT"     -> Prelude("CSCA")
              [] step = "CSCA"   -> Prelude("CMGF")
              [] step = "CMGF"   -> Prelude("CMGS")
              [] step = "CMGS"   -> Prelude("packet")
              [] step = "packet" -> IF Content = "long" THEN SecondPart ELSE Return(0, 0)
       ELSE IF step \in {"CMGS", "packet"} THEN Fail
       ELSE /\ \E some \in SUBSET People :
                   send_status' = [c \in People |-> IF c \in some THEN 1 ELSE 2]
            /\ step' = "idle" /\ UNCHANGED <<contact, part, text, rest, pdu_flag, converted>>
    /\ UNCHANGED <<todo, prompt, taken>>

----------------------------------------------------------------------------
(***************************************************************************)
(* The modem.  After ">" all it gets is part of the message, up to the end *)
(* of a packet.                                                            *)
(***************************************************************************)
Answers(c, good) ==
    IF prompt /\ c.what # "packet" THEN <<>>
    ELSE IF ~good \/ (prompt # (c.what = "packet")) THEN <<"ERROR">>
    ELSE CASE c.what = "CMGS" -> <<">">>
           [] c.what = "CSCA" -> <<"CSCA", "OK">>
           [] OTHER           -> <<"OK">>

Deal ==
    /\ todo # <<>> /\ todo' = Tail(todo)
    /\ \E good \in BOOLEAN :
         LET c == Head(todo) IN
         /\ line' = line \o Answers(c, good)
         /\ prompt' = IF prompt THEN c.what # "packet" ELSE c.what = "CMGS" /\ good
         /\ taken' = IF prompt /\ c.what = "packet" /\ good /\ c.part = 1
                     THEN taken \cup {c.to} ELSE taken
    /\ UNCHANGED sender

----------------------------------------------------------------------------
ModemNext == SendToContact \/ NoBlock \/ EmptyText \/ Command \/ Begin \/ Read \/ Deal
ModemSpec == ModemInit /\ [][ModemNext]_modemVars

----------------------------------------------------------------------------
\* Types of the variables.
ModemTypeOK ==
    /\ step \in {"idle", "AT", "CSCA", "CMGF", "CMGS", "packet"}
    /\ contact \in People /\ part \in {1, 2}
    /\ text \in {"empty", "short", "long"} /\ rest \in {"empty", "short"}
    /\ pdu_flag \in {0, 1} /\ asked \in BOOLEAN /\ converted \in BOOLEAN
    /\ prompt \in BOOLEAN /\ delayed \in BOOLEAN
    /\ send_status \in [People -> 0..2] /\ taken \subseteq People
    /\ Len(todo) <= MaxOwed

\* What a contact's record says of the message is what the modem did with its first part, as
\* long as no answer was late; and the text of each message is converted once, however the
\* message before it ended: the static flag never outlives a message.
SmsResult ==
    /\ ~delayed /\ text # "empty" =>
          \A c \in People : /\ send_status[c] = 0 => c \in taken
                            /\ send_status[c] = 1 => c \notin taken
    /\ step = "packet" /\ part = 1 => converted
    /\ step \notin {"CMGS", "packet"} => pdu_flag = 0
=============================================================================
