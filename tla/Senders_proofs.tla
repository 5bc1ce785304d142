------------------------------ MODULE Senders_proofs ------------------------------
(***************************************************************************)
(* What the records say of short messages (Modem), for any number of       *)
(* contacts, and what a mail reported as sent means (Smtp), for any number of *)
(* receivers.                                                              *)
(***************************************************************************)
EXTENDS Smtp, Modem, SequenceTheorems, TLAPS

(***************************************************************************)
(* Short messages                                                          *)
(***************************************************************************)
Steps  == {"idle", "AT", "CSCA", "CMGF", "CMGS", "packet"}
Asked  == [what : Steps, to : People, part : {1, 2}]
Sms    == step \in {"CMGS", "packet"}

ModemTypes ==
    /\ ModemTypeOK
    /\ todo \in Seq(Asked) /\ line \in Seq({"OK", "ERROR", "CSCA", ">"})

\* The static flag is set between the conversion of a message and its end.
FlagOfMessage ==
    /\ ~Sms => pdu_flag = 0 /\ part = 1
    /\ step = "idle" => ~asked
    /\ step = "CMGS" /\ part = 1 => IF asked THEN converted ELSE pdu_flag = 0
    /\ step = "packet" /\ part = 1 => converted

(***************************************************************************)
(* As long as no answer was late, one command is under way at a time.      *)
(***************************************************************************)
Waiting ==
    /\ line = <<>> /\ (prompt <=> step = "packet")
    /\ todo = IF asked THEN <<[what |-> step, to |-> contact, part |-> part]>> ELSE <<>>

Answered ==
    /\ asked /\ todo = <<>>
    /\ step = "CMGS" => (line = <<">">> /\ prompt) \/ (line = <<"ERROR">> /\ ~prompt)
    /\ step = "packet" =>
          /\ ~prompt
          /\ \/ line = <<"OK">> /\ (part = 1 => contact \in taken)
             \/ line = <<"ERROR">> /\ (part = 1 /\ text # "empty" => contact \notin taken)
    /\ ~Sms => ~prompt

Dialogue == ~delayed => Waiting \/ Answered

\* What a record says of a contact, and those whose turn has not come.
Says(c)  == (send_status[c] = 0 => c \in taken) /\ (send_status[c] = 1 => c \notin taken)
NotYet(c) == send_status[c] = 2 /\ c \notin taken

Records ==
    ~delayed /\ text # "empty" =>
        /\ step = "idle" => \A c \in People : Says(c)
        /\ step \in {"AT", "CSCA", "CMGF"} => contact = 1 /\ \A c \in People : NotYet(c)
        /\ Sms => /\ \A c \in People : c < contact => Says(c)
                  /\ \A c \in People : c > contact => NotYet(c)
                  /\ send_status[contact] = 2
                  /\ part = 2 => contact \in taken
                  /\ part = 1 /\ Waiting => contact \notin taken
                  /\ part = 1 /\ step = "CMGS" => contact \notin taken

ModemIInv == ModemTypes /\ FlagOfMessage /\ Dialogue /\ Records

LEMMA ModemInitInv == ModemInit => ModemIInv
<1> SUFFICES ASSUME ModemInit PROVE ModemIInv
  OBVIOUS
<1>1. ModemTypes
  <2>1. 1 \in People /\ send_status \in [People -> 0..2]
    BY ModemAssumption DEF ModemInit, People
  <2>2. Len(todo) <= MaxOwed
    BY ModemAssumption DEF ModemInit
  <2>3. asked \in BOOLEAN /\ converted \in BOOLEAN /\ prompt \in BOOLEAN /\ delayed \in BOOLEAN
    BY Zenon DEF ModemInit
  <2>4. QED BY <2>1, <2>2, <2>3 DEF ModemInit, ModemTypes, ModemTypeOK
<1>2. FlagOfMessage
  BY DEF ModemInit, FlagOfMessage, Sms
<1>3. Dialogue
  BY DEF ModemInit, Dialogue, Waiting
<1>4. Records
  BY DEF ModemInit, Records, Says, Sms
<1>5. QED BY <1>1, <1>2, <1>3, <1>4 DEF ModemIInv

LEMMA SendToContactInv == ASSUME ModemIInv, SendToContact PROVE ModemIInv'
<1>1. ModemTypes'
  <2>1. 1 \in People /\ send_status' \in [People -> 0..2]
    BY ModemAssumption DEF SendToContact, People
  <2>2. QED BY <2>1 DEF ModemIInv, ModemTypes, ModemTypeOK, SendToContact
<1>2. FlagOfMessage'
  BY DEF ModemIInv, FlagOfMessage, SendToContact, Sms
<1>3. Dialogue'
  BY DEF ModemIInv, FlagOfMessage, Dialogue, Waiting, Answered, SendToContact, Sms
<1>4. Records'
  BY DEF ModemIInv, ModemTypes, ModemTypeOK, Records, NotYet, Says, SendToContact, Sms
<1>5. QED BY <1>1, <1>2, <1>3, <1>4 DEF ModemIInv

----------------------------------------------------------------------------
(***************************************************************************)
(* A message ends and the next contact's begins: what holds of the records *)
(* when the contact in turn has been dealt with truthfully.                *)
(***************************************************************************)
LEMMA TurnType ==
    ASSUME ModemTypes, NextContact
    PROVE  /\ Contacts \in Nat \ {0} /\ contact \in People /\ contact' \in People
           /\ \/ step' = "CMGS" /\ contact' = contact + 1
              \/ step' = "idle" /\ contact = Contacts
BY ModemAssumption DEF ModemTypes, ModemTypeOK, People, NextContact

LEMMA TurnRecords ==
    ASSUME ModemIInv, Sms, NextContact, ~delayed' => ~delayed,
           text' = text, taken' = taken, part' = 1,
           ~delayed' /\ text # "empty" =>
               /\ \A c \in People : c # contact => send_status'[c] = send_status[c]
               /\ send_status'[contact] = 0 => contact \in taken
               /\ send_status'[contact] = 1 => contact \notin taken
    PROVE  Records'
<1> SUFFICES ASSUME ~delayed', text # "empty" PROVE Records'
  BY DEF Records
<1>1. /\ \A c \in People : c < contact => Says(c)
      /\ \A c \in People : c > contact => NotYet(c)
  BY DEF ModemIInv, Records
<1>2. /\ Contacts \in Nat \ {0} /\ contact \in People /\ contact' \in People
      /\ \/ step' = "CMGS" /\ contact' = contact + 1
         \/ step' = "idle" /\ contact = Contacts
  BY TurnType DEF ModemIInv
<1>3. \A c \in People : c <= contact => Says(c)'
  BY <1>1, <1>2 DEF Says, People
<1>4. \A c \in People : c > contact => NotYet(c)'
  BY <1>1, <1>2 DEF NotYet, People
<1>5. CASE step' = "idle"
  BY <1>2, <1>3, <1>5 DEF Records, Sms, People
<1>6. CASE step' = "CMGS"
  BY <1>2, <1>3, <1>4, <1>6 DEF Records, Sms, NotYet, People
<1>7. QED BY <1>2, <1>5, <1>6

\* Without a command under way the line is silent.
LEMMA Silent == ASSUME ModemIInv, ~asked, ~delayed PROVE Waiting
BY DEF ModemIInv, Dialogue, Answered

LEMMA NoBlockInv == ASSUME ModemIInv, NoBlock PROVE ModemIInv'
<1>1. ModemTypes'
  BY TurnType DEF ModemIInv, ModemTypes, ModemTypeOK, NoBlock, modem
<1>2. FlagOfMessage'
  BY TurnType DEF ModemIInv, FlagOfMessage, NoBlock, modem, Sms
<1>3. Dialogue'
  BY Silent, TurnType DEF ModemIInv, Dialogue, Waiting, NoBlock, modem
<1>4. Records'
  <2>1. send_status[contact] = 2 \/ delayed \/ text = "empty"
    BY DEF ModemIInv, Records, NoBlock, Sms
  <2>2. QED BY <2>1, TurnRecords DEF NoBlock, modem, Sms
<1>5. QED BY <1>1, <1>2, <1>3, <1>4 DEF ModemIInv

\* send_sms returns: the other records stay.
LEMMA ReturnType ==
    ASSUME ModemIInv, NEW ret \in {0, 1}, Return(ret, 0)
    PROVE  /\ send_status' \in [People -> 0..2]
           /\ \A c \in People : c # contact => send_status'[c] = send_status[c]
           /\ send_status'[contact] = IF part = 2 THEN 0 ELSE ret
           /\ contact' \in People /\ step' \in {"CMGS", "idle"}
BY TurnType DEF ModemIInv, ModemTypes, ModemTypeOK, Return

LEMMA EmptyInv == ASSUME ModemIInv, EmptyText PROVE ModemIInv'
<1> USE DEF modem
<1>0. 0 \in {0, 1} /\ Return(0, 0)
  BY DEF EmptyText
<1>1. ModemTypes'
  BY <1>0, ReturnType DEF ModemIInv, ModemTypes, ModemTypeOK, EmptyText, Return
<1>2. FlagOfMessage'
  BY <1>0, ReturnType DEF ModemIInv, FlagOfMessage, EmptyText, Return, Sms
<1>3. Dialogue'
  BY <1>0, Silent, ReturnType DEF ModemIInv, Dialogue, Waiting, EmptyText, Return
<1>4. Records'
  <2>1. part = 2 => (contact \in taken \/ delayed \/ text = "empty")
    BY DEF ModemIInv, Records, EmptyText, Sms
  <2>2. part = 1 => text = "empty"
    BY DEF EmptyText, Content
  <2>3. part \in {1, 2}
    BY DEF ModemIInv, ModemTypes, ModemTypeOK
  <2>4. QED BY <1>0, <2>1, <2>2, <2>3, ReturnType, TurnRecords DEF EmptyText, Return, Sms
<1>5. QED BY <1>1, <1>2, <1>3, <1>4 DEF ModemIInv

----------------------------------------------------------------------------
(***************************************************************************)
(* A command is written                                                    *)
(***************************************************************************)
LEMMA WriteTypes ==
    ASSUME ModemIInv, Write(step), step # "idle",
           pdu_flag' \in {0, 1}, converted' \in BOOLEAN
    PROVE  ModemTypes'
<1>1. [what |-> step, to |-> contact, part |-> part] \in Asked
  BY DEF ModemIInv, ModemTypes, ModemTypeOK, Asked, Steps
<1>2. todo' \in Seq(Asked) /\ Len(todo') <= MaxOwed
  BY <1>1, ModemAssumption DEF ModemIInv, ModemTypes, Write
<1>3. QED BY <1>2 DEF ModemIInv, ModemTypes, ModemTypeOK, Write

LEMMA WriteDialogue ==
    ASSUME ModemIInv, Write(step) PROVE Dialogue' /\ (~delayed => Waiting /\ Waiting')
<1>1. ~asked /\ delayed' = delayed
  BY DEF Write
<1>2. ASSUME ~delayed PROVE Waiting /\ Waiting'
  <2>1. Waiting
    BY <1>1, <1>2, Silent
  <2>2. QED BY <2>1 DEF Waiting, Write
<1>3. QED BY <1>1, <1>2 DEF Dialogue

LEMMA WriteRecords ==
    ASSUME ModemIInv, Write(step) PROVE Records'
BY WriteDialogue DEF ModemIInv, Records, Says, NotYet, Sms, Write

LEMMA CommandInv == ASSUME ModemIInv, Command PROVE ModemIInv'
<1>1. Write(step) /\ step \notin {"idle", "CMGS"} /\ UNCHANGED <<pdu_flag, converted>>
  BY DEF Command
<1>2. ModemTypes'
  BY <1>1, WriteTypes DEF ModemIInv, ModemTypes, ModemTypeOK
<1>3. FlagOfMessage'
  BY <1>1 DEF ModemIInv, FlagOfMessage, Write, Sms
<1>4. QED BY <1>1, <1>2, <1>3, WriteDialogue, WriteRecords DEF ModemIInv

LEMMA BeginInv == ASSUME ModemIInv, Begin PROVE ModemIInv'
<1>1. Write(step) /\ step = "CMGS" /\ pdu_flag' = 1 /\ converted' = (pdu_flag = 0)
  BY DEF Begin
<1>2. ModemTypes'
  BY <1>1, WriteTypes
<1>3. FlagOfMessage'
  BY <1>1 DEF ModemIInv, FlagOfMessage, Write, Sms
<1>4. QED BY <1>1, <1>2, <1>3, WriteDialogue, WriteRecords DEF ModemIInv

----------------------------------------------------------------------------
(***************************************************************************)
(* The modem deals with a command                                          *)
(***************************************************************************)
Words == {"OK", "ERROR", "CSCA", ">"}

LEMMA AnswerType ==
    ASSUME NEW c \in Asked, NEW good \in BOOLEAN PROVE Answers(c, good) \in Seq(Words)
<1>1. Answers(c, good) \in {<<>>, <<"ERROR">>, <<">">>, <<"CSCA", "OK">>, <<"OK">>}
  BY Zenon DEF Answers
<1>2. /\ <<>> \in Seq(Words) /\ <<"ERROR">> \in Seq(Words) /\ <<">">> \in Seq(Words)
      /\ <<"CSCA", "OK">> \in Seq(Words) /\ <<"OK">> \in Seq(Words)
  BY DEF Words
<1>3. QED BY <1>1, <1>2

LEMMA AnswerTo ==
    ASSUME NEW c, NEW good \in BOOLEAN, prompt \in BOOLEAN, prompt <=> c.what = "packet",
           c.what \in {"CMGS", "packet"}
    PROVE  Answers(c, good) = IF ~good THEN <<"ERROR">>
                              ELSE IF c.what = "CMGS" THEN <<">">> ELSE <<"OK">>
<1>1. ~(prompt /\ c.what # "packet") /\ ~(prompt # (c.what = "packet"))
  OBVIOUS
<1>2. c.what # "CMGS" => c.what = "packet" /\ "packet" # "CSCA" /\ "packet" # "CMGS"
  OBVIOUS
<1>3. QED BY <1>1, <1>2, Zenon DEF Answers

LEMMA DealInv == ASSUME ModemIInv, Deal PROVE ModemIInv'
<1> USE DEF sender
<1>1. PICK good \in BOOLEAN :
        LET c == Head(todo) IN
        /\ line' = line \o Answers(c, good)
        /\ prompt' = IF prompt THEN c.what # "packet" ELSE c.what = "CMGS" /\ good
        /\ taken' = IF prompt /\ c.what = "packet" /\ good /\ c.part = 1
                    THEN taken \cup {c.to} ELSE taken
  BY DEF Deal
<1>2. Head(todo) \in Asked /\ Tail(todo) \in Seq(Asked) /\ Len(Tail(todo)) <= MaxOwed
  BY ModemAssumption DEF ModemIInv, ModemTypes, ModemTypeOK, Deal
<1>3. ModemTypes'
  <2>1. line' \in Seq(Words)
    BY <1>1, <1>2, AnswerType DEF ModemIInv, ModemTypes, Words
  <2>2. taken' \subseteq People
    BY <1>1, <1>2 DEF ModemIInv, ModemTypes, ModemTypeOK, Asked
  <2>3. prompt' \in BOOLEAN
    BY <1>1 DEF ModemIInv, ModemTypes, ModemTypeOK
  <2>4. QED BY <1>2, <2>1, <2>2, <2>3 DEF ModemIInv, ModemTypes, ModemTypeOK, Deal, Words
<1>4. FlagOfMessage'
  BY DEF ModemIInv, FlagOfMessage, Deal, Sms
<1>5. CASE delayed
  BY <1>3, <1>4, <1>5 DEF ModemIInv, Dialogue, Records, Deal
<1>6. CASE ~delayed
  <2>1. /\ asked /\ line = <<>> /\ (prompt <=> step = "packet")
        /\ todo = <<[what |-> step, to |-> contact, part |-> part]>>
    BY <1>6 DEF ModemIInv, Dialogue, Waiting, Answered, Deal
  <2>2. todo' = <<>> /\ Head(todo) = [what |-> step, to |-> contact, part |-> part]
    BY <2>1 DEF Deal
  <2>3. line' = Answers([what |-> step, to |-> contact, part |-> part], good)
    <3>1. Answers(Head(todo), good) \in Seq(Words)
      BY <1>2, AnswerType
    <3>2. QED BY <1>1, <2>1, <2>2, <3>1
  <2>4. /\ prompt' <=> (step = "CMGS" /\ good)
        /\ taken' = IF step = "packet" /\ good /\ part = 1 THEN taken \cup {contact} ELSE taken
    <3>1. Head(todo).what = step /\ Head(todo).to = contact /\ Head(todo).part = part
      BY <2>2
    <3>2. prompt' <=> (step = "CMGS" /\ good)
      <4>1. CASE step = "packet"
        BY <1>1, <2>1, <3>1, <4>1
      <4>2. CASE step # "packet"
        BY <1>1, <2>1, <3>1, <4>2
      <4>3. QED BY <4>1, <4>2
    <3>3. taken' = IF step = "packet" /\ good /\ part = 1 THEN taken \cup {contact} ELSE taken
      BY <1>1, <2>1, <3>1
    <3>4. QED BY <3>2, <3>3
  <2>5. step # "idle" /\ step \in Steps
    BY <2>1 DEF ModemIInv, FlagOfMessage, ModemTypes, ModemTypeOK, Steps
  <2>6. Answered'
    <3> DEFINE c == [what |-> step, to |-> contact, part |-> part]
    <3>1. step \in {"CMGS", "packet"} =>
              line' = IF ~good THEN <<"ERROR">> ELSE IF step = "CMGS" THEN <<">">> ELSE <<"OK">>
      <4>1. prompt \in BOOLEAN /\ c.what = step
        BY DEF ModemIInv, ModemTypes, ModemTypeOK
      <4>2. QED BY <2>1, <2>3, <4>1, AnswerTo
    <3>2. text # "empty" /\ step = "packet" /\ part = 1 => contact \notin taken
      BY <1>6, <2>1 DEF ModemIInv, Records, Sms, Waiting
    <3>4. QED BY <2>1, <2>2, <2>4, <3>1, <3>2 DEF Answered, Deal, Sms
  <2>7. Records'
    BY <2>1, <2>2, <2>4, <1>6 DEF ModemIInv, ModemTypes, ModemTypeOK, Records, Says, NotYet, Sms, Waiting, Deal, People
  <2>8. QED BY <1>3, <1>4, <2>6, <2>7 DEF ModemIInv, Dialogue
<1>7. QED BY <1>5, <1>6 DEF ModemIInv, ModemTypes, ModemTypeOK

----------------------------------------------------------------------------
(***************************************************************************)
(* An answer is read                                                       *)
(***************************************************************************)
LEMMA GoodAnswers ==
    /\ step = "CMGS" => Good(Range(<<">">>)) /\ ~Good(Range(<<"ERROR">>))
    /\ step = "packet" => Good(Range(<<"OK">>)) /\ ~Good(Range(<<"ERROR">>))
<1>1. \A word : Range(<<word>>) = {word}
  BY DEF Range
<1>2. \A tmp : step = "CMGS" => (Good(tmp) <=> tmp \cap {"OK", ">"} # {})
  BY Zenon DEF Good
<1>3. "packet" # "CMGS" /\ "packet" # "CSCA"
  OBVIOUS
<1>4. \A tmp : step = "packet" => (Good(tmp) <=> "OK" \in tmp)
  BY <1>3, Zenon DEF Good
<1>5. QED BY <1>1, <1>2, <1>4

\* What an answer that was not late says of modem and contact.
LEMMA InTime ==
    ASSUME ModemIInv, Read, ~delayed' PROVE ~delayed /\ todo = <<>> /\ Answered /\ ~Waiting
<1>1. ~delayed /\ todo = <<>> /\ asked
  BY Zenon DEF Read
<1>2. ~Waiting
  BY <1>1 DEF Waiting
<1>3. QED BY <1>1, <1>2 DEF ModemIInv, Dialogue

LEMMA Heard ==
    ASSUME ModemIInv, Read, ~delayed', Sms
    PROVE  /\ prompt <=> (step = "CMGS" /\ Good(Range(line)))
           /\ text # "empty" =>
                 /\ send_status[contact] = 2
                 /\ part = 2 => contact \in taken
                 /\ part = 1 /\ step = "packet" /\ Good(Range(line)) => contact \in taken
                 /\ part = 1 /\ ~(step = "packet" /\ Good(Range(line))) => contact \notin taken
<1>1. prompt <=> (step = "CMGS" /\ Good(Range(line)))
  BY InTime, GoodAnswers DEF Answered, Sms
<1>2. part = 1 /\ step = "packet" /\ Good(Range(line)) => contact \in taken
  BY InTime, GoodAnswers DEF Answered, Sms
<1>3. text # "empty" /\ part = 1 /\ ~(step = "packet" /\ Good(Range(line))) => contact \notin taken
  BY InTime, GoodAnswers DEF Answered, Sms, ModemIInv, Records
<1>4. text # "empty" => send_status[contact] = 2 /\ (part = 2 => contact \in taken)
  BY InTime DEF Sms, ModemIInv, Records
<1>5. QED BY <1>1, <1>2, <1>3, <1>4

\* What every read leaves behind.
LEMMA ReadLeaves ==
    ASSUME ModemIInv, Read
    PROVE  /\ asked' = FALSE /\ line' = <<>> /\ line' \in Seq(Words)
           /\ todo' = todo /\ prompt' = prompt /\ taken' = taken
           /\ delayed' \in BOOLEAN /\ step # "idle"
           /\ ~delayed' => (Waiting' <=> (prompt <=> step' = "packet"))
<1>1. /\ asked' = FALSE /\ line' = <<>> /\ todo' = todo /\ prompt' = prompt /\ taken' = taken
  BY DEF Read
<1>2. delayed' \in BOOLEAN
  BY Zenon DEF Read
<1>3. step # "idle"
  BY DEF Read, ModemIInv, FlagOfMessage
<1>4. ~delayed' => todo = <<>>
  BY InTime
<1>5. line' \in Seq(Words)
  BY <1>1
<1>6. QED BY <1>1, <1>2, <1>3, <1>4, <1>5 DEF Waiting

LEMMA PreludeReadInv == ASSUME ModemIInv, Read, ~Sms PROVE ModemIInv'
<1> DEFINE heard == Good(Range(line))
<1> HIDE DEF heard
<1>1. step \in {"AT", "CSCA", "CMGF"} /\ pdu_flag = 0 /\ part = 1
  BY ReadLeaves DEF ModemIInv, ModemTypes, ModemTypeOK, FlagOfMessage, Sms
<1>2. /\ heard => step' \in {"CSCA", "CMGF", "CMGS"} /\ UNCHANGED send_status
      /\ ~heard => step' = "idle" /\ send_status' \in [People -> {1, 2}]
      /\ UNCHANGED <<contact, part, text, rest, pdu_flag, converted>>
  <2>1. CASE heard
    BY <1>1, <2>1 DEF Read, Prelude, heard
  <2>2. CASE ~heard
    <3>1. PICK some \in SUBSET People :
             send_status' = [c \in People |-> IF c \in some THEN 1 ELSE 2]
      BY <1>1, <2>2 DEF Read, heard
    <3>2. step' = "idle" /\ UNCHANGED <<contact, part, text, rest, pdu_flag, converted>>
      BY <1>1, <2>2 DEF Read, heard
    <3>3. QED BY <2>2, <3>1, <3>2
  <2>3. QED BY <2>1, <2>2
<1>3. ModemTypes'
  <2>1. send_status \in [People -> 0..2]
    BY DEF ModemIInv, ModemTypes, ModemTypeOK
  <2>2. send_status' \in [People -> 0..2]
    <3>1. CASE heard
      BY <1>2, <2>1, <3>1
    <3>2. CASE ~heard
      BY <1>2, <3>2
    <3>3. QED BY <3>1, <3>2
  <2>3. step' \in {"CSCA", "CMGF", "CMGS", "idle"}
    BY <1>2
  <2>4. QED BY <1>2, <2>2, <2>3, ReadLeaves DEF ModemIInv, ModemTypes, ModemTypeOK, Words
<1>4. FlagOfMessage'
  BY <1>1, <1>2, ReadLeaves DEF FlagOfMessage, Sms
<1>5. Dialogue'
  BY <1>1, <1>2, ReadLeaves, InTime DEF Dialogue, Answered, Sms
<1>6. Records'
  <2> SUFFICES ASSUME ~delayed', text # "empty" PROVE Records'
    BY <1>2 DEF Records
  <2>1. contact = 1 /\ \A c \in People : NotYet(c)
    BY <1>1, InTime DEF ModemIInv, Records
  <2>2. taken' = taken
    BY ReadLeaves
  <2>3. CASE heard
    BY <1>1, <1>2, <2>1, <2>2, <2>3 DEF ModemIInv, ModemTypes, ModemTypeOK, Records, NotYet, Says, Sms, People
  <2>4. CASE ~heard
    BY <1>1, <1>2, <2>1, <2>2, <2>4 DEF Records, NotYet, Says, Sms
  <2>5. QED BY <2>3, <2>4
<1>7. QED BY <1>3, <1>4, <1>5, <1>6 DEF ModemIInv

\* ">" arrives, and the packet is next.
LEMMA PromptReadInv ==
    ASSUME ModemIInv, Read, step = "CMGS", Good(Range(line)) PROVE ModemIInv'
<1>1. /\ step' = "packet"
      /\ UNCHANGED <<contact, part, text, rest, pdu_flag, converted, send_status>>
  BY DEF Read, Prelude
<1>2. ModemTypes'
  BY <1>1, ReadLeaves DEF ModemIInv, ModemTypes, ModemTypeOK, Words
<1>3. FlagOfMessage'
  BY <1>1, ReadLeaves DEF ModemIInv, FlagOfMessage, Sms, Read
<1>4. Dialogue'
  BY <1>1, ReadLeaves, Heard DEF Dialogue, Sms
<1>5. Records'
  BY <1>1, ReadLeaves, InTime, Heard DEF ModemIInv, Records, Says, NotYet, Sms
<1>6. QED BY <1>2, <1>3, <1>4, <1>5 DEF ModemIInv

\* The first part of a long text is taken.
LEMMA SecondPartInv ==
    ASSUME ModemIInv, Read, step = "packet", Good(Range(line)), SecondPart PROVE ModemIInv'
<1>1. /\ part' = 2 /\ step' = "CMGS" /\ rest' \in {"empty", "short"}
      /\ UNCHANGED <<contact, text, pdu_flag, converted, send_status>>
  BY DEF SecondPart
<1>2. ModemTypes'
  BY <1>1, ReadLeaves DEF ModemIInv, ModemTypes, ModemTypeOK, Words
<1>3. FlagOfMessage'
  BY <1>1, ReadLeaves DEF FlagOfMessage, Sms
<1>4. Dialogue'
  BY <1>1, ReadLeaves, Heard DEF Dialogue, Sms
<1>5. Records'
  <2>1. part \in {1, 2}
    BY DEF ModemIInv, ModemTypes, ModemTypeOK
  <2> SUFFICES ASSUME ~delayed', text # "empty" PROVE Records'
    BY <1>1 DEF Records
  <2>2. ~delayed /\ Sms /\ taken' = taken
    BY InTime, ReadLeaves DEF Sms
  <2>3. send_status[contact] = 2 /\ contact \in taken
    BY <2>1, <2>2, Heard
  <2>4. /\ \A c \in People : c < contact => Says(c)
        /\ \A c \in People : c > contact => NotYet(c)
    BY <2>2 DEF ModemIInv, Records
  <2>5. QED BY <1>1, <2>2, <2>3, <2>4 DEF Records, Says, NotYet, Sms
<1>6. QED BY <1>2, <1>3, <1>4, <1>5 DEF ModemIInv

\* The message is over, well or not.
LEMMA EndReadInv ==
    ASSUME ModemIInv, Read, Sms, NEW ret \in {0, 1}, Return(ret, 0),
           ret = 0 <=> step = "packet" /\ Good(Range(line)),
           ret = 1 <=> ~Good(Range(line))
    PROVE  ModemIInv'
<1>1. pdu_flag' = 0 /\ part' = 1 /\ NextContact /\ UNCHANGED <<text, rest, converted>>
  BY DEF Return
<1>2. ModemTypes'
  BY <1>1, ReadLeaves, ReturnType DEF ModemIInv, ModemTypes, ModemTypeOK, Words
<1>3. FlagOfMessage'
  BY <1>1, ReadLeaves, ReturnType DEF FlagOfMessage, Sms
<1>4. Dialogue'
  BY ReadLeaves, ReturnType, Heard DEF Dialogue
<1>5. Records'
  <2>1. part \in {1, 2}
    BY DEF ModemIInv, ModemTypes, ModemTypeOK
  <2>2. ~delayed' /\ text # "empty" =>
            /\ send_status'[contact] = 0 => contact \in taken
            /\ send_status'[contact] = 1 => contact \notin taken
    BY <2>1, ReturnType, Heard
  <2>3. QED BY <1>1, <2>2, InTime, ReadLeaves, ReturnType, TurnRecords
<1>6. QED BY <1>2, <1>3, <1>4, <1>5 DEF ModemIInv

LEMMA ReadInv == ASSUME ModemIInv, Read PROVE ModemIInv'
<1>1. CASE ~Sms
  BY <1>1, PreludeReadInv
<1>2. CASE Sms /\ ~Good(Range(line))
  <2>1. Return(1, 0)
    BY <1>2 DEF Read, Sms, Fail
  <2>2. QED BY <1>2, <2>1, EndReadInv
<1>3. CASE step = "CMGS" /\ Good(Range(line))
  BY <1>3, PromptReadInv
<1>4. CASE step = "packet" /\ Good(Range(line))
  <2>1. SecondPart \/ Return(0, 0)
    BY <1>4 DEF Read
  <2>2. QED BY <1>4, <2>1, SecondPartInv, EndReadInv DEF Sms
<1>5. QED BY <1>1, <1>2, <1>3, <1>4 DEF Sms

----------------------------------------------------------------------------
\* Every step of Modem keeps the invariant.
LEMMA ModemNextInv == ASSUME ModemIInv, [ModemNext]_modemVars PROVE ModemIInv'
<1>1. CASE ModemNext
  BY <1>1, SendToContactInv, NoBlockInv, EmptyInv, CommandInv, BeginInv, ReadInv, DealInv DEF ModemNext
<1>2. CASE UNCHANGED modemVars
  BY <1>2 DEF modemVars, ModemIInv, ModemTypes, ModemTypeOK, FlagOfMessage, Dialogue, Waiting, Answered,
              Records, Says, NotYet, Sms
<1>3. QED BY <1>1, <1>2

\* What a message needs to be told truly is kept by every step.
THEOREM ModemInductiveInvariant == ModemSpec => []ModemIInv
<1>1. ModemInit => ModemIInv
  BY ModemInitInv
<1>2. ModemIInv /\ [ModemNext]_modemVars => ModemIInv'
  BY ModemNextInv
<1>3. QED BY <1>1, <1>2, PTL DEF ModemSpec

\* ModemTypes of the variables (send_to_contact, modem.c), for any number of contacts.
THEOREM ModemTypeCorrect == ModemSpec => []ModemTypeOK
<1>1. ModemIInv => ModemTypeOK
  BY DEF ModemIInv, ModemTypes
<1>2. QED BY <1>1, ModemInductiveInvariant, PTL

\* send_to_contact and send_sms: when a round of messages is over, and while it goes on, what is
\* recorded of a contact is what the modem did with its message, as long as no answer was late;
\* and the static pdu_flag never outlives a message.
THEOREM SmsRecords == ModemSpec => []SmsResult
<1>1. ModemIInv => SmsResult
  <2> SUFFICES ASSUME ModemIInv PROVE SmsResult
    OBVIOUS
  <2>1. step \in Steps /\ contact \in People /\ Contacts \in Nat
    BY ModemAssumption DEF ModemIInv, ModemTypes, ModemTypeOK, Steps
  <2>2. ASSUME ~delayed, text # "empty", NEW c \in People PROVE Says(c)
    <3>1. CASE step = "idle"
      BY <2>2, <3>1 DEF ModemIInv, Records
    <3>2. CASE step \in {"AT", "CSCA", "CMGF"}
      BY <2>2, <3>2 DEF ModemIInv, Records, NotYet, Says
    <3>3. CASE Sms
      <4>1. c < contact \/ c = contact \/ c > contact
        BY <2>1 DEF People
      <4>2. QED BY <2>2, <3>3, <4>1 DEF ModemIInv, Records, NotYet, Says
    <3>4. QED BY <2>1, <3>1, <3>2, <3>3 DEF Steps, Sms
  <2>3. QED BY <2>2 DEF SmsResult, Says, ModemIInv, FlagOfMessage, Sms
<1>2. QED BY <1>1, ModemInductiveInvariant, PTL

----------------------------------------------------------------------------
(***************************************************************************)
(* Mails                                                                   *)
(***************************************************************************)
Refusals   == {"550", "530"}
Codes      == {"220", "221", "235", "250", "334", "354"} \cup Refusals
Commands   == DOMAIN valid_reply_code
InTurn     == [cmd |-> cmd, to |-> receiver]
Took(c, i) == [cmd |-> c, to |-> i] \in accepted

\* What an answer before this command leaves in the buffer.
CodesBefore ==
    [INIT |-> {}, EHLO |-> {"220"}, STARTTLS |-> {"250"}, AUTH_LOGIN |-> {"250"},
     USER |-> {"334"}, PASSWORD |-> {"334"}, AUTH_PLAIN |-> {"250"}, MAIL |-> {"250", "235"},
     RCPT |-> {"250"}, DATA |-> {"250"}, DATAEND |-> {"354"}]

SmtpTypes ==
    /\ SmtpTypeOK
    /\ owed \in Seq([cmd : Commands, to : 1..Receivers]) /\ wire \in Seq(Codes \cup {"words", "end"})
    /\ at # "over" /\ cmd # "QUIT" => Code(recv_buf) \in CodesBefore[cmd] \cup {"none"}
    /\ cmd # "RCPT" => receiver = 1
    /\ cmd = "STARTTLS" => security = "USE_TLS"
    /\ closed => owed = <<>>
    /\ at = "connect" => cmd = "INIT" /\ ~closed

\* As long as no answer was late: one command is under way at a time, and of its answer what
\* has not been read.
InStep ==
    /\ at \in {"connect", "send"} => owed = <<>> /\ wire = <<>>
    /\ at = "wait" =>
          \/ owed = <<InTurn>> /\ wire = <<>>
          \/ owed = <<>> /\ wire = <<>> /\ (closed \/ cut)
          \/ owed = <<>> /\ wire = <<"end">> /\ cut
          \/ /\ owed = <<>>
             /\ \E code \in {valid_reply_code[cmd]} \cup Refusals :
                   /\ wire = <<code, "end">> \/ (wire = <<"words", code, "end">> /\ cmd = "EHLO")
                   /\ code \in Refusals \/ InTurn \in accepted

\* What the server has taken before a command is sent.
TookBefore ==
    /\ cmd \in {"RCPT", "DATA", "DATAEND"} => Took("MAIL", 1)
    /\ cmd = "RCPT" => \A i \in 1..Receivers : i < receiver => Took("RCPT", i)
    /\ cmd \in {"DATA", "DATAEND"} => \A i \in 1..Receivers : Took("RCPT", i)
    /\ cmd = "DATAEND" => Took("DATA", 1)

\* When an answer was late, the client is ahead of the server.  Answers come one after the
\* other, and a read looks at the first.
Lines ==
    /\ \A i \in 1..Len(wire) : IF wire[i] \in Codes THEN i < Len(wire) /\ wire[i + 1] = "end"
                               ELSE wire[i] = "end"
    /\ \A i \in 1..Len(wire) : wire[i] = "end" /\ i < Len(wire) => wire[i + 1] \in Codes
    /\ wire # <<>> => wire[1] \in Codes

\* The first answer to be read is that of command c, or there will be none.
FirstIs(c, codes) == \/ wire # <<>> /\ wire[1] \in codes
                     \/ wire = <<>> /\ owed # <<>> /\ Head(owed).cmd = c
                     \/ wire = <<>> /\ closed

\* DATA is behind all others, and so is its answer.
DataIsLast ==
    /\ \A i \in 1..Len(owed) : /\ owed[i].cmd \in {"MAIL", "RCPT", "DATA"}
                               /\ owed[i].cmd = "MAIL" => owed[i].to = 1
                               /\ owed[i].cmd = "DATA" => /\ i = Len(owed) /\ owed[i].to = 1
                                                          /\ cmd = "DATA" /\ at = "wait"
    /\ \A i \in 1..Len(wire) :
          wire[i] = "354" => /\ i = Len(wire) - 1 /\ owed = <<>> /\ Took("DATA", 1)
                             /\ cmd = "DATA" /\ at = "wait"

Ahead ==
    /\ cmd \in {"PASSWORD", "RCPT", "DATA", "DATAEND", "QUIT"}
    /\ cmd = "PASSWORD" => /\ Lines /\ FirstIs("USER", {"334"} \cup Refusals)
                           /\ \A i \in 1..Len(owed) : owed[i].cmd \in {"USER", "PASSWORD"}
    /\ cmd \in {"RCPT", "DATA"} =>
          Lines /\ DataIsLast /\ (Took("MAIL", 1) \/ FirstIs("MAIL", Refusals))
    /\ cmd = "DATAEND" => InStep /\ Took("MAIL", 1) /\ Took("DATA", 1)

Mailing ==
    at # "over" => /\ ~late => InStep /\ TookBefore
                   /\ late /\ ~cut => Ahead

SmtpIInv == SmtpTypes /\ Mailing /\ MailAccepted


----------------------------------------------------------------------------
LEMMA Names ==
    /\ Commands = {"INIT", "EHLO", "STARTTLS", "AUTH_LOGIN", "USER", "PASSWORD", "AUTH_PLAIN",
                   "MAIL", "RCPT", "DATA", "DATAEND", "QUIT"}
    /\ \A c \in Commands : valid_reply_code[c] \in Codes \ Refusals
    /\ "none" \notin Codes /\ "words" \notin Codes /\ "end" \notin Codes
<1>1. Commands = {"INIT", "EHLO", "STARTTLS", "AUTH_LOGIN", "USER", "PASSWORD", "AUTH_PLAIN",
                  "MAIL", "RCPT", "DATA", "DATAEND", "QUIT"}
  BY DEF Commands, valid_reply_code
<1>2. \A c \in Commands : valid_reply_code[c] \in Codes \ Refusals
  BY <1>1 DEF valid_reply_code, Codes, Refusals
<1>3. QED BY <1>1, <1>2 DEF Codes, Refusals

\* The final lines of a buffer, at the places of their codes.
Finals(buf) == {i \in 1..Len(buf) - 1 : buf[i] \notin {"words", "end"} /\ buf[i + 1] = "end"}

LEMMA CodeIs ==
    ASSUME NEW buf, NEW i, Len(buf) \in Nat, i \in Finals(buf), \A j \in Finals(buf) : i <= j
    PROVE  Code(buf) = buf[i]
<1>1. Min(Finals(buf)) = i
  <2>1. \A x \in Finals(buf) : (\A y \in Finals(buf) : x <= y) <=> x = i
    BY DEF Finals
  <2>2. QED BY <2>1 DEF Min
<1>2. QED BY <1>1 DEF Code, Finals

LEMMA NoCode == ASSUME NEW buf, Finals(buf) = {} PROVE Code(buf) = "none"
BY DEF Code, Finals

LEMMA Pieces ==
    ASSUME NEW c \in Codes
    PROVE  /\ Code(<<>>) = "none" /\ Code(<<"end">>) = "none" /\ Code(<<"words">>) = "none"
           /\ Code(<<c>>) = "none" /\ Code(<<"words", c>>) = "none"
           /\ Code(<<c, "end">>) = c /\ Code(<<"words", c, "end">>) = c
<1>1. c \notin {"words", "end"}
  BY Names
<1>2. \A x : Finals(<<>>) = {} /\ Finals(<<x>>) = {} 
  BY DEF Finals
<1>3. Finals(<<"words", c>>) = {} /\ Finals(<<c, "end">>) = {1} /\ Finals(<<"words", c, "end">>) = {2}
  BY <1>1 DEF Finals
<1>4. Code(<<c, "end">>) = c /\ Code(<<"words", c, "end">>) = c
  BY <1>3, CodeIs
<1>5. QED BY <1>2, <1>3, <1>4, NoCode

LEMMA FirstLine ==
    ASSUME NEW buf \in Seq(Codes \cup {"words", "end"}), Len(buf) >= 2, buf[1] \in Codes,
           buf[2] = "end"
    PROVE  Code(buf) = buf[1]
<1>1. 1 \in Finals(buf)
  BY Names DEF Finals
<1>2. \A j \in Finals(buf) : 1 <= j
  BY DEF Finals
<1>3. QED BY <1>1, <1>2, CodeIs

LEMMA Short ==
    ASSUME NEW s, NEW m \in Int
    PROVE  /\ SubSeq(s, m, m) = <<s[m]>> /\ SubSeq(s, m, m + 1) = <<s[m], s[m + 1]>>
           /\ SubSeq(s, m, m + 2) = <<s[m], s[m + 1], s[m + 2]>>
           /\ SubSeq(s, m + 1, m) = <<>>
<1> DEFINE S == {s[m], s[m + 1], s[m + 2]}
<1>1. SubSeq(s, m, m) = <<s[m]>>
  <2> DEFINE t == SubSeq(s, m, m)
             u == <<s[m]>>
  <2>1. t \in Seq(S) /\ Len(t) = 1 /\ t[1] = s[m]
    <3>1. \A i \in m..m : s[i] \in S
      OBVIOUS
    <3>2. QED BY <3>1, SubSeqProperties
  <2>2. u \in Seq(S) /\ Len(u) = 1 /\ u[1] = s[m]
    OBVIOUS
  <2> HIDE DEF t, u, S
  <2>3. \A i \in 1..Len(t) : t[i] = u[i]
    BY <2>1, <2>2
  <2>4. t = u
    BY <2>1, <2>2, <2>3, SeqEqual
  <2>5. QED BY <2>4 DEF t, u
<1>2. SubSeq(s, m, m + 1) = <<s[m], s[m + 1]>>
  <2> DEFINE t == SubSeq(s, m, m + 1)
             u == <<s[m], s[m + 1]>>
  <2>1. t \in Seq(S) /\ Len(t) = 2 /\ t[1] = s[m] /\ t[2] = s[m + 1]
    <3>1. \A i \in m..(m + 1) : s[i] \in S
      OBVIOUS
    <3>2. QED BY <3>1, SubSeqProperties
  <2>2. u \in Seq(S) /\ Len(u) = 2 /\ u[1] = s[m] /\ u[2] = s[m + 1]
    OBVIOUS
  <2> HIDE DEF t, u, S
  <2>3. \A i \in 1..Len(t) : t[i] = u[i]
    BY <2>1, <2>2
  <2>4. t = u
    BY <2>1, <2>2, <2>3, SeqEqual
  <2>5. QED BY <2>4 DEF t, u
<1>3. SubSeq(s, m, m + 2) = <<s[m], s[m + 1], s[m + 2]>>
  <2> DEFINE t == SubSeq(s, m, m + 2)
             u == <<s[m], s[m + 1], s[m + 2]>>
  <2>1. t \in Seq(S) /\ Len(t) = 3 /\ t[1] = s[m] /\ t[2] = s[m + 1] /\ t[3] = s[m + 2]
    <3>1. \A i \in m..(m + 2) : s[i] \in S
      OBVIOUS
    <3>2. QED BY <3>1, SubSeqProperties
  <2>2. u \in Seq(S) /\ Len(u) = 3 /\ u[1] = s[m] /\ u[2] = s[m + 1] /\ u[3] = s[m + 2]
    OBVIOUS
  <2> HIDE DEF t, u, S
  <2>3. \A i \in 1..Len(t) : t[i] = u[i]
    BY <2>1, <2>2
  <2>4. t = u
    BY <2>1, <2>2, <2>3, SeqEqual
  <2>5. QED BY <2>4 DEF t, u
<1>4. SubSeq(s, m + 1, m) = <<>>
  BY SubSeqEmpty
<1>5. QED BY <1>1, <1>2, <1>3, <1>4

\* What comes after a command that was answered as it should.
Follows ==
    \/ cmd = "INIT" /\ cmd' = "EHLO" /\ receiver' = 1
    \/ /\ cmd = "EHLO" /\ cmd' \in {"STARTTLS", "AUTH_LOGIN", "AUTH_PLAIN", "MAIL"} /\ receiver' = 1
       /\ cmd' = "STARTTLS" => security = "USE_TLS"
    \/ cmd = "STARTTLS" /\ cmd' = "EHLO" /\ receiver' = 1
    \/ cmd = "AUTH_LOGIN" /\ cmd' = "USER" /\ receiver' = 1
    \/ cmd = "USER" /\ cmd' = "PASSWORD" /\ receiver' = 1
    \/ cmd \in {"PASSWORD", "AUTH_PLAIN"} /\ cmd' = "MAIL" /\ receiver' = 1
    \/ cmd = "MAIL" /\ cmd' = "RCPT" /\ receiver' = 1
    \/ cmd = "RCPT" /\ receiver < Receivers /\ cmd' = "RCPT" /\ receiver' = receiver + 1
    \/ cmd = "RCPT" /\ receiver = Receivers /\ cmd' = "DATA" /\ receiver' = 1
    \/ cmd = "DATA" /\ cmd' = "DATAEND" /\ receiver' = 1

\* receive_response and what its caller does with the result.
Waits(buf)    == Code(buf) = "none" /\ UNCHANGED <<at, cmd, receiver, result>>
Fails(buf)    == /\ Code(buf) # "none" /\ at' = "over" /\ result' = "error"
                 /\ UNCHANGED <<cmd, receiver>>
Succeeds(buf) == /\ cmd = "DATAEND" /\ Code(buf) = "250" /\ at' = "over" /\ result' = "ok"
                 /\ UNCHANGED <<cmd, receiver>>
GoesOn(buf)   == Code(buf) = valid_reply_code[cmd] /\ at' = "send" /\ UNCHANGED result /\ Follows
Quits(buf)    == /\ cmd = "EHLO" /\ Code(buf) \notin {"none", "250"} /\ at' = "send"
                 /\ UNCHANGED result /\ cmd' = "QUIT" /\ receiver' = 1

LEMMA ParseCases ==
    ASSUME SmtpTypes, at = "wait", NEW buf, ParseReply(buf)
    PROVE  /\ recv_buf' = buf /\ ssl' \in BOOLEAN /\ (ssl' => security # "NO_SECURITY")
           /\ Waits(buf) \/ Fails(buf) \/ Succeeds(buf) \/ GoesOn(buf) \/ Quits(buf)
<1> USE DEF GoTo, Over
<1>1. recv_buf' = buf /\ cmd \in Commands
  BY DEF ParseReply, SmtpTypes, SmtpTypeOK, Commands
<1>2. ssl' \in BOOLEAN /\ (ssl' => security # "NO_SECURITY")
  <2>1. ssl' = ssl \/ ssl' = (ssl \/ (cmd = "STARTTLS" /\ at' = "send"))
    BY DEF ParseReply
  <2>2. ssl \in BOOLEAN /\ (ssl => security # "NO_SECURITY")
    BY DEF SmtpTypes, SmtpTypeOK
  <2>3. cmd = "STARTTLS" => security # "NO_SECURITY"
    BY DEF SmtpTypes
  <2>4. CASE ssl' = ssl
    BY <2>2, <2>4
  <2>5. CASE ssl' = (ssl \/ (cmd = "STARTTLS" /\ at' = "send"))
    <3>1. CASE ssl
      BY <2>2, <2>5, <3>1
    <3>2. CASE ~ssl
      BY <2>3, <2>5, <3>2
    <3>3. QED BY <3>1, <3>2
  <2>6. QED BY <2>1, <2>4, <2>5
<1>3. CASE Code(buf) = "none"
  BY <1>1, <1>2, <1>3 DEF ParseReply, Waits
<1>4. CASE Code(buf) # "none" /\ Code(buf) # valid_reply_code[cmd]
  <2>1. Refused(Code(buf))
    BY <1>4 DEF ParseReply
  <2>2. CASE cmd = "EHLO"
    BY <1>1, <1>2, <1>4, <2>1, <2>2 DEF Refused, Fails, Quits, valid_reply_code
  <2>3. CASE cmd # "EHLO"
    BY <1>1, <1>2, <1>4, <2>1, <2>3 DEF Refused, Fails
  <2>4. QED BY <1>1, <1>2, <2>2, <2>3
<1>5. CASE Code(buf) # "none" /\ Code(buf) = valid_reply_code[cmd]
  <2>1. Valid(buf)
    BY <1>5 DEF ParseReply
  <2>2. CASE cmd = "EHLO"
    <3>1. Hello(buf)
      BY <2>1, <2>2 DEF Valid
    <3>2. QED BY <1>1, <1>2, <1>5, <2>2, <3>1 DEF Hello, Follows, GoesOn, Fails, SmtpTypes, SmtpTypeOK
  <2>3. CASE cmd = "RCPT"
    <3>1. NextReceiver /\ receiver \in 1..Receivers /\ Receivers \in Nat
      BY <2>1, <2>3, SmtpAssumption DEF Valid, SmtpTypes, SmtpTypeOK
    <3>2. QED BY <1>1, <1>2, <1>5, <2>3, <3>1 DEF NextReceiver, Follows, GoesOn
  <2>4. CASE cmd = "DATAEND"
    BY <1>1, <1>2, <1>5, <2>1, <2>4 DEF Valid, Succeeds, valid_reply_code
  <2>5. CASE cmd \in Commands \ {"EHLO", "RCPT", "DATAEND"}
    <3>1. CASE cmd \in {"INIT", "STARTTLS"}
      BY <1>1, <1>2, <1>5, <2>1, <3>1 DEF Valid, Follows, GoesOn, Fails
    <3>2. CASE cmd \in {"AUTH_LOGIN", "USER"}
      BY <1>1, <1>2, <1>5, <2>1, <3>2 DEF Valid, Follows, GoesOn
    <3>3. CASE cmd \in {"PASSWORD", "AUTH_PLAIN"}
      BY <1>1, <1>2, <1>5, <2>1, <3>3 DEF Valid, Follows, GoesOn
    <3>4. CASE cmd \in {"MAIL", "DATA"}
      BY <1>1, <1>2, <1>5, <2>1, <3>4 DEF Valid, Follows, GoesOn
    <3>5. CASE cmd = "QUIT"
      BY <1>1, <1>2, <1>5, <2>1, <3>5 DEF Valid, Fails
    <3>6. QED BY <1>1, <1>2, <2>5, <3>1, <3>2, <3>3, <3>4, <3>5, Names
  <2>6. QED BY <1>1, <2>2, <2>3, <2>4, <2>5
<1>6. QED BY <1>1, <1>2, <1>3, <1>4, <1>5

\* The types after it, whatever was read.
LEMMA ParseTypes ==
    ASSUME SmtpTypes, at = "wait", NEW buf, ParseReply(buf),
           UNCHANGED <<security, owed, closed>>, late' \in BOOLEAN, cut' \in BOOLEAN,
           wire' \in Seq(Codes \cup {"words", "end"})
    PROVE  SmtpTypes'
<1>1. cmd \in Commands /\ receiver \in 1..Receivers /\ result = "none" /\ Receivers \in Nat
  BY SmtpAssumption DEF SmtpTypes, SmtpTypeOK, Commands
<1>2. at' \in {"wait", "send", "over"} /\ result' \in {"none", "ok", "error"}
      /\ (at' = "over") = (result' # "none")
  BY ParseCases, <1>1 DEF Waits, Fails, Succeeds, GoesOn, Quits
<1>3. cmd' \in Commands /\ receiver' \in 1..Receivers
  BY ParseCases, <1>1, Names DEF Waits, Fails, Succeeds, GoesOn, Quits, Follows
<1>4. SmtpTypeOK'
  BY ParseCases, <1>2, <1>3 DEF SmtpTypes, SmtpTypeOK, Commands
<1>5. at' # "over" /\ cmd' # "QUIT" => Code(recv_buf') \in CodesBefore[cmd'] \cup {"none"}
  <2>1. CASE GoesOn(buf)
    BY ParseCases, <2>1 DEF GoesOn, Follows, CodesBefore, valid_reply_code
  <2>2. QED BY ParseCases, <2>1 DEF Waits, Fails, Succeeds, Quits
<1>6. (cmd' # "RCPT" => receiver' = 1) /\ (cmd' = "STARTTLS" => security' = "USE_TLS")
  BY ParseCases DEF SmtpTypes, Waits, Fails, Succeeds, GoesOn, Quits, Follows
<1>7. QED BY <1>2, <1>4, <1>5, <1>6 DEF SmtpTypes

\* What a step of the server or the network leaves of the client.
LEMMA TypesKept ==
    ASSUME SmtpTypes, UNCHANGED <<security, ssl, cmd, receiver, recv_buf, result>>,
           late' = late, cut' = cut, closed' \in BOOLEAN, closed' => owed' = <<>>,
           at' = "connect" => ~closed',
           at' \in {"connect", "send", "wait", "over"}, at' = at \/ (at # "over" /\ at' = "wait"),
           owed' \in Seq([cmd : Commands, to : 1..Receivers]),
           wire' \in Seq(Codes \cup {"words", "end"})
    PROVE  SmtpTypes'
<1>1. SmtpTypeOK'
  BY DEF SmtpTypes, SmtpTypeOK
<1>2. QED BY <1>1 DEF SmtpTypes

LEMMA SmtpInitInv == SmtpInit => SmtpIInv
<1> SUFFICES ASSUME SmtpInit PROVE SmtpIInv
  OBVIOUS
<1> USE SmtpAssumption DEF SmtpInit
<1>1. Code(recv_buf) = "none"
  <2>1. Finals(<<>>) = {}
    BY DEF Finals
  <2>2. QED BY <2>1, NoCode
<1>2. "INIT" \in Commands
  BY Names
<1>3. SmtpTypeOK
  <2>1. cmd \in DOMAIN valid_reply_code /\ receiver \in 1..Receivers
    BY <1>2 DEF Commands
  <2>2. QED BY <2>1 DEF SmtpTypeOK
<1>4. SmtpTypes
  BY <1>1, <1>3 DEF SmtpTypes
<1>5. Mailing /\ MailAccepted
  BY DEF Mailing, InStep, TookBefore, MailAccepted
<1>6. QED BY <1>4, <1>5 DEF SmtpIInv

LEMMA ConnectInv == ASSUME SmtpIInv, Connect PROVE SmtpIInv'
<1> USE DEF Over
<1>1. cmd = "INIT" /\ receiver = 1 /\ at = "connect" /\ "INIT" \in Commands
      /\ Code(recv_buf) = "none" /\ result = "none" /\ Receivers \in Nat \ {0}
  BY Names, SmtpAssumption DEF SmtpIInv, SmtpTypes, SmtpTypeOK, Connect, CodesBefore
<1>2. CASE at' = "over"
  <2>1. result' = "error" /\ UNCHANGED <<security, ssl, cmd, receiver, recv_buf, owed, wire, closed, late, cut>>
    BY <1>1, <1>2 DEF Connect
  <2>2. SmtpTypeOK'
    BY <1>1, <1>2, <2>1 DEF SmtpIInv, SmtpTypes, SmtpTypeOK
  <2>3. SmtpTypes'
    BY <1>1, <1>2, <2>1, <2>2 DEF SmtpIInv, SmtpTypes
  <2>4. QED BY <1>2, <2>1, <2>3 DEF SmtpIInv, Mailing, MailAccepted
<1>3. CASE at' # "over" /\ ~closed'
  <2>1. /\ at' = "wait" /\ ssl' = (security = "USE_SSL") /\ owed' = <<[cmd |-> "INIT", to |-> 1]>>
        /\ UNCHANGED <<security, cmd, receiver, recv_buf, wire, closed, result, late, cut>>
    BY <1>3 DEF Connect
  <2>2. SmtpTypeOK'
    BY <1>1, <2>1 DEF SmtpIInv, SmtpTypes, SmtpTypeOK
  <2>3. owed' \in Seq([cmd : Commands, to : 1..Receivers])
    <3>1. [cmd |-> "INIT", to |-> 1] \in [cmd : Commands, to : 1..Receivers]
      BY <1>1
    <3>2. QED BY <2>1, <3>1
  <2>4. SmtpTypes'
    BY <1>1, <2>1, <2>2, <2>3 DEF SmtpIInv, SmtpTypes
  <2>5. ~late' => InStep' /\ TookBefore'
    <3>1. ~late' => wire' = <<>>
      BY <1>1, <2>1 DEF SmtpIInv, Mailing, InStep
    <3>2. owed' = <<InTurn'>>
      BY <1>1, <2>1 DEF InTurn
    <3>3. QED BY <1>1, <2>1, <3>1, <3>2 DEF InStep, TookBefore
  <2>6. late' => cut'
    BY <1>1, <2>1 DEF SmtpIInv, Mailing, Ahead
  <2>7. QED BY <1>1, <2>1, <2>4, <2>5, <2>6 DEF SmtpIInv, Mailing, MailAccepted
<1>4. CASE at' # "over" /\ closed'
  <2>1. /\ at' = "wait" /\ owed' = <<>>
        /\ UNCHANGED <<ssl, security, cmd, receiver, recv_buf, wire, result, accepted, late, cut>>
    BY <1>1, <1>4 DEF Connect, SmtpIInv, SmtpTypes
  <2>2. SmtpTypeOK'
    BY <1>1, <1>4, <2>1 DEF SmtpIInv, SmtpTypes, SmtpTypeOK, Connect
  <2>3. ~late' => InStep' /\ TookBefore'
    BY <1>1, <1>4, <2>1 DEF SmtpIInv, Mailing, InStep, TookBefore
  <2>4. late' => cut'
    BY <1>1, <2>1 DEF SmtpIInv, Mailing, Ahead
  <2>5. QED BY <1>1, <1>4, <2>1, <2>2, <2>3, <2>4 DEF SmtpIInv, SmtpTypes, Mailing, MailAccepted
<1>5. QED BY <1>2, <1>3, <1>4

LEMMA SendInv == ASSUME SmtpIInv, Send PROVE SmtpIInv'
<1> USE DEF Over
<1>1. /\ at = "send" /\ cmd \in Commands /\ receiver \in 1..Receivers /\ result = "none"
      /\ owed \in Seq([cmd : Commands, to : 1..Receivers]) /\ (closed => owed = <<>>)
      /\ cmd # "RCPT" => receiver = 1
      /\ UNCHANGED <<security, ssl, cmd, receiver, recv_buf, offers, wire, closed, accepted, late, cut>>
  BY DEF SmtpIInv, SmtpTypes, SmtpTypeOK, Send, Commands
<1>2. CASE at' = "over"
  <2>1. result' = "error" /\ UNCHANGED owed
    BY <1>1, <1>2 DEF Send
  <2>2. SmtpTypeOK'
    BY <1>1, <1>2, <2>1 DEF SmtpIInv, SmtpTypes, SmtpTypeOK
  <2>3. SmtpTypes'
    BY <1>1, <1>2, <2>1, <2>2 DEF SmtpIInv, SmtpTypes
  <2>4. QED BY <1>2, <2>1, <2>3 DEF SmtpIInv, Mailing, MailAccepted
<1>3. CASE at' # "over"
  <2>1. at' = "wait" /\ UNCHANGED result /\ owed' = IF closed THEN owed ELSE Append(owed, InTurn)
    BY <1>3 DEF Send, InTurn
  <2>2. InTurn \in [cmd : Commands, to : 1..Receivers]
    BY <1>1 DEF InTurn
  <2>3. owed' \in Seq([cmd : Commands, to : 1..Receivers]) /\ (closed' => owed' = <<>>)
    <3>1. CASE closed
      BY <1>1, <2>1, <3>1
    <3>2. CASE ~closed
      BY <1>1, <2>1, <2>2, <3>2
    <3>3. QED BY <3>1, <3>2
  <2>4. SmtpTypeOK'
    BY <1>1, <2>1 DEF SmtpIInv, SmtpTypes, SmtpTypeOK
  <2>5. SmtpTypes'
    BY <1>1, <2>1, <2>3, <2>4 DEF SmtpIInv, SmtpTypes
  <2>6. InTurn' = InTurn
    BY <1>1 DEF InTurn
  <2>7. ASSUME InStep PROVE InStep'
    <3>1. owed = <<>> /\ wire = <<>>
      BY <1>1, <2>7 DEF InStep
    <3>2. owed' = <<InTurn'>> \/ (owed' = <<>> /\ closed')
      BY <1>1, <2>1, <2>2, <2>6, <3>1
    <3>3. QED BY <1>1, <2>1, <3>1, <3>2 DEF InStep
  <2>8. ASSUME TookBefore PROVE TookBefore'
    BY <1>1, <2>8 DEF TookBefore, Took
  <2>9. ASSUME Ahead PROVE Ahead'
    <3>1. \A i \in 1..Len(owed') : \/ i \in 1..Len(owed) /\ owed'[i] = owed[i]
                                   \/ i = Len(owed') /\ owed'[i] = InTurn
      BY <1>1, <2>1, <2>2
    <3>2. Len(owed') \in Nat /\ Len(owed') >= Len(owed)
      BY <1>1, <2>1, <2>2
    <3>3. owed # <<>> => owed' # <<>> /\ Head(owed') = Head(owed)
      BY <1>1, <2>1, <2>2
    <3>4. Lines => Lines'
      BY <1>1 DEF Lines
    <3>5. ASSUME NEW c, NEW codes, FirstIs(c, codes) PROVE FirstIs(c, codes)'
      BY <1>1, <3>3, <3>5 DEF FirstIs
    <3>6. CASE cmd = "PASSWORD"
      <4>1. InTurn.cmd = "PASSWORD"
        BY <3>6 DEF InTurn
      <4>2. \A i \in 1..Len(owed') : owed'[i].cmd \in {"USER", "PASSWORD"}
        BY <2>9, <3>1, <3>6, <4>1 DEF Ahead
      <4>3. QED BY <1>1, <2>9, <3>4, <3>5, <3>6, <4>2 DEF Ahead
    <3>7. CASE cmd \in {"RCPT", "DATA"}
      <4>1. InTurn.cmd = cmd /\ InTurn.to = receiver
        BY DEF InTurn
      <4>2. \A i \in 1..Len(owed) : owed[i].cmd # "DATA"
        BY <1>1, <2>9, <3>7 DEF Ahead, DataIsLast
      <4>3. \A i \in 1..Len(wire) : wire[i] # "354"
        BY <1>1, <2>9, <3>7 DEF Ahead, DataIsLast
      <4>4. DataIsLast'
        BY <1>1, <2>1, <2>9, <3>1, <3>7, <4>1, <4>2, <4>3 DEF Ahead, DataIsLast
      <4>5. Took("MAIL", 1) => Took("MAIL", 1)'
        BY <1>1 DEF Took
      <4>6. QED BY <1>1, <2>9, <3>4, <3>5, <3>7, <4>4, <4>5 DEF Ahead
    <3>8. CASE cmd = "DATAEND"
      BY <1>1, <2>7, <2>9, <3>8 DEF Ahead, Took
    <3>9. QED BY <1>1, <2>9, <3>6, <3>7, <3>8 DEF Ahead
  <2>10. Mailing'
    BY <1>1, <2>7, <2>8, <2>9 DEF SmtpIInv, Mailing
  <2>11. QED BY <1>1, <2>1, <2>5, <2>10 DEF SmtpIInv, MailAccepted
<1>4. QED BY <1>2, <1>3

\* Reading in step: a part of the answer without its code, or the answer.
LEMMA ReadInStep ==
    ASSUME SmtpTypes, at = "wait", InStep, NEW n \in 1..Len(wire),
           wire' = SubSeq(wire, n + 1, Len(wire)),
           cut' = (cut \/ wire[n] \notin {"words", "end"}), UNCHANGED <<owed, closed, accepted>>
    PROVE  /\ owed = <<>>
           /\ \/ /\ Code(SubSeq(wire, 1, n)) = "none"
                 /\ UNCHANGED <<at, cmd, receiver>> => InStep'
              \/ /\ Code(SubSeq(wire, 1, n)) \in {valid_reply_code[cmd]} \cup Refusals /\ wire' = <<>>
                 /\ Code(SubSeq(wire, 1, n)) \in Refusals \/ InTurn \in accepted
<1> DEFINE buf == SubSeq(wire, 1, n)
           Empty == owed = <<>> /\ wire' = <<>> /\ cut'
           EndOnly == owed = <<>> /\ wire' = <<"end">> /\ cut'
<1>1. cut \in BOOLEAN /\ cmd \in Commands
  BY DEF SmtpTypes, SmtpTypeOK, Commands
<1>2. ASSUME Empty \/ EndOnly, UNCHANGED <<at, cmd, receiver>> PROVE InStep'
  BY <1>2 DEF InStep
<1>3. PICK code \in {valid_reply_code[cmd]} \cup Refusals :
        \/ owed = <<>> /\ wire = <<"end">> /\ cut
        \/ /\ owed = <<>> /\ (wire = <<code, "end">> \/ (wire = <<"words", code, "end">> /\ cmd = "EHLO"))
           /\ code \in Refusals \/ InTurn \in accepted
  <2>1. wire # <<>>
    OBVIOUS
  <2>2. CASE owed = <<>> /\ wire = <<"end">> /\ cut
    BY <2>2
  <2>3. CASE ~(owed = <<>> /\ wire = <<"end">> /\ cut)
    BY <2>1, <2>3 DEF InStep
  <2>4. QED BY <2>2, <2>3
<1>4. code \in Codes /\ code \notin {"words", "end", "none"}
  BY <1>1, Names DEF Codes, Refusals
<1>5. CASE wire = <<"end">> /\ cut /\ owed = <<>>
  <2>1. n = 1 /\ wire[1] = "end" /\ Len(wire) = 1
    BY <1>5
  <2>2. buf = <<"end">> /\ wire' = <<>>
    BY <2>1, Short
  <2>3. Code(buf) = "none" /\ Empty
    BY <1>4, <1>5, <2>2, Pieces
  <2>4. QED BY <1>2, <1>5, <2>3
<1>6. CASE owed = <<>> /\ wire = <<code, "end">>
  <2>1. wire[1] = code /\ wire[2] = "end" /\ Len(wire) = 2 /\ n \in {1, 2}
    BY <1>6
  <2>2. CASE n = 1
    <3>1. buf = <<code>> /\ wire' = <<"end">>
      <4>1. SubSeq(wire, 1, 1) = <<wire[1]>> /\ SubSeq(wire, 2, 2) = <<wire[2]>>
        BY Short
      <4>2. QED BY <2>1, <2>2, <4>1
    <3>2. Code(buf) = "none" /\ EndOnly
      BY <1>1, <1>4, <1>6, <2>1, <2>2, <3>1, Pieces
    <3>3. QED BY <1>2, <1>6, <3>2
  <2>3. CASE n = 2
    <3>1. buf = <<code, "end">> /\ wire' = <<>>
      <4>1. SubSeq(wire, 1, 1 + 1) = <<wire[1], wire[1 + 1]>> /\ SubSeq(wire, 2 + 1, 2) = <<>>
        BY Short
      <4>2. QED BY <2>1, <2>3, <4>1
    <3>2. Code(buf) = code
      BY <1>4, <3>1, Pieces
    <3>3. code \in Refusals \/ InTurn \in accepted
      BY <1>3, <1>6
    <3>4. QED BY <1>6, <3>1, <3>2, <3>3
  <2>4. QED BY <2>1, <2>2, <2>3
<1>7. CASE owed = <<>> /\ wire = <<"words", code, "end">> /\ cmd = "EHLO"
  <2>1. wire[1] = "words" /\ wire[2] = code /\ wire[3] = "end" /\ Len(wire) = 3 /\ n \in {1, 2, 3}
    BY <1>7
  <2>2. CASE n = 1
    <3>1. buf = <<"words">> /\ wire' = <<code, "end">>
      <4>1. SubSeq(wire, 1, 1) = <<wire[1]>> /\ SubSeq(wire, 2, 2 + 1) = <<wire[2], wire[2 + 1]>>
        BY Short
      <4>2. QED BY <2>1, <2>2, <4>1
    <3>2. Code(buf) = "none"
      BY <1>4, <3>1, Pieces
    <3>3. code \in Refusals \/ InTurn \in accepted
      BY <1>3, <1>4, <1>7
    <3>4. ASSUME UNCHANGED <<at, cmd, receiver>> PROVE InStep'
      BY <1>7, <3>1, <3>3, <3>4 DEF InStep, InTurn
    <3>5. QED BY <1>7, <3>2, <3>4
  <2>3. CASE n = 2
    <3>1. buf = <<"words", code>> /\ wire' = <<"end">>
      <4>1. SubSeq(wire, 1, 1 + 1) = <<wire[1], wire[1 + 1]>> /\ SubSeq(wire, 3, 3) = <<wire[3]>>
        BY Short
      <4>2. QED BY <2>1, <2>3, <4>1
    <3>2. Code(buf) = "none" /\ EndOnly
      BY <1>1, <1>4, <1>7, <2>1, <2>3, <3>1, Pieces
    <3>3. QED BY <1>2, <1>7, <3>2
  <2>4. CASE n = 3
    <3>1. buf = <<"words", code, "end">> /\ wire' = <<>>
      <4>1. SubSeq(wire, 1, 1 + 2) = <<wire[1], wire[1 + 1], wire[1 + 2]>> /\ SubSeq(wire, 3 + 1, 3) = <<>>
        BY Short
      <4>2. QED BY <2>1, <2>4, <4>1
    <3>2. Code(buf) = code
      BY <1>4, <3>1, Pieces
    <3>3. code \in Refusals \/ InTurn \in accepted
      BY <1>3, <1>4, <1>7
    <3>4. QED BY <1>7, <3>1, <3>2, <3>3
  <2>5. QED BY <2>1, <2>2, <2>3, <2>4
<1>8. QED BY <1>3, <1>5, <1>6, <1>7

\* Reading ahead of the answers: the first line.
LEMMA ReadAhead ==
    ASSUME SmtpTypes, Lines, NEW n \in 1..Len(wire), wire[n] \in {"words", "end"},
           wire' = SubSeq(wire, n + 1, Len(wire))
    PROVE  /\ Code(SubSeq(wire, 1, n)) = wire[1] /\ wire[1] \in Codes /\ wire[2] = "end" /\ n >= 2
           /\ Lines' /\ \A i \in 1..Len(wire') : wire'[i] = wire[n + i] /\ n + i \in 1..Len(wire)
           /\ Len(wire') = Len(wire) - n
<1> DEFINE S == Codes \cup {"words", "end"}
<1>1. wire \in Seq(S) /\ Len(wire) \in Nat /\ n \in Nat /\ n <= Len(wire) /\ n >= 1
  BY DEF SmtpTypes
<1>2. wire[1] \in Codes /\ wire[2] = "end" /\ n # 1 /\ wire[n] = "end"
  BY <1>1, Names DEF Lines
<1>3. SubSeq(wire, 1, n) \in Seq(S) /\ Len(SubSeq(wire, 1, n)) = n
      /\ SubSeq(wire, 1, n)[1] = wire[1] /\ SubSeq(wire, 1, n)[2] = wire[2]
  <2>1. \A i \in 1..n : wire[i] \in S
    BY <1>1
  <2> HIDE DEF S
  <2>2. QED BY <1>1, <1>2, <2>1, SubSeqProperties
<1>4. Code(SubSeq(wire, 1, n)) = wire[1]
  <2> DEFINE buf == SubSeq(wire, 1, n)
  <2>1. buf \in Seq(Codes \cup {"words", "end"}) /\ Len(buf) >= 2 /\ buf[1] \in Codes /\ buf[2] = "end"
    BY <1>1, <1>2, <1>3
  <2>2. buf[1] = wire[1]
    BY <1>3
  <2> HIDE DEF buf
  <2>3. Code(buf) = buf[1]
    BY <2>1, FirstLine
  <2>4. QED BY <2>2, <2>3 DEF buf
<1>5. Len(wire') = Len(wire) - n /\ \A i \in 1..Len(wire) - n : wire'[i] = wire[n + i]
  <2>1. \A i \in (n + 1)..Len(wire) : wire[i] \in S
    BY <1>1
  <2>2. n + 1 \in Int /\ Len(wire) \in Int
    BY <1>1
  <2>3. CASE n = Len(wire)
    BY <1>1, <2>3, SubSeqEmpty
  <2>4. CASE n # Len(wire)
    <3> HIDE DEF S
    <3>1. /\ Len(wire') = Len(wire) - (n + 1) + 1
          /\ \A i \in 1..Len(wire) - (n + 1) + 1 : wire'[i] = wire[(n + 1) + i - 1]
      BY <1>1, <2>1, <2>2, <2>4, SubSeqProperties
    <3>2. QED BY <1>1, <3>1
  <2>5. QED BY <2>3, <2>4
<1>6. \A i \in 1..Len(wire') : wire'[i] = wire[n + i] /\ n + i \in 1..Len(wire)
  BY <1>1, <1>5
<1>7. Lines'
  <2>1. ASSUME NEW i \in 1..Len(wire') PROVE IF wire'[i] \in Codes THEN i < Len(wire') /\ wire'[i + 1] = "end"
                                             ELSE wire'[i] = "end"
    BY <1>1, <1>5, <1>6 DEF Lines
  <2>2. ASSUME NEW i \in 1..Len(wire'), wire'[i] = "end", i < Len(wire') PROVE wire'[i + 1] \in Codes
    BY <1>1, <1>5, <1>6, <2>2 DEF Lines
  <2>3. ASSUME wire' # <<>> PROVE wire'[1] \in Codes
    <3>1. Len(wire') # 0 /\ Len(wire') \in Nat
      <4>1. wire' \in Seq(S)
        <5>1. \A i \in (n + 1)..Len(wire) : wire[i] \in S
          BY <1>1
        <5> HIDE DEF S
        <5>2. QED BY <1>1, <5>1, SubSeqProperties, SubSeqEmpty
      <4>2. QED BY <2>3, <4>1
    <3>2. QED BY <1>1, <1>2, <1>5, <3>1 DEF Lines
  <2>4. QED BY <2>1, <2>2, <2>3 DEF Lines
<1>8. QED BY <1>1, <1>2, <1>4, <1>5, <1>6, <1>7

\* What the server has taken, when the answer to a command was its own.
LEMMA TookNext ==
    ASSUME SmtpTypes, at = "wait", NEW buf, TookBefore, InTurn \in accepted, UNCHANGED accepted
    PROVE  /\ GoesOn(buf) => TookBefore'
           /\ Succeeds(buf) => MailAccepted'
<1>1. receiver \in 1..Receivers /\ (cmd # "RCPT" => receiver = 1)
      /\ Receivers \in Nat /\ (at = "over") = (result # "none")
  BY SmtpAssumption DEF SmtpTypes, SmtpTypeOK
<1>2. Took(cmd, receiver)
  BY DEF Took, InTurn
<1>3. ASSUME GoesOn(buf) PROVE TookBefore'
  <2>1. Follows
    BY <1>3 DEF GoesOn
  <2>2. cmd' \in {"RCPT", "DATA", "DATAEND"} => Took("MAIL", 1)'
    BY <1>1, <1>2, <2>1 DEF Follows, TookBefore, Took
  <2>3. ASSUME cmd' = "RCPT", NEW i \in 1..Receivers, i < receiver' PROVE Took("RCPT", i)'
    <3>1. CASE cmd = "RCPT"
      <4>1. i < receiver \/ i = receiver
        BY <1>1, <2>1, <2>3, <3>1 DEF Follows
      <4>2. QED BY <1>2, <3>1, <4>1 DEF TookBefore, Took
    <3>2. CASE cmd # "RCPT"
      BY <2>1, <2>3, <3>2 DEF Follows
    <3>3. QED BY <3>1, <3>2
  <2>4. ASSUME cmd' \in {"DATA", "DATAEND"}, NEW i \in 1..Receivers PROVE Took("RCPT", i)'
    <3>1. CASE cmd = "RCPT"
      <4>1. i < receiver \/ i = receiver
        BY <1>1, <2>1, <2>4, <3>1 DEF Follows
      <4>2. QED BY <1>2, <3>1, <4>1 DEF TookBefore, Took
    <3>2. CASE cmd # "RCPT"
      BY <2>1, <2>4, <3>2 DEF Follows, TookBefore, Took
    <3>3. QED BY <3>1, <3>2
  <2>5. cmd' = "DATAEND" => Took("DATA", 1)'
    BY <1>1, <1>2, <2>1 DEF Follows, TookBefore, Took
  <2>6. QED BY <2>2, <2>3, <2>4, <2>5 DEF TookBefore
<1>4. ASSUME Succeeds(buf) PROVE MailAccepted'
  BY <1>1, <1>2, <1>4 DEF Succeeds, TookBefore, Took, MailAccepted
<1>5. QED BY <1>3, <1>4

LEMMA ReceiveInv == ASSUME SmtpIInv, Receive PROVE SmtpIInv'
<1>1. PICK n \in 1..Len(wire) :
        /\ ParseReply(SubSeq(wire, 1, n)) /\ wire' = SubSeq(wire, n + 1, Len(wire))
        /\ cut' = (cut \/ wire[n] \notin {"words", "end"})
  BY DEF Receive
<1>2. /\ at = "wait" /\ UNCHANGED <<security, offers, owed, closed, accepted, late>>
  BY DEF Receive
<1>3. /\ SmtpTypes /\ Mailing /\ cmd \in Commands /\ result = "none" /\ cut \in BOOLEAN
      /\ late \in BOOLEAN /\ late' \in BOOLEAN /\ receiver \in 1..Receivers
      /\ wire \in Seq(Codes \cup {"words", "end"})
  BY <1>2 DEF SmtpIInv, SmtpTypes, SmtpTypeOK, Commands
<1> DEFINE buf == SubSeq(wire, 1, n)
<1>4. wire' \in Seq(Codes \cup {"words", "end"}) /\ cut' \in BOOLEAN
  <2> DEFINE S == Codes \cup {"words", "end"}
  <2>1. n + 1 \in Int /\ Len(wire) \in Int /\ \A i \in (n + 1)..Len(wire) : wire[i] \in S
    BY <1>3
  <2>2. cut' \in BOOLEAN
    BY <1>1, <1>3
  <2> HIDE DEF S
  <2>3. wire' \in Seq(S)
    BY <1>1, <2>1, SubSeqProperties
  <2>4. QED BY <2>2, <2>3 DEF S
<1>5. SmtpTypes'
  BY <1>1, <1>2, <1>3, <1>4, ParseTypes
<1>6. Waits(buf) \/ Fails(buf) \/ Succeeds(buf) \/ GoesOn(buf) \/ Quits(buf)
  BY <1>1, <1>2, <1>3, ParseCases
<1>7. CASE Fails(buf)
  <2>1. at' = "over" /\ result' = "error"
    BY <1>7 DEF Fails
  <2>2. QED BY <1>5, <2>1 DEF SmtpIInv, Mailing, MailAccepted
<1> HIDE DEF buf
<1>8. CASE late /\ cut'
  BY <1>2, <1>5, <1>8 DEF SmtpIInv, Mailing, MailAccepted
<1>9. ASSUME InStep, ~Fails(buf)
      PROVE  /\ InStep'
             /\ \/ Waits(buf) \/ Quits(buf)
                \/ (GoesOn(buf) \/ Succeeds(buf)) /\ InTurn \in accepted
  <2>1. /\ owed = <<>>
        /\ \/ /\ Code(buf) = "none"
              /\ UNCHANGED <<at, cmd, receiver>> => InStep'
           \/ /\ Code(buf) \in {valid_reply_code[cmd]} \cup Refusals /\ wire' = <<>>
              /\ Code(buf) \in Refusals \/ InTurn \in accepted
    BY <1>1, <1>2, <1>3, <1>9, ReadInStep DEF buf
  <2>2. /\ valid_reply_code[cmd] # "none" /\ valid_reply_code[cmd] \notin Refusals /\ "none" \notin Refusals
    BY <1>3, Names DEF Codes
  <2>3. CASE Waits(buf)
    BY <2>1, <2>2, <2>3 DEF Waits
  <2>4. CASE Succeeds(buf)
    <3>1. Code(buf) = valid_reply_code[cmd]
      BY <2>4 DEF Succeeds, valid_reply_code
    <3>2. at' = "over"
      BY <2>4 DEF Succeeds
    <3>3. InStep'
      BY <3>2 DEF InStep
    <3>4. QED BY <2>1, <2>2, <2>4, <3>1, <3>3
  <2>5. CASE GoesOn(buf)
    <3>1. Code(buf) = valid_reply_code[cmd] /\ at' = "send"
      BY <2>5 DEF GoesOn
    <3>2. InStep'
      BY <1>2, <2>1, <2>2, <3>1 DEF InStep
    <3>3. QED BY <2>1, <2>2, <2>5, <3>1, <3>2
  <2>6. CASE Quits(buf)
    BY <1>2, <2>1, <2>6 DEF Quits, InStep
  <2>7. QED BY <1>6, <1>9, <2>3, <2>4, <2>5, <2>6
<1>10. CASE ~late /\ ~Fails(buf)
  <2>1. InStep /\ TookBefore
    BY <1>2, <1>3, <1>10 DEF Mailing
  <2>2. CASE Waits(buf)
    <3>1. UNCHANGED <<at, cmd, receiver, result>>
      BY <2>2 DEF Waits
    <3>2. TookBefore'
      BY <1>2, <2>1, <3>1 DEF TookBefore, Took
    <3>3. QED BY <1>2, <1>3, <1>5, <1>9, <1>10, <2>1, <3>1, <3>2 DEF SmtpIInv, Mailing, MailAccepted
  <2>3. CASE Quits(buf)
    <3>1. cmd' = "QUIT" /\ result' = "none"
      BY <1>3, <2>3 DEF Quits
    <3>2. TookBefore'
      BY <3>1 DEF TookBefore
    <3>3. QED BY <1>2, <1>5, <1>9, <1>10, <2>1, <3>1, <3>2 DEF SmtpIInv, Mailing, MailAccepted
  <2>4. CASE GoesOn(buf) /\ InTurn \in accepted
    <3>1. TookBefore' /\ result' = "none"
      BY <1>2, <1>3, <2>1, <2>4, TookNext DEF GoesOn
    <3>2. QED BY <1>2, <1>5, <1>9, <1>10, <2>1, <3>1 DEF SmtpIInv, Mailing, MailAccepted
  <2>5. CASE Succeeds(buf) /\ InTurn \in accepted
    <3>1. MailAccepted' /\ at' = "over"
      BY <1>2, <1>3, <2>1, <2>5, TookNext DEF Succeeds
    <3>2. QED BY <1>5, <3>1 DEF SmtpIInv, Mailing
  <2>6. QED BY <1>9, <1>10, <2>1, <2>2, <2>3, <2>4, <2>5
<1>11. CASE late /\ ~cut' /\ ~Fails(buf)
  <2>1. Ahead /\ wire[n] \in {"words", "end"} /\ late' = late
    BY <1>1, <1>2, <1>3, <1>11 DEF Mailing
  <2>2. CASE cmd = "DATAEND"
    <3>1. InStep /\ Took("MAIL", 1) /\ Took("DATA", 1)
      BY <2>1, <2>2 DEF Ahead
    <3>2. ~GoesOn(buf) /\ ~Quits(buf)
      BY <2>2 DEF GoesOn, Follows, Quits
    <3>3. CASE Waits(buf)
      <4>1. UNCHANGED <<at, cmd, receiver, result>>
        BY <3>3 DEF Waits
      <4>2. Ahead'
        BY <1>2, <1>9, <1>11, <2>2, <3>1, <4>1 DEF Ahead, Took
      <4>3. QED BY <1>2, <1>3, <1>5, <1>11, <4>1, <4>2 DEF SmtpIInv, Mailing, MailAccepted
    <3>4. CASE Succeeds(buf)
      <4>1. InTurn \in accepted /\ receiver = 1
        BY <1>2, <1>3, <1>9, <1>11, <2>2, <3>1, <3>2, <3>4 DEF SmtpTypes, Waits, Succeeds
      <4>2. Took("DATAEND", 1)
        BY <2>2, <4>1 DEF InTurn, Took
      <4>3. MailAccepted' /\ at' = "over"
        BY <1>2, <2>1, <1>11, <3>1, <3>4, <4>2 DEF Succeeds, MailAccepted, Took
      <4>4. QED BY <1>5, <4>3 DEF SmtpIInv, Mailing
    <3>5. QED BY <1>6, <1>11, <3>2, <3>3, <3>4
  <2>3. CASE cmd = "QUIT"
    <3>1. Waits(buf)
      BY <1>6, <1>11, <2>3 DEF GoesOn, Follows, Quits, Succeeds
    <3>2. UNCHANGED <<at, cmd, receiver, result>>
      BY <3>1 DEF Waits
    <3>3. Ahead'
      BY <2>3, <3>2 DEF Ahead
    <3>4. QED BY <1>2, <1>3, <1>5, <1>11, <3>2, <3>3 DEF SmtpIInv, Mailing, MailAccepted
  <2>4. CASE cmd \in {"PASSWORD", "RCPT", "DATA"}
    <3>1. Lines
      BY <2>1, <2>4 DEF Ahead
    <3>2. /\ Code(buf) = wire[1] /\ wire[1] \in Codes /\ wire[2] = "end" /\ n >= 2
          /\ Lines' /\ \A i \in 1..Len(wire') : wire'[i] = wire[n + i] /\ n + i \in 1..Len(wire)
          /\ Len(wire') = Len(wire) - n
      BY <1>1, <1>3, <2>1, <3>1, ReadAhead DEF buf
    <3>3. GoesOn(buf)
      BY <1>6, <1>11, <2>4, <3>2, Names DEF Waits, Succeeds, Quits
    <3>4. at' = "send" /\ result' = "none" /\ wire[1] = valid_reply_code[cmd] /\ Follows
      BY <1>3, <3>2, <3>3 DEF GoesOn
    <3>5. wire # <<>> /\ Len(wire) \in Nat /\ n \in Nat /\ n <= Len(wire)
      BY <1>3
    <3>6. cmd # "PASSWORD"
      BY <2>1, <3>4, <3>5 DEF Ahead, FirstIs, Refusals, valid_reply_code
    <3>7. DataIsLast /\ Took("MAIL", 1)
      BY <2>1, <2>4, <3>4, <3>5, <3>6 DEF Ahead, FirstIs, Refusals, valid_reply_code
    <3>8. CASE cmd = "RCPT"
      <4>1. cmd' \in {"RCPT", "DATA"}
        BY <3>4, <3>8 DEF Follows
      <4>2. \A i \in 1..Len(owed') : owed'[i].cmd \in {"MAIL", "RCPT"}
                                     /\ (owed'[i].cmd = "MAIL" => owed'[i].to = 1)
        BY <1>2, <3>7, <3>8 DEF DataIsLast
      <4>3. \A i \in 1..Len(wire') : wire'[i] # "354"
        BY <3>2, <3>7, <3>8 DEF DataIsLast
      <4>4. DataIsLast'
        BY <4>2, <4>3 DEF DataIsLast
      <4>5. Ahead'
        BY <1>2, <3>2, <3>7, <4>1, <4>4 DEF Ahead, Took
      <4>6. QED BY <1>5, <1>2, <1>11, <3>4, <4>5 DEF SmtpIInv, Mailing, MailAccepted
    <3>9. CASE cmd = "DATA"
      <4>1. wire[1] = "354" /\ cmd' = "DATAEND"
        BY <3>4, <3>9 DEF valid_reply_code, Follows
      <4>2. 1 = Len(wire) - 1 /\ owed = <<>> /\ Took("DATA", 1)
        <5>1. 1 \in 1..Len(wire)
          BY <3>5
        <5>2. QED BY <3>7, <4>1, <5>1 DEF DataIsLast
      <4>3. n = 2 /\ Len(wire) = 2
        <5>1. n >= 2
          BY <3>2
        <5>2. Len(wire) = 2
          BY <3>5, <4>2
        <5>3. QED BY <3>5, <5>1, <5>2
      <4>4. wire' = <<>>
        BY <1>1, <4>3, SubSeqEmpty
      <4>5. InStep'
        BY <1>2, <3>4, <4>2, <4>4 DEF InStep
      <4>6. Ahead'
        BY <1>2, <3>7, <4>1, <4>2, <4>5 DEF Ahead, Took
      <4>7. QED BY <1>5, <1>2, <1>11, <3>4, <4>6 DEF SmtpIInv, Mailing, MailAccepted
    <3>10. QED BY <2>4, <3>6, <3>8, <3>9
  <2>5. QED BY <2>1, <2>2, <2>3, <2>4 DEF Ahead
<1>12. QED BY <1>3, <1>4, <1>7, <1>8, <1>10, <1>11

\* Nothing is read: all that can change is the buffer.
LEMMA NothingRead ==
    ASSUME SmtpIInv, at = "wait", ParseReply(<<>>),
           UNCHANGED <<security, offers, owed, wire, closed, accepted, late, cut>>
    PROVE  SmtpIInv'
<1>1. SmtpTypes /\ Mailing /\ MailAccepted /\ result = "none" /\ late \in BOOLEAN /\ cut \in BOOLEAN
      /\ wire \in Seq(Codes \cup {"words", "end"})
  BY DEF SmtpIInv, SmtpTypes, SmtpTypeOK
<1>2. SmtpTypes'
  BY <1>1, ParseTypes
<1>3. UNCHANGED <<at, cmd, receiver, result>>
  <2>1. Finals(<<>>) = {}
    BY DEF Finals
  <2>2. Code(<<>>) = "none"
    BY <2>1, NoCode
  <2>3. QED BY <2>2 DEF ParseReply
<1>4. (InStep => InStep') /\ (TookBefore => TookBefore') /\ (Ahead => Ahead')
  BY <1>3 DEF InStep, InTurn, TookBefore, Took, Ahead, Lines, DataIsLast, FirstIs
<1>5. Mailing' /\ MailAccepted'
  BY <1>1, <1>3, <1>4 DEF Mailing, MailAccepted
<1>6. QED BY <1>2, <1>5 DEF SmtpIInv

\* From in step to ahead: an answer is taken for that of the command it does not belong to.
LEMMA FallsAhead ==
    ASSUME SmtpTypes, at = "wait", ~cut, InStep, cmd \in {"USER", "MAIL", "RCPT"}
    PROVE  /\ Lines /\ FirstIs(cmd, {valid_reply_code[cmd]} \cup Refusals)
           /\ \A i \in 1..Len(owed) : owed[i] = InTurn
           /\ \A i \in 1..Len(wire) : wire[i] # "354"
           /\ FirstIs(cmd, Refusals) \/ InTurn \in accepted
<1>1. PICK code \in {valid_reply_code[cmd]} \cup Refusals :
        \/ owed = <<InTurn>> /\ wire = <<>>
        \/ owed = <<>> /\ wire = <<>> /\ closed
        \/ owed = <<>> /\ wire = <<code, "end">> /\ (code \in Refusals \/ InTurn \in accepted)
  BY DEF InStep, Refusals
<1>2. code \in {"334", "250", "550", "530"} /\ code \in Codes /\ "end" \notin Codes
  BY <1>1 DEF valid_reply_code, Codes, Refusals
<1>3. CASE owed = <<InTurn>> /\ wire = <<>>
  <2>1. Head(owed).cmd = cmd /\ owed # <<>>
    BY <1>3 DEF InTurn
  <2>2. QED BY <1>3, <2>1 DEF Lines, FirstIs
<1>4. CASE owed = <<>> /\ wire = <<code, "end">> /\ (code \in Refusals \/ InTurn \in accepted)
  <2>1. Len(wire) = 2 /\ wire[1] = code /\ wire[2] = "end" /\ wire # <<>> /\ Len(owed) = 0
    BY <1>4
  <2>2. Lines
    BY <1>2, <2>1 DEF Lines
  <2>3. QED BY <1>1, <1>2, <1>4, <2>1, <2>2 DEF FirstIs
<1>5. CASE owed = <<>> /\ wire = <<>> /\ closed
  BY <1>5 DEF Lines, FirstIs
<1>6. QED BY <1>1, <1>3, <1>4, <1>5

\* What an earlier recv left is parsed again.
LEMMA ReparseInv ==
    ASSUME SmtpIInv, at = "wait", ~ssl, ParseReply(recv_buf),
           late' = (late \/ Code(recv_buf) # "none"),
           UNCHANGED <<security, offers, owed, wire, closed, accepted, cut>>
    PROVE  SmtpIInv'
<1>1. /\ SmtpTypes /\ Mailing /\ cmd \in Commands /\ result = "none" /\ late \in BOOLEAN
      /\ cut \in BOOLEAN /\ wire \in Seq(Codes \cup {"words", "end"})
      /\ receiver \in 1..Receivers /\ (cmd # "RCPT" => receiver = 1)
  BY DEF SmtpIInv, SmtpTypes, SmtpTypeOK, Commands
<1>2. SmtpTypes'
  BY <1>1, ParseTypes
<1>3. \/ Waits(recv_buf) \/ Fails(recv_buf) \/ Succeeds(recv_buf) \/ GoesOn(recv_buf)
      \/ Quits(recv_buf)
  BY <1>1, ParseCases
<1>4. cmd # "QUIT" => Code(recv_buf) \in CodesBefore[cmd] \cup {"none"}
  BY <1>1 DEF SmtpTypes
<1>5. CASE Waits(recv_buf)
  <2>1. UNCHANGED <<at, cmd, receiver, result, late>>
    BY <1>1, <1>5 DEF Waits
  <2>2. (InStep => InStep') /\ (TookBefore => TookBefore') /\ (Ahead => Ahead')
    BY <2>1 DEF InStep, InTurn, TookBefore, Took, Ahead, Lines, DataIsLast, FirstIs
  <2>3. QED BY <1>1, <1>2, <2>1, <2>2 DEF SmtpIInv, Mailing, MailAccepted
<1>6. CASE Fails(recv_buf)
  BY <1>2, <1>6 DEF Fails, SmtpIInv, Mailing, MailAccepted
<1>7. ~Succeeds(recv_buf)
  BY <1>4 DEF Succeeds, CodesBefore
<1>8. CASE Quits(recv_buf)
  <2>1. cmd' = "QUIT" /\ result' = "none" /\ late'
    BY <1>1, <1>8 DEF Quits
  <2>2. Ahead'
    BY <2>1 DEF Ahead
  <2>3. QED BY <1>2, <2>1, <2>2 DEF SmtpIInv, Mailing, MailAccepted
<1>9. CASE GoesOn(recv_buf)
  <2>1. /\ Code(recv_buf) = valid_reply_code[cmd] /\ at' = "send" /\ result' = "none" /\ Follows
        /\ Code(recv_buf) # "none"
    BY <1>1, <1>9, Names DEF GoesOn
  <2>2. late'
    BY <2>1
  <2>3. cmd \in {"USER", "MAIL", "RCPT"}
    BY <1>1, <1>4, <2>1, Names DEF CodesBefore, valid_reply_code, Follows
  <2>4. CASE cut
    BY <1>2, <2>1, <2>2, <2>4 DEF SmtpIInv, Mailing, MailAccepted
  <2>5. CASE ~cut
    <3>1. CASE ~late
      <4>1. InStep /\ TookBefore
        BY <1>1, <3>1 DEF Mailing
      <4>2. /\ Lines /\ FirstIs(cmd, {valid_reply_code[cmd]} \cup Refusals)
            /\ \A i \in 1..Len(owed) : owed[i] = InTurn
            /\ \A i \in 1..Len(wire) : wire[i] # "354"
            /\ FirstIs(cmd, Refusals) \/ InTurn \in accepted
        BY <1>1, <2>3, <2>5, <4>1, FallsAhead
      <4>3. Lines'
        BY <4>2 DEF Lines
      <4>4. InTurn.cmd = cmd /\ InTurn.to = receiver
        BY DEF InTurn
      <4>5. ASSUME cmd = "USER" PROVE Ahead'
        <5>1. cmd' = "PASSWORD"
          BY <2>1, <4>5 DEF Follows
        <5>2. FirstIs("USER", {"334"} \cup Refusals)'
          BY <4>2, <4>5 DEF FirstIs, valid_reply_code
        <5>3. \A i \in 1..Len(owed') : owed'[i].cmd \in {"USER", "PASSWORD"}
          BY <4>2, <4>4, <4>5
        <5>4. QED BY <4>3, <5>1, <5>2, <5>3 DEF Ahead
      <4>6. ASSUME cmd = "MAIL" PROVE Ahead'
        <5>1. cmd' = "RCPT"
          BY <2>1, <4>6 DEF Follows
        <5>2. DataIsLast'
          BY <1>1, <4>2, <4>4, <4>6 DEF DataIsLast
        <5>3. Took("MAIL", 1)' \/ FirstIs("MAIL", Refusals)'
          BY <1>1, <4>2, <4>6 DEF FirstIs, Took, InTurn
        <5>4. QED BY <4>3, <5>1, <5>2, <5>3 DEF Ahead
      <4>7. ASSUME cmd = "RCPT" PROVE Ahead'
        <5>1. cmd' \in {"RCPT", "DATA"}
          BY <2>1, <4>7 DEF Follows
        <5>2. DataIsLast'
          BY <4>2, <4>4, <4>7 DEF DataIsLast
        <5>3. Took("MAIL", 1)'
          BY <4>1, <4>7 DEF TookBefore, Took
        <5>4. QED BY <4>3, <5>1, <5>2, <5>3 DEF Ahead
      <4>8. Ahead'
        BY <2>3, <4>5, <4>6, <4>7
      <4>9. QED BY <1>2, <2>1, <2>2, <4>8 DEF SmtpIInv, Mailing, MailAccepted
    <3>2. CASE late
      <4>1. Ahead
        BY <1>1, <2>5, <3>2 DEF Mailing
      <4>2. cmd = "RCPT"
        BY <2>3, <4>1 DEF Ahead
      <4>3. cmd' \in {"RCPT", "DATA"}
        BY <2>1, <4>2 DEF Follows
      <4>4. Lines' /\ (Took("MAIL", 1)' \/ FirstIs("MAIL", Refusals)')
        BY <4>1, <4>2 DEF Ahead, Lines, Took, FirstIs
      <4>5. DataIsLast'
        BY <4>1, <4>2 DEF Ahead, DataIsLast
      <4>6. Ahead'
        BY <4>3, <4>4, <4>5 DEF Ahead
      <4>7. QED BY <1>2, <2>1, <2>2, <4>6 DEF SmtpIInv, Mailing, MailAccepted
    <3>3. QED BY <1>1, <3>1, <3>2
  <2>6. QED BY <1>1, <2>4, <2>5
<1>10. QED BY <1>3, <1>5, <1>6, <1>7, <1>8, <1>9

LEMMA TimeoutInv == ASSUME SmtpIInv, Timeout PROVE SmtpIInv'
<1>1. /\ at = "wait" /\ UNCHANGED <<security, offers, owed, wire, closed, accepted, cut>>
      /\ ssl \in BOOLEAN /\ late \in BOOLEAN
  BY DEF Timeout, server, SmtpIInv, SmtpTypes, SmtpTypeOK
<1>2. CASE ssl
  BY <1>1, <1>2, NothingRead DEF Timeout
<1>3. CASE ~ssl
  BY <1>1, <1>3, ReparseInv DEF Timeout
<1>4. QED BY <1>1, <1>2, <1>3

LEMMA EndOfStreamInv == ASSUME SmtpIInv, EndOfStream PROVE SmtpIInv'
<1>1. at = "wait" /\ UNCHANGED <<security, offers, owed, wire, closed, accepted, cut>>
  BY DEF EndOfStream, server
<1>2. CASE ParseReply(<<>>) /\ UNCHANGED late
  BY <1>1, <1>2, NothingRead
<1>3. CASE ~ssl /\ ParseReply(recv_buf) /\ late' = (late \/ Code(recv_buf) # "none")
  BY <1>1, <1>3, ReparseInv
<1>4. QED BY <1>2, <1>3 DEF EndOfStream

LEMMA CloseInv == ASSUME SmtpIInv, Close PROVE SmtpIInv'
<1>1. /\ at \notin {"connect", "over"} /\ closed' = TRUE /\ owed' = <<>>
      /\ UNCHANGED <<security, ssl, at, cmd, receiver, recv_buf, offers, wire, result, accepted,
                     late, cut>>
  BY DEF Close
<1>2. SmtpTypes /\ Mailing /\ wire \in Seq(Codes \cup {"words", "end"})
      /\ at \in {"connect", "send", "wait", "over"} /\ result = "none"
  BY <1>1 DEF SmtpIInv, SmtpTypes, SmtpTypeOK
<1>3. SmtpTypes'
  <2>1. owed' \in Seq([cmd : Commands, to : 1..Receivers])
    BY <1>1
  <2>2. QED BY <1>1, <1>2, <2>1, TypesKept
<1>4. InStep => InStep'
  BY <1>1 DEF InStep, InTurn
<1>5. TookBefore => TookBefore'
  BY <1>1 DEF TookBefore, Took
<1>6. ASSUME Ahead PROVE Ahead'
  <2>1. Lines => Lines'
    BY <1>1 DEF Lines
  <2>2. \A c, codes : FirstIs(c, codes) => FirstIs(c, codes)'
    BY <1>1 DEF FirstIs
  <2>3. DataIsLast => DataIsLast'
    BY <1>1 DEF DataIsLast, Took
  <2>4. QED BY <1>1, <1>4, <1>6, <2>1, <2>2, <2>3 DEF Ahead, Took, Refusals
<1>7. QED BY <1>1, <1>2, <1>3, <1>4, <1>5, <1>6 DEF SmtpIInv, Mailing, MailAccepted

\* An answer: its lines go behind those under way.
LEMMA AnswerLines ==
    ASSUME SmtpTypes, Lines, NEW code \in Codes, wire' = wire \o <<code, "end">>
    PROVE  /\ Lines' /\ wire' # <<>> /\ Len(wire') = Len(wire) + 2
           /\ \A i \in 1..Len(wire) : wire'[i] = wire[i]
           /\ wire'[Len(wire) + 1] = code /\ wire'[Len(wire) + 2] = "end"
<1> DEFINE S == Codes \cup {"words", "end"}
<1>1. wire \in Seq(S) /\ Len(wire) \in Nat /\ <<code, "end">> \in Seq(S) /\ "end" \notin Codes
  BY Names DEF SmtpTypes
<1> HIDE DEF S
<1>2. Len(wire') = Len(wire) + 2 /\ wire' \in Seq(S) /\ (\A i \in 1..Len(wire) : wire'[i] = wire[i])
      /\ wire'[Len(wire) + 1] = code /\ wire'[Len(wire) + 2] = "end"
  BY <1>1
<1>3. Lines'
  <2>1. ASSUME NEW i \in 1..Len(wire') PROVE IF wire'[i] \in Codes THEN i < Len(wire') /\ wire'[i + 1] = "end"
                                             ELSE wire'[i] = "end"
    <3>1. CASE i \in 1..Len(wire)
      <4>1. wire'[i] = wire[i] /\ (i < Len(wire) => wire'[i + 1] = wire[i + 1])
        BY <1>1, <1>2, <3>1
      <4>2. QED BY <1>1, <1>2, <3>1, <4>1 DEF Lines
    <3>2. CASE i \notin 1..Len(wire)
      <4>1. i = Len(wire) + 1 \/ i = Len(wire) + 2
        BY <1>1, <1>2, <3>2
      <4>2. QED BY <1>1, <1>2, <4>1
    <3>3. QED BY <3>1, <3>2
  <2>2. ASSUME NEW i \in 1..Len(wire'), wire'[i] = "end", i < Len(wire') PROVE wire'[i + 1] \in Codes
    <3>1. CASE i < Len(wire)
      <4>1. wire'[i] = wire[i] /\ wire'[i + 1] = wire[i + 1]
        BY <1>1, <1>2, <3>1
      <4>2. QED BY <1>1, <2>2, <3>1, <4>1 DEF Lines
    <3>2. CASE ~(i < Len(wire))
      <4>1. i = Len(wire) \/ i = Len(wire) + 1
        BY <1>1, <1>2, <2>2, <3>2
      <4>2. QED BY <1>1, <1>2, <2>2, <4>1
    <3>3. QED BY <3>1, <3>2
  <2>3. wire'[1] \in Codes
    <3>1. CASE wire = <<>>
      BY <1>1, <1>2, <3>1
    <3>2. CASE wire # <<>>
      <4>1. 1 \in 1..Len(wire)
        BY <1>1, <3>2
      <4>2. QED BY <1>2, <3>2, <4>1 DEF Lines
    <3>3. QED BY <3>1, <3>2
  <2>4. QED BY <2>1, <2>2, <2>3 DEF Lines
<1>4. wire' # <<>>
  BY <1>1, <1>2
<1>5. QED BY <1>2, <1>3, <1>4

LEMMA ReplyInv == ASSUME SmtpIInv, Reply PROVE SmtpIInv'
<1> DEFINE c == Head(owed)
<1>1. /\ owed # <<>> /\ owed' = Tail(owed)
      /\ UNCHANGED <<security, ssl, at, cmd, receiver, recv_buf, offers, closed, result, late, cut>>
  BY DEF Reply
<1>2. /\ SmtpTypes /\ Mailing /\ MailAccepted /\ owed \in Seq([cmd : Commands, to : 1..Receivers])
      /\ wire \in Seq(Codes \cup {"words", "end"}) /\ late \in BOOLEAN
      /\ at \in {"connect", "send", "wait", "over"} /\ ~closed /\ closed \in BOOLEAN
  BY <1>1 DEF SmtpIInv, SmtpTypes, SmtpTypeOK
<1>3. /\ c \in [cmd : Commands, to : 1..Receivers] /\ c = owed[1] /\ Len(owed) \in Nat \ {0}
      /\ owed' \in Seq([cmd : Commands, to : 1..Receivers]) /\ Len(owed') = Len(owed) - 1
      /\ \A i \in 1..Len(owed') : owed'[i] = owed[i + 1]
  <2> DEFINE S == [cmd : Commands, to : 1..Receivers]
  <2>1. owed \in Seq(S)
    BY <1>2
  <2> HIDE DEF S
  <2>2. Head(owed) \in S /\ Head(owed) = owed[1] /\ Len(owed) \in Nat \ {0}
    BY <1>1, <2>1
  <2>3. owed' \in Seq(S) /\ Len(owed') = Len(owed) - 1 /\ \A i \in 1..Len(owed') : owed'[i] = owed[i + 1]
    BY <1>1, <2>1, HeadTailProperties
  <2>4. QED BY <2>2, <2>3 DEF S
<1>4. PICK code \in {valid_reply_code[c.cmd]} \cup Refusals :
        /\ wire' = wire \o (IF c.cmd = "EHLO" /\ code \notin Refusals THEN <<"words">> ELSE <<>>)
                        \o <<code, "end">>
        /\ \/ code \in Refusals /\ accepted' = accepted
           \/ code = valid_reply_code[c.cmd] /\ accepted' = accepted \cup {c}
  <2>1. CASE /\ accepted' = accepted \cup {c}
             /\ wire' = wire \o (IF c.cmd = "EHLO" THEN <<"words">> ELSE <<>>)
                             \o <<valid_reply_code[c.cmd], "end">>
    <3>1. valid_reply_code[c.cmd] \notin Refusals
      BY <1>3, Names
    <3>2. QED BY <2>1, <3>1
  <2>2. CASE /\ \E code \in Refusals : wire' = wire \o <<code, "end">>
             /\ UNCHANGED accepted
    <3>1. PICK code \in Refusals : wire' = wire \o <<code, "end">>
      BY <2>2
    <3>2. wire \o <<>> = wire
      BY <1>2
    <3>3. QED BY <2>2, <3>1, <3>2
  <2>3. QED BY <2>1, <2>2 DEF Reply, Refusals
<1>5. code \in Codes /\ code \notin {"words", "end"}
  BY <1>3, <1>4, Names DEF Codes, Refusals
<1>6. wire' \in Seq(Codes \cup {"words", "end"})
  <2> DEFINE S == Codes \cup {"words", "end"}
             w == IF c.cmd = "EHLO" /\ code \notin Refusals THEN <<"words">> ELSE <<>>
  <2>1. w \in Seq(S) /\ <<code, "end">> \in Seq(S) /\ wire \in Seq(S)
    <3>1. code \in S /\ "end" \in S /\ "words" \in S /\ wire \in Seq(S)
      BY <1>2, <1>5
    <3> HIDE DEF S
    <3>2. <<"words">> \in Seq(S) /\ <<>> \in Seq(S) /\ <<code, "end">> \in Seq(S)
      BY <3>1
    <3>3. QED BY <3>1, <3>2
  <2>2. wire' = wire \o w \o <<code, "end">>
    BY <1>4
  <2> HIDE DEF S, w
  <2>3. wire' \in Seq(S)
    BY <2>1, <2>2
  <2>4. QED BY <2>3 DEF S
<1>7. SmtpTypes'
  BY <1>1, <1>2, <1>3, <1>6, TypesKept
<1>8. accepted \subseteq accepted'
  BY <1>4
<1>9. MailAccepted'
  BY <1>1, <1>2, <1>8 DEF MailAccepted
<1>10. TookBefore => TookBefore'
  BY <1>1, <1>8 DEF TookBefore, Took
<1>11. ASSUME InStep, at # "over" PROVE InStep'
  <2>1. at = "wait" /\ owed = <<InTurn>> /\ wire = <<>>
    BY <1>1, <1>2, <1>11 DEF InStep
  <2>2. c = InTurn /\ owed' = <<>> /\ InTurn' = InTurn /\ c.cmd = cmd
    BY <1>1, <2>1 DEF InTurn
  <2>3. CASE cmd = "EHLO" /\ code \notin Refusals
    <3>1. wire' = <<"words", code, "end">>
      <4>1. wire' = <<>> \o <<"words">> \o <<code, "end">>
        BY <1>4, <2>1, <2>2, <2>3
      <4>2. <<"words">> \in Seq({"words"}) /\ Len(<<"words">>) = 1
        OBVIOUS
      <4>3. <<>> \o <<"words">> = <<"words">>
        BY <4>2, ConcatEmptySeq
      <4>4. <<"words">> \o <<code, "end">> = <<"words", code, "end">>
        <5> DEFINE S == {"words", code, "end"}
                   u == <<"words">> \o <<code, "end">>
                   v == <<"words", code, "end">>
        <5>1. u \in Seq(S) /\ Len(u) = 3 /\ u[1] = "words" /\ u[2] = code /\ u[3] = "end"
          <6>1. <<"words">> \in Seq(S) /\ <<code, "end">> \in Seq(S)
            OBVIOUS
          <6>2. QED BY <6>1
        <5>2. v \in Seq(S) /\ Len(v) = 3 /\ v[1] = "words" /\ v[2] = code /\ v[3] = "end"
          OBVIOUS
        <5> HIDE DEF S, u, v
        <5>3. \A i \in 1..Len(u) : u[i] = v[i]
          BY <5>1, <5>2
        <5>4. u = v
          BY <5>1, <5>2, <5>3, SeqEqual
        <5>5. QED BY <5>4 DEF u, v
      <4>5. QED BY <4>1, <4>3, <4>4
    <3>2. QED BY <1>1, <1>4, <2>1, <2>2, <2>3, <3>1 DEF InStep
  <2>4. CASE ~(cmd = "EHLO" /\ code \notin Refusals)
    <3>1. wire' = <<code, "end">>
      <4>1. wire' = <<>> \o <<>> \o <<code, "end">>
        BY <1>4, <2>1, <2>2, <2>4
      <4>2. <<code, "end">> \in Seq({code, "end"})
        OBVIOUS
      <4>3. QED BY <4>1, <4>2, ConcatEmptySeq, EmptySeq
    <3>2. QED BY <1>1, <1>4, <2>1, <2>2, <2>4, <3>1 DEF InStep
  <2>5. QED BY <2>3, <2>4
<1>12. ASSUME Ahead, at # "over" PROVE Ahead'
  <2>1. CASE cmd = "QUIT"
    BY <1>1, <2>1 DEF Ahead
  <2>2. CASE cmd = "DATAEND"
    BY <1>1, <1>8, <1>11, <1>12, <2>2 DEF Ahead, Took
  <2>3. CASE cmd \in {"PASSWORD", "RCPT", "DATA"}
    <3>1. c.cmd # "EHLO"
      BY <1>3, <1>12, <2>3 DEF Ahead, DataIsLast
    <3>2. wire' = wire \o <<code, "end">>
      <4>1. wire \o <<>> = wire
        BY <1>2
      <4>2. QED BY <1>4, <3>1, <4>1
    <3>3. /\ Lines' /\ wire' # <<>> /\ Len(wire') = Len(wire) + 2
          /\ \A i \in 1..Len(wire) : wire'[i] = wire[i]
          /\ wire'[Len(wire) + 1] = code /\ wire'[Len(wire) + 2] = "end"
      BY <1>2, <1>5, <1>12, <2>3, <3>2, AnswerLines DEF Ahead
    <3>4. Len(wire) \in Nat /\ (wire = <<>> => Len(wire) = 0) /\ (wire # <<>> => 1 \in 1..Len(wire))
      BY <1>2
    <3>5. CASE cmd = "PASSWORD"
      <4>1. FirstIs("USER", {"334"} \cup Refusals)'
        BY <1>2, <1>4, <1>12, <3>3, <3>4, <3>5 DEF Ahead, FirstIs, valid_reply_code
      <4>2. \A i \in 1..Len(owed') : owed'[i].cmd \in {"USER", "PASSWORD"}
        BY <1>3, <1>12, <3>5 DEF Ahead
      <4>3. QED BY <1>1, <3>3, <3>5, <4>1, <4>2 DEF Ahead
    <3>6. CASE cmd \in {"RCPT", "DATA"}
      <4>1. DataIsLast /\ (Took("MAIL", 1) \/ FirstIs("MAIL", Refusals))
        BY <1>12, <3>6 DEF Ahead
      <4>2. Took("MAIL", 1)' \/ FirstIs("MAIL", Refusals)'
        <5>1. CASE Took("MAIL", 1)
          BY <1>8, <5>1 DEF Took
        <5>2. CASE wire # <<>> /\ wire[1] \in Refusals
          BY <3>3, <3>4, <5>2 DEF FirstIs, Refusals
        <5>3. CASE wire = <<>> /\ c.cmd = "MAIL"
          <6>1. c.to = 1
            BY <1>3, <4>1, <5>3 DEF DataIsLast
          <6>2. c = [cmd |-> "MAIL", to |-> 1]
            BY <1>3, <5>3, <6>1
          <6>3. CASE code \in Refusals
            BY <3>3, <3>4, <5>3, <6>3 DEF FirstIs, Refusals
          <6>4. CASE code \notin Refusals
            BY <1>4, <6>2, <6>4 DEF Took
          <6>5. QED BY <6>3, <6>4
        <5>4. QED BY <1>2, <4>1, <5>1, <5>2, <5>3 DEF FirstIs
      <4>3. DataIsLast'
        <5>1. \A i \in 1..Len(wire) : wire[i] # "354"
          BY <1>1, <4>1 DEF DataIsLast
        <5>2. ASSUME NEW i \in 1..Len(wire'), wire'[i] = "354"
              PROVE  i = Len(wire') - 1 /\ owed' = <<>> /\ Took("DATA", 1)' /\ cmd' = "DATA" /\ at' = "wait"
          <6>1. i = Len(wire) + 1 /\ code = "354"
            BY <3>3, <3>4, <5>1, <5>2
          <6>2. c.cmd = "DATA" /\ accepted' = accepted \cup {c}
            BY <1>3, <1>4, <4>1, <6>1 DEF DataIsLast, valid_reply_code, Refusals
          <6>3. 1 = Len(owed) /\ c.to = 1 /\ cmd = "DATA" /\ at = "wait"
            BY <1>3, <4>1, <6>2 DEF DataIsLast
          <6>4. c = [cmd |-> "DATA", to |-> 1]
            BY <1>3, <6>2, <6>3
          <6>5. owed' = <<>>
            <7>1. Len(owed') = 0
              <8>1. Len(owed) = 1 /\ Len(owed') = Len(owed) - 1
                BY <1>3, <6>3
              <8>2. QED BY <8>1
            <7>2. QED BY <1>3, <7>1, EmptySeq
          <6>6. QED BY <1>1, <3>3, <3>4, <6>1, <6>2, <6>3, <6>4, <6>5 DEF Took
        <5>3. ASSUME NEW i \in 1..Len(owed')
              PROVE  /\ owed'[i].cmd \in {"MAIL", "RCPT", "DATA"}
                     /\ owed'[i].cmd = "MAIL" => owed'[i].to = 1
                     /\ owed'[i].cmd = "DATA" => /\ i = Len(owed') /\ owed'[i].to = 1
                                                 /\ cmd' = "DATA" /\ at' = "wait"
          <6>1. owed'[i] = owed[i + 1] /\ i + 1 \in 1..Len(owed)
            BY <1>3
          <6>2. /\ owed[i + 1].cmd \in {"MAIL", "RCPT", "DATA"}
                /\ owed[i + 1].cmd = "MAIL" => owed[i + 1].to = 1
                /\ owed[i + 1].cmd = "DATA" => /\ i + 1 = Len(owed) /\ owed[i + 1].to = 1
                                               /\ cmd = "DATA" /\ at = "wait"
            BY <4>1, <6>1 DEF DataIsLast
          <6>3. i + 1 = Len(owed) => i = Len(owed')
            BY <1>3
          <6>4. QED BY <1>1, <6>1, <6>2, <6>3
        <5>4. QED BY <5>2, <5>3 DEF DataIsLast
      <4>4. QED BY <1>1, <3>3, <3>6, <4>2, <4>3 DEF Ahead
    <3>7. QED BY <2>3, <3>5, <3>6
  <2>4. QED BY <1>12, <2>1, <2>2, <2>3 DEF Ahead
<1>13. Mailing'
  BY <1>1, <1>2, <1>10, <1>11, <1>12 DEF Mailing
<1>14. QED BY <1>7, <1>9, <1>13 DEF SmtpIInv

----------------------------------------------------------------------------
\* Every step of Smtp keeps the invariant.
LEMMA SmtpNextInv == ASSUME SmtpIInv, [SmtpNext]_smtpVars PROVE SmtpIInv'
<1>1. CASE Client
  BY <1>1, ConnectInv, SendInv, ReceiveInv, EndOfStreamInv DEF Client
<1>2. CASE Timeout
  BY <1>2, TimeoutInv
<1>3. CASE Reply
  BY <1>3, ReplyInv
<1>4. CASE Close
  BY <1>4, CloseInv
<1>5. CASE UNCHANGED smtpVars
  <2>1. SmtpTypes'
    BY <1>5 DEF smtpVars, SmtpIInv, SmtpTypes, SmtpTypeOK
  <2>2. (InStep => InStep') /\ (TookBefore => TookBefore') /\ (Ahead => Ahead')
    BY <1>5 DEF smtpVars, InStep, InTurn, TookBefore, Took, Ahead, Lines, DataIsLast, FirstIs
  <2>3. QED BY <1>5, <2>1, <2>2 DEF smtpVars, SmtpIInv, Mailing, MailAccepted
<1>6. QED BY <1>1, <1>2, <1>3, <1>4, <1>5 DEF SmtpNext

\* The invariant holds in every state of a mail.
THEOREM SmtpInductiveInvariant == SmtpSpec => []SmtpIInv
<1>1. SmtpInit => SmtpIInv
  BY SmtpInitInv
<1>2. SmtpIInv /\ [SmtpNext]_smtpVars => SmtpIInv'
  BY SmtpNextInv
<1>3. QED BY <1>1, <1>2, PTL DEF SmtpSpec

\* The client's state, the server's and what is under way have their types.
THEOREM SmtpTypeCorrect == SmtpSpec => []SmtpTypeOK
<1>1. SmtpIInv => SmtpTypeOK
  BY DEF SmtpIInv, SmtpTypes
<1>2. QED BY <1>1, SmtpInductiveInvariant, PTL

\* A mail reported as sent was taken by the server.
THEOREM MailTaken == SmtpSpec => []MailAccepted
<1>1. SmtpIInv => MailAccepted
  BY DEF SmtpIInv
<1>2. QED BY <1>1, SmtpInductiveInvariant, PTL
=============================================================================
