------------------------------- MODULE Frames -------------------------------
(***************************************************************************)
(* How an answer read from a port is checked before its values are taken:  *)
(* calculate_data of the protocols in src/protocol_frame that              *)
(* init_protocol_lib registers.  Of a frame matters how much of it was     *)
(* read, against check_len, and whether each thing a protocol compares is  *)
(* what it should be: address, function, both bytes of the CRC and, for    *)
(* the UPS, the first and the last character.                              *)
(***************************************************************************)

ERR_RETURN_LEN_ZERO        == 100
ERR_RETURN_LEN_UNMATCH     == 101
ERR_RETURN_CRC_UNMATCH     == 102
ERR_RETURN_ADDRESS_UNMATCH == 103

Checked == {"address", "function", "crc_high", "crc_low", "begin", "end"}
Frame   == [len : {"zero", "short", "full"}, right : SUBSET Checked]

Silence == [len |-> "zero", right |-> {}]
Intact  == [len |-> "full", right |-> Checked]
\* The answer to another request of the same device: both have the same length.
AnswerToOther == [Intact EXCEPT !.right = @ \ {"function"}]

Wrong(frame, both) == both \cap frame.right = {}

\* environment_k25, external_io_860: address and function must both be wrong for the frame
\* to be refused, and so must both bytes of the CRC.
CheckModbus(frame) ==
    IF Wrong(frame, {"address", "function"}) THEN ERR_RETURN_ADDRESS_UNMATCH
    ELSE IF Wrong(frame, {"crc_high", "crc_low"}) THEN ERR_RETURN_CRC_UNMATCH ELSE 0

\* ups: '(' and CR.
CheckUps(frame) ==
    IF Wrong(frame, {"begin", "end"}) THEN ERR_RETURN_ADDRESS_UNMATCH ELSE 0

\* calculate_data: the length first; external_io_816d looks at nothing else.
calculate_data(protocol, frame) ==
    CASE frame.len = "zero"  -> ERR_RETURN_LEN_ZERO
      [] frame.len = "short" -> ERR_RETURN_LEN_UNMATCH
      [] frame.len = "full"  ->
            CASE protocol \in {"k25", "io_860"} -> CheckModbus(frame)
              [] protocol = "ups"               -> CheckUps(frame)
              [] protocol = "io_816d"           -> 0
=============================================================================
