----------------------------- MODULE MCRecordBus -----------------------------
(* Instances of RecordBus for TLC: one polling thread, sms, email, data_write and main. *)
EXTENDS RecordBus, TLC

CONSTANTS poller, m1, m2, a1, a2, a3

MCStartOrder == <<Writer, Sms, Email, poller>>
MCWithoutPollers == <<Writer, Sms, Email>>
BlockSymmetry == Permutations(MsgBlocks) \cup Permutations(AlarmBlocks)
=============================================================================
