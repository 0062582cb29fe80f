-------------------------------- MODULE Scores --------------------------------
(***************************************************************************)
(* The arithmetic of src/shared/reputation.ts, in TENTHS of a point so that *)
(* the +0.2 of "valid-sync" and one restart's decay by 0.9 stay integers.   *)
(***************************************************************************)
EXTENDS Integers

ScoreMin == -1000
ScoreMax == 1000

EventDeltas ==
  [connect |-> 20, valid_sync |-> 2, file_served |-> 30,
   forged_entry |-> -50, bad_revocation |-> -30, file_failed |-> -30,
   keepalive_timeout |-> -20, pc_failed |-> -10]

Clamp(s) == IF s > ScoreMax THEN ScoreMax ELSE IF s < ScoreMin THEN ScoreMin ELSE s

(* record() called k times with the same event.                             *)
RecordTimes(s, event, k) == Clamp(s + k * EventDeltas[event])

Record(s, event) == RecordTimes(s, event, 1)

(* score *= DECAY, rounded toward zero to a tenth.                          *)
Decayed(s) == IF s >= 0 THEN (9 * s) \div 10 ELSE -((-9 * s) \div 10)

(* fromJSON(): a score below half a point is dropped, that is, back at 0.   *)
Reloaded(s) == IF Decayed(s) \in -4..4 THEN 0 ELSE Decayed(s)
=============================================================================
