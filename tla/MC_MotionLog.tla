----------------------------- MODULE MC_MotionLog -----------------------------
(***************************************************************************)
(* Three of the thirteen columns of the motion log, the ones the scripts  *)
(* plot; two integer tokens, a float-only token and the empty field;      *)
(* lines of up to one field more than the header row; files of up to two  *)
(* lines.                                                                  *)
(***************************************************************************)
EXTENDS MotionLog

MCHeaders == <<"tick_us", "cmd_s", "averaged_voltage">>

MCFieldValues == {"1", "2", "0.5", ""}

MCIntValue == ("1" :> 1) @@ ("2" :> 2)

MCFloatLiterals == {"1", "2", "0.5"}

=============================================================================
