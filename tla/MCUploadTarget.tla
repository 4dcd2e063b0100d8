--------------------------- MODULE MCUploadTarget ---------------------------
(* Two old blocks fill the day's allowance and the buffer is three      *)
(* blocks: four new-block downloads (800 in the test) take the cycle's   *)
(* bytes past the limit, as 800 blocks pass 800 MB; three whitelisted    *)
(* downloads (20 in the test) pass the 1 MB limit after the restart.     *)
EXTENDS UploadTarget

MCSuccessCount == 2
MCDailyBuffer == 3
MCNewCount == 4
MCWhiteCount == 3
MCRestartLimit == 1

=============================================================================
