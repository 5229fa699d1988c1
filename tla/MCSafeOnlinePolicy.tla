-------------------------- MODULE MCSafeOnlinePolicy --------------------------
(* SafeOnlinePolicy for TLC.  Transaction ids are handed out in one order, so  *)
(* none of them may be permuted.                                               *)
EXTENDS SafeOnlinePolicy
===============================================================================
