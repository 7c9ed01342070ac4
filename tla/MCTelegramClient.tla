-------------------------- MODULE MCTelegramClient --------------------------
(* Two calls: what the first one leaves behind, a limit or a request adrift, *)
(* meets the second.  Three attempts, as in the code; the limit is renewed   *)
(* while an earlier one has just passed.                                     *)
EXTENDS TelegramClient
=============================================================================
