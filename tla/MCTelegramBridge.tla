-------------------------- MODULE MCTelegramBridge --------------------------
(* One or two chats on one bridge. *)
EXTENDS TelegramBridge

CONSTANTS c1, c2

MCChats == {c1, c2}
MCChat  == {c1}
=============================================================================
