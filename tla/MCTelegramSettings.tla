------------------------ MODULE MCTelegramSettings ------------------------
(* One or two chats and bots.  Two edits and two updates are the least that
   let an enrolment meet an edit with another edit before or after it, and a
   token change meet an update of each bot. *)
EXTENDS TelegramSettings

CONSTANTS c1, c2, t1, t2
=============================================================================
