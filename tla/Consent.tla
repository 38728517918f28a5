------------------------------- MODULE Consent -------------------------------
(***************************************************************************)
(* What every way of asking the owner promises (security.py,               *)
(* PermissionManager.authorize: an action goes on when the callback of its *)
(* prompt returned true): the owner says one thing to a prompt, a prompt   *)
(* is decided once, and it is granted only after a yes to that prompt.  It *)
(* may be denied at any time, whatever was said: by a deadline, a          *)
(* cancellation or a lost connection.                                      *)
(*                                                                         *)
(* ChatPermission (the daemon's end of a socket) and TuiWorker (the        *)
(* client's end) implement it.                                             *)
(***************************************************************************)
CONSTANT Prompts

VARIABLE state   (* per prompt: not asked yet, waiting, what the owner said to *)
                 (* it, and what became of it                                  *)

States == {"unasked", "open", "yes", "no", "granted", "denied"}

Init == state = [p \in Prompts |-> "unasked"]

Becomes(p, what) == state' = [state EXCEPT ![p] = what]

Ask(p) == state[p] = "unasked" /\ Becomes(p, "open")

Say(p, answer) == state[p] = "open" /\ Becomes(p, answer)

Grant(p) == state[p] = "yes" /\ Becomes(p, "granted")

Deny(p) == state[p] \in {"unasked", "open", "yes", "no"} /\ Becomes(p, "denied")

Next ==
    \E p \in Prompts :
        \/ Ask(p)
        \/ \E answer \in {"yes", "no"} : Say(p, answer)
        \/ Grant(p)
        \/ Deny(p)

Spec == Init /\ [][Next]_state
=============================================================================
