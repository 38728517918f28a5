---------------------------- MODULE Conversations ----------------------------
(***************************************************************************)
(* Which chat a prompt belongs to: the Telegram bridge's _sessions and     *)
(* _fresh (telegram.py) and the full-screen client's session_id            *)
(* (tui_full.py), on top of MemoryStore.                                   *)
(*                                                                         *)
(* Both send one prompt at a time, and both take commands while a turn is  *)
(* under way: /new, opening a chat, deleting one.  A terminal learns the   *)
(* id of a new chat only from the turn's first event, which may come after *)
(* its owner's next command; every event of a Telegram turn takes away the *)
(* mark that the chat is fresh.                                            *)
(***************************************************************************)
EXTENDS MemoryStore

CONSTANTS
    Chats,       (* Telegram chats                                             *)
    Terminals,   (* full-screen clients                                        *)
    OwnSession,  (* a Telegram chat's first session, "telegram-<id>"           *)
    NoSession    (* no session yet                                             *)

ASSUME ConversationAssumption ==
    /\ Turns = Chats \cup Terminals /\ Chats \cap Terminals = {}
    /\ OwnSession \in [Chats -> Sessions]
    /\ NoSession \notin Sessions

VARIABLES
    current,     (* _sessions of a chat, session_id of a terminal              *)
    fresh,       (* _fresh: chats whose next turn starts without memories      *)
    begun,       (* per turn: began fresh                                      *)
    untold,      (* terminals that have not read their turn's first event      *)
    listing,     (* per terminal: the list of chats it was shown last          *)
    made         (* ids new_session has made, never made again                 *)

clientVars == <<current, fresh, begun, untold, listing, made>>
vars == <<memoryVars, clientVars>>

Init ==
    /\ MemoryInit
    /\ current = [u \in Turns |-> IF u \in Chats THEN OwnSession[u] ELSE NoSession]
    /\ fresh = {} /\ begun = [u \in Turns |-> FALSE]
    /\ untold = {}
    /\ listing = [t \in Terminals |-> {}]
    /\ made = { OwnSession[c] : c \in Chats }

Replying(u) == turn[u].stage # "idle"

-----------------------------------------------------------------------------
(* Telegram. *)

(* The loop over the turn's events: each takes the mark of its chat away. *)
Seen(c) == fresh' = fresh \ {c}

(* The first event comes in the same step as the question is stored. *)
ChatAsks(c, size) ==
    /\ Begin(c, current[c], "telegram", size)
    /\ begun' = [begun EXCEPT ![c] = c \in fresh]
    /\ Seen(c)
    /\ UNCHANGED <<current, untold, listing, made>>

(* Seeded fault: the events of a reply that was cancelled are still read. *)
LateEvent(c) ==
    /\ c \in fresh /\ Seen(c)
    /\ UNCHANGED <<memoryVars, current, begun, untold, listing, made>>

(* An event that changes nothing in the store. *)
Event(c) ==
    /\ Replying(c) /\ c \in fresh /\ Seen(c)
    /\ UNCHANGED <<memoryVars, current, begun, untold, listing, made>>

(* /new: new_session makes the row before the first prompt is sent. *)
ChatNew(c) ==
    /\ \E s \in Sessions \ made :
         /\ made' = made \cup {s}
         /\ sessions' = Ensured(sessions, s, "telegram")
         /\ current' = [current EXCEPT ![c] = s]
    /\ fresh' = fresh \cup {c}
    /\ UNCHANGED <<messages, nextId, factVars, turn, written, begun, untold, listing>>

-----------------------------------------------------------------------------
(* A terminal. *)

TerminalAsks(t, size) ==
    /\ t \in Terminals
    /\ IF current[t] # NoSession
       THEN Begin(t, current[t], "terminal", size) /\ UNCHANGED made
       ELSE \E s \in Sessions \ made : Begin(t, s, "terminal", size) /\ made' = made \cup {s}
    /\ untold' = untold \cup {t}
    /\ UNCHANGED <<current, fresh, begun, listing>>

(* The event "session" is read. *)
Told(t) ==
    /\ t \in untold
    /\ untold' = untold \ {t}
    /\ current' = [current EXCEPT ![t] = turn[t].session]
    /\ UNCHANGED <<memoryVars, fresh, begun, listing, made>>

TerminalNew(t) ==
    /\ current[t] # NoSession
    /\ current' = [current EXCEPT ![t] = NoSession]
    /\ UNCHANGED <<memoryVars, fresh, begun, untold, listing, made>>

ListChats(t) ==
    /\ listing' = [listing EXCEPT ![t] = Listed("terminal")]
    /\ UNCHANGED <<memoryVars, current, fresh, begun, untold, made>>

(* A number is picked of the list that was shown, however old it is. *)
OpenChat(t, s) ==
    /\ s \in listing[t] /\ current[t] # s
    /\ current' = [current EXCEPT ![t] = s]
    /\ UNCHANGED <<memoryVars, fresh, begun, untold, listing, made>>

(* A chat that is gone already changes nothing.  The list is shown again,      *)
(* unless that request fails.                                                  *)
DeleteChat(t, s) ==
    /\ s \in listing[t]
    /\ Delete(s)
    /\ current' = [current EXCEPT
           ![t] = IF @ = s /\ s \in DOMAIN sessions THEN NoSession ELSE @]
    /\ \/ listing' = [listing EXCEPT ![t] = Listed("terminal")']
       \/ UNCHANGED listing
    /\ UNCHANGED <<fresh, begun, untold, made>>

-----------------------------------------------------------------------------
(* The turn; a terminal has read the first event of a stream before its end. *)

TurnReads(u) ==
    /\ \E found \in SUBSET facts :
         /\ begun[u] => found = {}
         /\ Read(u, found)
    /\ Seen(u)
    /\ UNCHANGED <<current, begun, untold, listing, made>>

TurnRemembers(u, importance) ==
    /\ Remember(u, importance)
    /\ Seen(u)
    /\ UNCHANGED <<current, begun, untold, listing, made>>

TurnAnswers(u, size) ==
    /\ u \notin untold
    /\ Answer(u, size)
    /\ Seen(u)
    /\ begun' = [begun EXCEPT ![u] = FALSE]
    /\ UNCHANGED <<current, untold, listing, made>>

TurnIsAbandoned(u) ==
    /\ Abandon(u)
    /\ begun' = [begun EXCEPT ![u] = FALSE]
    /\ untold' = untold \ {u}
    /\ UNCHANGED <<current, fresh, listing, made>>

Next ==
    \/ \E c \in Chats :
        \/ \E size \in Sizes : ChatAsks(c, size)
        \/ Event(c)
        \/ ChatNew(c)
    \/ \E t \in Terminals :
        \/ \E size \in Sizes : TerminalAsks(t, size)
        \/ Told(t)
        \/ TerminalNew(t)
        \/ ListChats(t)
        \/ \E s \in Sessions : OpenChat(t, s) \/ DeleteChat(t, s)
    \/ \E u \in Turns :
        \/ TurnReads(u)
        \/ \E importance \in Importances : TurnRemembers(u, importance)
        \/ \E size \in Sizes : TurnAnswers(u, size)
        \/ TurnIsAbandoned(u)

Spec == Init /\ [][Next]_vars

-----------------------------------------------------------------------------
TypeOK ==
    /\ MemoryTypeOK
    /\ current \in [Turns -> Sessions \cup {NoSession}]
    /\ fresh \subseteq Chats /\ begun \in [Turns -> BOOLEAN]
    /\ untold \subseteq Terminals
    /\ listing \in [Terminals -> SUBSET Sessions]
    /\ made \subseteq Sessions

(* A chat of the Telegram bridge is never a terminal's: a terminal neither    *)
(* continues it nor can delete it, whatever chats were begun, reopened and    *)
(* deleted before, and a terminal's new chat is never one (memory.py,         *)
(* list_sessions by channel; agent.py, ensure_session before add_message).    *)
ChatsStayApart ==
    \A c \in Chats :
        /\ current[c] \notin Listed("terminal")
        /\ \A t \in Terminals : current[t] # current[c] /\ current[c] \notin listing[t]

(* The mark that /new sets goes only with the turn it was set for, which      *)
(* begins in the new session and without memories: "Earlier context is set    *)
(* aside" (telegram.py).  The one exception is what the code does: a reply of *)
(* the session before, still under way, takes the mark with its next event,   *)
(* and the first turn of the new session then recalls memories.               *)
FreshIsUsed ==
    [][\A c \in fresh \ fresh' :
          \/ ~Replying(c) /\ Replying(c)' /\ begun'[c] /\ turn'[c].session = current[c]
          \/ Replying(c) /\ turn[c].session # current[c]]_vars
=============================================================================
