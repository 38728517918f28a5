------------------------- MODULE ConversationsProofs -------------------------
(* Which chat a prompt belongs to, for any number of chats, terminals,        *)
(* sessions, messages and facts.                                              *)
EXTENDS Conversations, FiniteSetTheorems, TLAPS

(* What the proof needs of the types: of a turn, its session and its stage. *)
Shape ==
    /\ current = [u \in Turns |-> current[u]]
    /\ turn = [u \in Turns |-> turn[u]]
    /\ \A u \in Turns :
           turn[u] = [stage |-> turn[u].stage, session |-> turn[u].session,
                      id |-> turn[u].id, kept |-> turn[u].kept]
    /\ \A c \in Chats : current[c] \in Sessions
    /\ listing = [t \in Terminals |-> listing[t]]

(* Ids in use were made: a new one is nobody's. *)
Made ==
    /\ DOMAIN sessions \subseteq made
    /\ \A u \in Turns : /\ current[u] # NoSession => current[u] \in made
                        /\ Replying(u) => turn[u].session \in made
    /\ \A t \in Terminals : listing[t] \subseteq made

(* A chat's session has no row of a terminal; the row of a chat's turn is     *)
(* there, so that storing its answer makes no row for a terminal.             *)
ChatsRows ==
    \A c \in Chats :
        /\ current[c] \in DOMAIN sessions => sessions[current[c]] = "telegram"
        /\ Replying(c) => /\ turn[c].session \in DOMAIN sessions
                          /\ sessions[turn[c].session] = "telegram"

(* A terminal has none of them, nor does the turn it has started, nor was it   *)
(* shown one.                                                                 *)
Apart ==
    \A c \in Chats, t \in Terminals :
        /\ current[t] # current[c]
        /\ Replying(t) => turn[t].session # current[c]
        /\ current[c] \notin listing[t]
        /\ Replying(c) => turn[c].session \notin listing[t]

UntoldIsReplying == \A t \in untold : t \in Terminals /\ Replying(t)

(* A reply that goes on in a chat with the mark is one of a session before. *)
FreshIsNew == \A c \in fresh : c \in Chats /\ (Replying(c) => turn[c].session # current[c])

IInv == Shape /\ Made /\ ChatsRows /\ Apart /\ UntoldIsReplying /\ FreshIsNew

USE ConversationAssumption DEF ConversationAssumption

LEMMA InitIInv == Init => IInv
  <1> SUFFICES ASSUME Init PROVE IInv
    OBVIOUS
  <1> USE DEF Init, MemoryInit, NoTurn, Replying
  <1>1. Shape
    BY DEF Shape
  <1>2. DOMAIN sessions = {}
    OBVIOUS
  <1>3. Made /\ ChatsRows
    BY <1>2 DEF Made, ChatsRows
  <1>4. Apart /\ UntoldIsReplying /\ FreshIsNew
    BY DEF Apart, UntoldIsReplying, FreshIsNew
  <1> QED BY <1>1, <1>3, <1>4 DEF IInv

-----------------------------------------------------------------------------
(* What the operations of the store do to rows and turns. *)

OthersRun(t) == \A u \in Turns : u # t => turn'[u] = turn[u]

LEMMA RowIsMade ==
    ASSUME NEW rows, NEW s, NEW channel, sessions' = Ensured(rows, s, channel)
    PROVE  /\ DOMAIN sessions' = DOMAIN rows \cup {s}
           /\ \A x \in DOMAIN rows : sessions'[x] = rows[x]
           /\ s \notin DOMAIN rows => sessions'[s] = channel
  BY DEF Ensured

LEMMA BeginEffect ==
    ASSUME Shape, NEW t \in Turns, NEW s, NEW channel, NEW size, Begin(t, s, channel, size)
    PROVE  /\ DOMAIN sessions' = DOMAIN sessions \cup {s}
           /\ \A x \in DOMAIN sessions : sessions'[x] = sessions[x]
           /\ s \notin DOMAIN sessions => sessions'[s] = channel
           /\ turn'[t].stage = "asked" /\ turn'[t].session = s
           /\ OthersRun(t) /\ ~Replying(t)
           /\ turn' = [u \in Turns |-> turn'[u]]
           /\ \A u \in Turns :
                  turn'[u] = [stage |-> turn'[u].stage, session |-> turn'[u].session,
                              id |-> turn'[u].id, kept |-> turn'[u].kept]
  <1>1. PICK rows : rows = Ensured(sessions, s, channel)
    OBVIOUS
  <1>2. /\ DOMAIN rows = DOMAIN sessions \cup {s}
        /\ \A x \in DOMAIN sessions : rows[x] = sessions[x]
        /\ s \notin DOMAIN sessions => rows[s] = channel
    BY <1>1 DEF Ensured
  <1>3. sessions' = Ensured(rows, s, "terminal")
    BY <1>1 DEF Begin, AddMessage, TurnRow
  <1>4. DOMAIN sessions' = DOMAIN rows /\ \A x \in DOMAIN rows : sessions'[x] = rows[x]
    BY <1>2, <1>3, RowIsMade
  <1>5. /\ turn[t].stage = "idle"
        /\ turn' = [turn EXCEPT ![t] =
               [stage |-> "asked", session |-> s, id |-> nextId, kept |-> {}]]
    BY DEF Begin
  <1>6. turn'[t] = [stage |-> "asked", session |-> s, id |-> nextId, kept |-> {}]
    BY <1>5 DEF Shape
  <1>7. OthersRun(t) /\ turn' = [u \in Turns |-> turn'[u]]
    BY <1>5 DEF Shape, OthersRun
  <1>8. ASSUME NEW u \in Turns
        PROVE  turn'[u] = [stage |-> turn'[u].stage, session |-> turn'[u].session,
                           id |-> turn'[u].id, kept |-> turn'[u].kept]
    BY <1>6, <1>7 DEF Shape, OthersRun
  <1> QED BY <1>2, <1>4, <1>5, <1>6, <1>7, <1>8 DEF Replying

LEMMA ReadEffect ==
    ASSUME Shape, NEW t \in Turns, NEW found, Read(t, found)
    PROVE  /\ sessions' = sessions
           /\ turn'[t].stage = "working" /\ turn'[t].session = turn[t].session
           /\ OthersRun(t) /\ Replying(t)
           /\ turn' = [u \in Turns |-> turn'[u]]
           /\ \A u \in Turns :
                  turn'[u] = [stage |-> turn'[u].stage, session |-> turn'[u].session,
                              id |-> turn'[u].id, kept |-> turn'[u].kept]
  <1>1. PICK kept : turn' = [turn EXCEPT ![t].stage = "working", ![t].kept = kept]
    BY DEF Read
  <1>2. sessions' = sessions /\ Replying(t)
    BY DEF Read, Replying
  <1>3. turn[t] = [stage |-> turn[t].stage, session |-> turn[t].session,
                   id |-> turn[t].id, kept |-> turn[t].kept]
    BY DEF Shape
  <1>4. turn'[t] = [stage |-> "working", session |-> turn[t].session,
                    id |-> turn[t].id, kept |-> kept]
    BY <1>1, <1>3 DEF Shape
  <1>5. OthersRun(t) /\ turn' = [u \in Turns |-> turn'[u]]
    BY <1>1 DEF Shape, OthersRun
  <1>6. ASSUME NEW u \in Turns
        PROVE  turn'[u] = [stage |-> turn'[u].stage, session |-> turn'[u].session,
                           id |-> turn'[u].id, kept |-> turn'[u].kept]
    BY <1>4, <1>5 DEF Shape, OthersRun
  <1> QED BY <1>2, <1>4, <1>5, <1>6

LEMMA EndEffect ==
    ASSUME Shape, NEW t \in Turns, turn' = [turn EXCEPT ![t] = NoTurn]
    PROVE  /\ turn'[t].stage = "idle" /\ OthersRun(t)
           /\ turn' = [u \in Turns |-> turn'[u]]
           /\ \A u \in Turns :
                  turn'[u] = [stage |-> turn'[u].stage, session |-> turn'[u].session,
                              id |-> turn'[u].id, kept |-> turn'[u].kept]
  <1>1. turn'[t] = NoTurn /\ OthersRun(t) /\ turn' = [u \in Turns |-> turn'[u]]
    BY DEF Shape, OthersRun
  <1>2. ASSUME NEW u \in Turns
        PROVE  turn'[u] = [stage |-> turn'[u].stage, session |-> turn'[u].session,
                           id |-> turn'[u].id, kept |-> turn'[u].kept]
    BY <1>1 DEF Shape, OthersRun, NoTurn
  <1> QED BY <1>1, <1>2 DEF NoTurn

-----------------------------------------------------------------------------
LEMMA ChatAsksStep ==
    ASSUME IInv, NEW c \in Chats, NEW size \in Sizes, ChatAsks(c, size)
    PROVE  IInv'
  <1>0. Shape /\ Made /\ ChatsRows /\ Apart /\ UntoldIsReplying /\ FreshIsNew /\ c \in Turns
    BY DEF IInv
  <1>1. Begin(c, current[c], "telegram", size)
    BY DEF ChatAsks
  <1>2. /\ current' = current /\ made' = made /\ untold' = untold
        /\ fresh' = fresh \ {c} /\ listing' = listing
    BY DEF ChatAsks, Seen
  <1>3. /\ DOMAIN sessions' = DOMAIN sessions \cup {current[c]}
        /\ \A x \in DOMAIN sessions : sessions'[x] = sessions[x]
        /\ current[c] \notin DOMAIN sessions => sessions'[current[c]] = "telegram"
        /\ turn'[c].stage = "asked" /\ turn'[c].session = current[c]
        /\ OthersRun(c) /\ ~Replying(c)
    BY <1>0, <1>1, BeginEffect
  <1>4. Shape'
    <2>1. /\ turn' = [u \in Turns |-> turn'[u]]
          /\ \A u \in Turns :
                 turn'[u] = [stage |-> turn'[u].stage, session |-> turn'[u].session,
                             id |-> turn'[u].id, kept |-> turn'[u].kept]
      BY <1>0, <1>1, BeginEffect
    <2> QED BY <1>0, <1>2, <2>1 DEF Shape
  <1>5. current[c] \in made
    BY <1>0 DEF Made, Shape
  <1>6. Made'
    BY <1>0, <1>2, <1>3, <1>5 DEF Made, OthersRun, Replying
  <1>7. ChatsRows'
    <2> SUFFICES ASSUME NEW d \in Chats
                 PROVE  /\ current'[d] \in DOMAIN sessions' => sessions'[current'[d]] = "telegram"
                        /\ turn'[d].stage # "idle" =>
                               /\ turn'[d].session \in DOMAIN sessions'
                               /\ sessions'[turn'[d].session] = "telegram"
      BY DEF ChatsRows, Replying
    <2>1. sessions'[current[c]] = "telegram" /\ current[c] \in DOMAIN sessions'
      BY <1>0, <1>3 DEF ChatsRows
    <2>2. current'[d] \in DOMAIN sessions' => sessions'[current'[d]] = "telegram"
      BY <1>0, <1>2, <1>3, <2>1 DEF ChatsRows
    <2>3. CASE d = c
      BY <1>3, <2>1, <2>2, <2>3
    <2>4. CASE d # c
      BY <1>0, <1>3, <2>2, <2>4 DEF ChatsRows, OthersRun, Replying
    <2> QED BY <2>3, <2>4
  <1>8. Apart' /\ UntoldIsReplying' /\ FreshIsNew'
    <2>1. \A t \in Terminals : t \in Turns /\ t # c
      OBVIOUS
    <2>2. Apart' /\ UntoldIsReplying'
      BY <1>0, <1>2, <1>3, <2>1 DEF Apart, UntoldIsReplying, OthersRun, Replying
    <2>3. FreshIsNew'
      BY <1>0, <1>2, <1>3 DEF FreshIsNew, OthersRun, Replying
    <2> QED BY <2>2, <2>3
  <1> QED BY <1>4, <1>6, <1>7, <1>8 DEF IInv

LEMMA EventStep == ASSUME IInv, NEW c \in Chats, Event(c) PROVE IInv'
  BY DEF Event, Seen, memoryVars, Replying, IInv, Shape, Made, ChatsRows, Apart,
         UntoldIsReplying, FreshIsNew

LEMMA ChatNewStep == ASSUME IInv, NEW c \in Chats, ChatNew(c) PROVE IInv'
  <1>0. Shape /\ Made /\ ChatsRows /\ Apart /\ UntoldIsReplying /\ FreshIsNew /\ c \in Turns
    BY DEF IInv
  <1>1. PICK s \in Sessions \ made :
            /\ made' = made \cup {s}
            /\ sessions' = Ensured(sessions, s, "telegram")
            /\ current' = [current EXCEPT ![c] = s]
    BY DEF ChatNew
  <1>2. /\ DOMAIN sessions' = DOMAIN sessions \cup {s}
        /\ \A x \in DOMAIN sessions : sessions'[x] = sessions[x]
        /\ sessions'[s] = "telegram"
    BY <1>0, <1>1, RowIsMade DEF Made
  <1>3. /\ turn' = turn /\ untold' = untold /\ fresh' = fresh \cup {c} /\ listing' = listing
    BY DEF ChatNew
  <1>4. /\ current'[c] = s /\ \A u \in Turns : u # c => current'[u] = current[u]
        /\ current' = [u \in Turns |-> current'[u]]
    BY <1>0, <1>1 DEF Shape
  <1>5. Shape'
    BY <1>0, <1>3, <1>4 DEF Shape
  <1>6. Made'
    BY <1>0, <1>1, <1>2, <1>3, <1>4 DEF Made, Replying
  <1>7. ChatsRows'
    <2>1. ASSUME NEW d \in Chats, d # c
          PROVE  current'[d] = current[d] /\ current[d] \in made /\ current[d] # s
      BY <1>0, <1>1, <1>4, <2>1 DEF Made, Shape
    <2> QED BY <1>0, <1>2, <1>3, <1>4, <2>1 DEF ChatsRows, Replying
  <1>8. Apart'
    <2>1. ASSUME NEW t \in Terminals
          PROVE  /\ current'[t] = current[t] /\ current[t] # s
                 /\ Replying(t) => turn[t].session # s
                 /\ s \notin listing[t]
      BY <1>0, <1>1, <1>4 DEF Made
    <2> QED BY <1>0, <1>3, <1>4, <2>1 DEF Apart, Replying
  <1>9. UntoldIsReplying'
    BY <1>0, <1>3 DEF UntoldIsReplying, Replying
  <1>10. FreshIsNew'
    <2>1. Replying(c) => turn[c].session # s
      BY <1>0, <1>1 DEF Made
    <2>2. \A d \in fresh' : d \in Chats /\ d \in Turns
      BY <1>0, <1>3 DEF FreshIsNew
    <2> QED BY <1>0, <1>3, <1>4, <2>1, <2>2 DEF FreshIsNew, Replying
  <1> QED BY <1>5, <1>6, <1>7, <1>8, <1>9, <1>10 DEF IInv

LEMMA TerminalAsksStep ==
    ASSUME IInv, NEW t \in Terminals, NEW size \in Sizes, TerminalAsks(t, size)
    PROVE  IInv'
  <1>0. Shape /\ Made /\ ChatsRows /\ Apart /\ UntoldIsReplying /\ FreshIsNew /\ t \in Turns
    BY DEF IInv
  <1>1. PICK s : /\ Begin(t, s, "terminal", size)
                 /\ \/ s = current[t] /\ s # NoSession /\ made' = made
                    \/ s \in Sessions \ made /\ made' = made \cup {s}
    BY DEF TerminalAsks
  <1>2. /\ DOMAIN sessions' = DOMAIN sessions \cup {s}
        /\ \A x \in DOMAIN sessions : sessions'[x] = sessions[x]
        /\ turn'[t].stage = "asked" /\ turn'[t].session = s
        /\ OthersRun(t) /\ ~Replying(t)
    BY <1>0, <1>1, BeginEffect
  <1>3. /\ current' = current /\ untold' = untold \cup {t}
        /\ fresh' = fresh /\ listing' = listing
    BY DEF TerminalAsks
  <1>4. s \in made' /\ made \subseteq made'
    BY <1>0, <1>1 DEF Made
  <1>5. ASSUME NEW c \in Chats PROVE c # t /\ s # current[c]
    <2>1. current[c] \in made /\ current[t] # current[c]
      BY <1>0 DEF Made, Apart, Shape
    <2> QED BY <1>1, <2>1
  <1>6. Shape'
    <2>1. /\ turn' = [u \in Turns |-> turn'[u]]
          /\ \A u \in Turns :
                 turn'[u] = [stage |-> turn'[u].stage, session |-> turn'[u].session,
                             id |-> turn'[u].id, kept |-> turn'[u].kept]
      BY <1>0, <1>1, BeginEffect
    <2> QED BY <1>0, <1>3, <2>1 DEF Shape
  <1>7. Made'
    BY <1>0, <1>2, <1>3, <1>4 DEF Made, OthersRun, Replying
  <1>8. ChatsRows'
    BY <1>0, <1>2, <1>3, <1>5 DEF ChatsRows, OthersRun, Replying
  <1>9. Apart'
    BY <1>0, <1>2, <1>3, <1>5 DEF Apart, OthersRun, Replying
  <1>10. UntoldIsReplying' /\ FreshIsNew'
    BY <1>0, <1>2, <1>3, <1>5 DEF UntoldIsReplying, FreshIsNew, OthersRun, Replying
  <1> QED BY <1>6, <1>7, <1>8, <1>9, <1>10 DEF IInv

(* A step that only changes which chat a terminal has open. *)
LEMMA TerminalMoves ==
    ASSUME IInv, NEW t \in Terminals, NEW s,
           s = NoSession \/ (s \in made /\ \A c \in Chats : s # current[c]),
           current' = [current EXCEPT ![t] = s],
           untold' \subseteq untold,
           UNCHANGED <<memoryVars, fresh, listing, made>>
    PROVE  IInv'
  <1>0. Shape /\ Made /\ ChatsRows /\ Apart /\ UntoldIsReplying /\ FreshIsNew /\ t \in Turns
    BY DEF IInv
  <1>1. /\ current'[t] = s /\ \A u \in Turns : u # t => current'[u] = current[u]
        /\ current' = [u \in Turns |-> current'[u]]
        /\ \A c \in Chats : c # t /\ c \in Turns
    BY <1>0 DEF Shape
  <1>2. turn' = turn /\ sessions' = sessions
    BY DEF memoryVars
  <1>3. Shape' /\ Made' /\ ChatsRows'
    BY <1>0, <1>1, <1>2 DEF Shape, Made, ChatsRows, Replying
  <1>4. \A c \in Chats : s # current[c]
    BY <1>0 DEF Shape
  <1>5. Apart'
    BY <1>0, <1>1, <1>2, <1>4 DEF Apart, Replying
  <1>6. UntoldIsReplying' /\ FreshIsNew'
    BY <1>0, <1>2 DEF UntoldIsReplying, FreshIsNew, Replying
  <1> QED BY <1>3, <1>5, <1>6 DEF IInv

LEMMA TerminalSteps ==
    ASSUME IInv, NEW t \in Terminals,
           \/ Told(t) \/ TerminalNew(t) \/ ListChats(t)
           \/ \E s \in Sessions : OpenChat(t, s) \/ DeleteChat(t, s)
    PROVE  IInv'
  <1>0. Shape /\ Made /\ ChatsRows /\ Apart /\ UntoldIsReplying /\ FreshIsNew /\ t \in Turns
    BY DEF IInv
  <1>1. CASE Told(t)
    <2>1. turn[t].session \in made /\ \A c \in Chats : turn[t].session # current[c]
      BY <1>0, <1>1 DEF Told, UntoldIsReplying, Made, Apart
    <2> QED BY <1>1, <2>1, TerminalMoves DEF Told
  <1>2. CASE TerminalNew(t)
    BY <1>2, TerminalMoves DEF TerminalNew
  <1>3. ASSUME NEW s \in Sessions, OpenChat(t, s) PROVE IInv'
    <2>1. s \in made /\ \A c \in Chats : s # current[c]
      BY <1>0, <1>3 DEF OpenChat, Made, Apart
    <2> QED BY <1>3, <2>1, TerminalMoves DEF OpenChat
  <1>4. ASSUME NEW s \in Sessions, DeleteChat(t, s) PROVE IInv'
    <2>1. /\ sessions' = Restrict(sessions, DOMAIN sessions \ {s})
          /\ current' = [current EXCEPT
                 ![t] = IF @ = s /\ s \in DOMAIN sessions THEN NoSession ELSE @]
          /\ turn' = turn
          /\ UNCHANGED <<fresh, begun, untold, made>>
      BY <1>4 DEF DeleteChat, Delete
    <2>2. /\ DOMAIN sessions' = DOMAIN sessions \ {s}
          /\ \A x \in DOMAIN sessions' : sessions'[x] = sessions[x]
      BY <2>1 DEF Restrict
    <2>3. /\ \A u \in Turns : u # t => current'[u] = current[u]
          /\ current'[t] \in {NoSession, current[t]}
          /\ current' = [u \in Turns |-> current'[u]]
          /\ \A c \in Chats : c # t /\ c \in Turns
      BY <1>0, <2>1 DEF Shape
    <2>4. ChatsRows'
      <3>1. \A c \in Chats : Replying(c) => turn[c].session # s
        BY <1>0, <1>4 DEF DeleteChat, Apart
      <3> QED BY <1>0, <2>1, <2>2, <2>3, <3>1 DEF ChatsRows, Replying
    <2>5. \/ listing' = [listing EXCEPT ![t] = Listed("terminal")']
          \/ listing' = listing
      BY <1>4 DEF DeleteChat
    <2>6. /\ Listed("terminal")' \subseteq DOMAIN sessions'
          /\ \A c \in Chats : current[c] \notin Listed("terminal")'
          /\ \A c \in Chats : Replying(c) => turn[c].session \notin Listed("terminal")'
      BY <2>1, <2>3, <2>4 DEF Listed, ChatsRows, Replying
    <2>7. /\ listing' = [k \in Terminals |-> listing'[k]]
          /\ \A k \in Terminals : /\ listing'[k] \subseteq made
                                  /\ \A c \in Chats :
                                        /\ current[c] \notin listing'[k]
                                        /\ Replying(c) => turn[c].session \notin listing'[k]
      BY <1>0, <2>2, <2>5, <2>6 DEF Shape, Made, Apart
    <2>8. Shape' /\ Made'
      BY <1>0, <2>1, <2>2, <2>3, <2>7 DEF Shape, Made, Replying
    <2>9. Apart'
      <3>1. \A c \in Chats : current[c] # NoSession
        BY <1>0 DEF Shape
      <3> QED BY <1>0, <2>1, <2>3, <2>7, <3>1 DEF Apart, Replying
    <2>10. UntoldIsReplying' /\ FreshIsNew'
      BY <1>0, <2>1 DEF UntoldIsReplying, FreshIsNew, Replying
    <2> QED BY <2>4, <2>8, <2>9, <2>10 DEF IInv
  <1>5. CASE ListChats(t)
    <2>1. /\ listing' = [listing EXCEPT ![t] = Listed("terminal")]
          /\ UNCHANGED <<current, fresh, untold, made, turn, sessions>>
      BY <1>5 DEF ListChats, memoryVars
    <2>2. /\ Listed("terminal") \subseteq DOMAIN sessions
          /\ \A c \in Chats : /\ current[c] \notin Listed("terminal")
                              /\ Replying(c) => turn[c].session \notin Listed("terminal")
      BY <1>0 DEF Listed, ChatsRows
    <2>3. /\ listing' = [k \in Terminals |-> listing'[k]]
          /\ \A k \in Terminals : /\ listing'[k] \subseteq made
                                  /\ \A c \in Chats :
                                        /\ current[c] \notin listing'[k]
                                        /\ Replying(c) => turn[c].session \notin listing'[k]
      BY <1>0, <2>1, <2>2 DEF Shape, Made, Apart
    <2>4. Shape' /\ Made' /\ Apart'
      BY <1>0, <2>1, <2>3 DEF Shape, Made, Apart, Replying
    <2>5. ChatsRows' /\ UntoldIsReplying' /\ FreshIsNew'
      BY <1>0, <2>1 DEF ChatsRows, UntoldIsReplying, FreshIsNew, Replying
    <2> QED BY <2>4, <2>5 DEF IInv
  <1> QED BY <1>1, <1>2, <1>3, <1>4, <1>5

(* A turn goes on or ends: chats and rows that matter stay as they are. *)
LEMMA TurnGoesOn ==
    ASSUME IInv, NEW u \in Turns, Replying(u), Shape',
           turn'[u].stage = "idle" \/ turn'[u].session = turn[u].session,
           turn'[u].stage = "idle" => u \notin untold',
           OthersRun(u),
           DOMAIN sessions \subseteq DOMAIN sessions',
           DOMAIN sessions' \subseteq DOMAIN sessions \cup {turn[u].session},
           \A x \in DOMAIN sessions : sessions'[x] = sessions[x],
           UNCHANGED <<current, listing, made>>,
           untold' \subseteq untold, fresh' \subseteq fresh
    PROVE  IInv'
  <1>0. Shape /\ Made /\ ChatsRows /\ Apart /\ UntoldIsReplying /\ FreshIsNew
    BY DEF IInv
  <1>1. \A v \in Turns : turn'[v].stage # "idle" =>
            turn[v].stage # "idle" /\ turn'[v].session = turn[v].session
    BY DEF OthersRun, Replying
  <1>2. Made'
    BY <1>0, <1>1 DEF Made, Replying
  <1>3. ASSUME NEW c \in Chats, current[c] \in DOMAIN sessions'
        PROVE  current[c] \in DOMAIN sessions
    <2>1. CASE u = c
      BY <1>0, <1>3, <2>1 DEF ChatsRows
    <2>2. CASE u \in Terminals
      BY <1>0, <1>3, <2>2 DEF Apart
    <2> QED BY <1>3, <2>1, <2>2, <1>0 DEF ChatsRows
  <1>4. ChatsRows'
    BY <1>0, <1>1, <1>3 DEF ChatsRows, Replying
  <1>5. Apart' /\ FreshIsNew'
    <2>1. Apart'
      BY <1>0, <1>1 DEF Apart, Replying
    <2>2. FreshIsNew'
      <3>1. \A c \in fresh' : c \in Chats /\ c \in Turns /\ (Replying(c) => turn[c].session # current[c])
        BY <1>0 DEF FreshIsNew
      <3> QED BY <1>1, <3>1 DEF FreshIsNew, Replying
    <2> QED BY <2>1, <2>2
  <1>6. UntoldIsReplying'
    BY <1>0 DEF UntoldIsReplying, OthersRun, Replying
  <1> QED BY <1>2, <1>4, <1>5, <1>6 DEF IInv

LEMMA TurnSteps ==
    ASSUME IInv, NEW u \in Turns,
           \/ TurnReads(u) \/ \E importance \in Importances : TurnRemembers(u, importance)
           \/ \E size \in Sizes : TurnAnswers(u, size)
           \/ TurnIsAbandoned(u)
    PROVE  IInv'
  <1>0. Shape
    BY DEF IInv
  <1>1. CASE TurnReads(u)
    <2>1. PICK found : Read(u, found)
      BY <1>1 DEF TurnReads
    <2>2. /\ current' = current /\ made' = made /\ untold' = untold
          /\ fresh' = fresh \ {u} /\ listing' = listing
      BY <1>1 DEF TurnReads, Seen
    <2>3. /\ sessions' = sessions
          /\ turn'[u].stage = "working" /\ turn'[u].session = turn[u].session
          /\ OthersRun(u) /\ Replying(u)
      BY <1>0, <2>1, ReadEffect
    <2>4. Shape'
      <3>1. /\ turn' = [v \in Turns |-> turn'[v]]
            /\ \A v \in Turns :
                   turn'[v] = [stage |-> turn'[v].stage, session |-> turn'[v].session,
                               id |-> turn'[v].id, kept |-> turn'[v].kept]
        BY <1>0, <2>1, ReadEffect
      <3> QED BY <1>0, <2>2, <3>1 DEF Shape
    <2> QED BY <2>2, <2>3, <2>4, TurnGoesOn
  <1>2. ASSUME NEW importance \in Importances, TurnRemembers(u, importance) PROVE IInv'
    <2>1. /\ turn[u].stage = "working" /\ turn' = turn /\ sessions' = sessions
          /\ UNCHANGED <<current, listing, made, untold>> /\ fresh' = fresh \ {u}
      BY <1>2 DEF TurnRemembers, Remember, Seen
    <2>2. Shape' /\ OthersRun(u) /\ Replying(u) /\ turn'[u].stage # "idle"
      BY <1>0, <2>1 DEF Shape, OthersRun, Replying
    <2> QED BY <2>1, <2>2, TurnGoesOn
  <1>3. ASSUME NEW size \in Sizes, TurnAnswers(u, size) PROVE IInv'
    <2>1. /\ turn[u].stage = "working" /\ u \notin untold
          /\ turn' = [turn EXCEPT ![u] = NoTurn]
          /\ sessions' = Ensured(sessions, turn[u].session, "terminal")
          /\ UNCHANGED <<current, listing, made, untold>> /\ fresh' = fresh \ {u}
      BY <1>3 DEF TurnAnswers, Answer, AddMessage, Seen
    <2>2. PICK s : s = turn[u].session
      OBVIOUS
    <2>3. /\ DOMAIN sessions' = DOMAIN sessions \cup {s}
          /\ \A x \in DOMAIN sessions : sessions'[x] = sessions[x]
      BY <2>1, <2>2 DEF Ensured
    <2>4. turn'[u].stage = "idle" /\ OthersRun(u) /\ Replying(u)
      BY <1>0, <2>1, EndEffect DEF Replying
    <2>5. Shape'
      <3>1. /\ turn' = [v \in Turns |-> turn'[v]]
            /\ \A v \in Turns :
                   turn'[v] = [stage |-> turn'[v].stage, session |-> turn'[v].session,
                               id |-> turn'[v].id, kept |-> turn'[v].kept]
        BY <1>0, <2>1, EndEffect
      <3> QED BY <1>0, <2>1, <3>1 DEF Shape
    <2> QED BY <2>1, <2>2, <2>3, <2>4, <2>5, TurnGoesOn
  <1>4. CASE TurnIsAbandoned(u)
    <2>1. /\ turn[u].stage # "idle" /\ turn' = [turn EXCEPT ![u] = NoTurn]
          /\ sessions' = sessions /\ untold' = untold \ {u}
          /\ UNCHANGED <<current, fresh, listing, made>>
      BY <1>4 DEF TurnIsAbandoned, Abandon
    <2>2. turn'[u].stage = "idle" /\ OthersRun(u) /\ Replying(u)
      BY <1>0, <2>1, EndEffect DEF Replying
    <2>3. Shape'
      <3>1. /\ turn' = [v \in Turns |-> turn'[v]]
            /\ \A v \in Turns :
                   turn'[v] = [stage |-> turn'[v].stage, session |-> turn'[v].session,
                               id |-> turn'[v].id, kept |-> turn'[v].kept]
        BY <1>0, <2>1, EndEffect
      <3> QED BY <1>0, <2>1, <3>1 DEF Shape
    <2> QED BY <2>1, <2>2, <2>3, TurnGoesOn
  <1> QED BY <1>1, <1>2, <1>3, <1>4

-----------------------------------------------------------------------------
(* The store of messages. *)

Newer(i, S) == { j \in S : j > i }

LEMMA CountedApart ==
    ASSUME NEW K, IsFiniteSet(K), NEW T, IsFiniteSet(T), NEW f \in [K -> T],
           \A i, j \in K : i # j => f[i] # f[j]
    PROVE  Cardinality(K) <= Cardinality(T)
  <1>1. f \in Injection(K, T)
    BY DEF Injection, IsInjective
  <1> QED BY <1>1, FS_Injection

LEMMA NewerCounts ==
    ASSUME NEW S, IsFiniteSet(S), S \subseteq Nat, NEW i \in Nat
    PROVE  /\ IsFiniteSet(Newer(i, S)) /\ Cardinality(Newer(i, S)) \in Nat
           /\ \A T \in SUBSET Newer(i, S) :
                /\ Cardinality(T) \in Nat
                /\ Cardinality(T) <= Cardinality(Newer(i, S))
                /\ T # Newer(i, S) => Cardinality(T) < Cardinality(Newer(i, S))
  <1>1. Newer(i, S) \in SUBSET S
    BY DEF Newer
  <1>2. IsFiniteSet(Newer(i, S))
    BY <1>1, FS_Subset
  <1>3. ASSUME NEW T \in SUBSET Newer(i, S)
        PROVE  /\ Cardinality(T) \in Nat
               /\ Cardinality(T) <= Cardinality(Newer(i, S))
               /\ T # Newer(i, S) => Cardinality(T) < Cardinality(Newer(i, S))
    <2>1. IsFiniteSet(T)
      BY <1>2, FS_Subset
    <2>2. Cardinality(T) \in Nat /\ Cardinality(Newer(i, S)) \in Nat
      BY <1>2, <2>1, FS_CardinalityType
    <2>3. /\ Cardinality(T) <= Cardinality(Newer(i, S))
          /\ Cardinality(T) = Cardinality(Newer(i, S)) => T = Newer(i, S)
      BY <1>2, FS_Subset
    <2> QED BY <2>2, <2>3
  <1> QED BY <1>2, <1>3, FS_CardinalityType

(* What the pruning of the messages keeps: the newest ones, no more than the   *)
(* limit, and every one that has fewer than limit numbers after it.            *)
LEMMA NewestKept ==
    ASSUME NEW S, IsFiniteSet(S), S \subseteq Nat, NEW limit \in Nat,
           NEW K \in SUBSET S, \A i \in S : i \in K <=> Cardinality(Newer(i, S)) < limit
    PROVE  /\ \A i \in K, j \in S : j > i => j \in K
           /\ Cardinality(K) <= limit
           /\ \A i \in S \ K, n \in Nat : S \subseteq 1..n => n - i >= limit
  <1>1. \A i \in S : i \in K <=> Cardinality(Newer(i, S)) < limit
    OBVIOUS
  <1>2. K \in SUBSET S /\ IsFiniteSet(K) /\ K \subseteq Nat /\ Cardinality(K) \in Nat
    <2>1. K \in SUBSET S
      OBVIOUS
    <2> QED BY <2>1, FS_Subset, FS_CardinalityType
  <1>3. ASSUME NEW i \in K, NEW j \in S, j > i PROVE j \in K
    <2>1. i \in S /\ i \in Nat /\ j \in Nat
      BY <1>2
    <2>2. Newer(j, S) \in SUBSET Newer(i, S)
      <3>1. ASSUME NEW k \in Newer(j, S) PROVE k \in Newer(i, S)
        <4>1. k \in S /\ k > j /\ k \in Nat
          BY DEF Newer
        <4>2. k > i
          BY <1>3, <2>1, <4>1
        <4> QED BY <4>1, <4>2 DEF Newer
      <3> QED BY <3>1
    <2>3. Cardinality(Newer(i, S)) < limit
      BY <1>1, <2>1
    <2>4. /\ Cardinality(Newer(j, S)) \in Nat /\ Cardinality(Newer(i, S)) \in Nat
          /\ Cardinality(Newer(j, S)) <= Cardinality(Newer(i, S))
      BY <2>1, <2>2, NewerCounts
    <2>5. Cardinality(Newer(j, S)) < limit
      BY <2>3, <2>4
    <2> QED BY <1>1, <2>5
  <1>4. Cardinality(K) <= limit
    <2> DEFINE f == [i \in K |-> Cardinality(Newer(i, K))]
               Counts == 0..(limit - 1)
    <2>1. IsFiniteSet(Counts) /\ Cardinality(Counts) = limit
      BY FS_Interval
    <2>2. \A i \in K : Cardinality(Newer(i, K)) \in Counts
      <3> SUFFICES ASSUME NEW i \in K PROVE Cardinality(Newer(i, K)) \in Counts
        OBVIOUS
      <3>1. i \in Nat /\ i \in S
        BY <1>2
      <3>2. Newer(i, K) \in SUBSET Newer(i, S)
        BY <1>2 DEF Newer
      <3>3. /\ Cardinality(Newer(i, K)) \in Nat /\ Cardinality(Newer(i, S)) \in Nat
            /\ Cardinality(Newer(i, K)) <= Cardinality(Newer(i, S))
        BY <3>1, <3>2, NewerCounts
      <3>4. Cardinality(Newer(i, S)) < limit
        BY <1>1, <3>1
      <3> QED BY <3>3, <3>4
    <2>3. f \in [K -> Counts]
      BY <2>2
    <2>4. ASSUME NEW i \in K, NEW j \in K, i < j PROVE f[i] # f[j]
      <3>1. i \in Nat /\ j \in Nat
        BY <1>2
      <3>2. Newer(j, K) \in SUBSET Newer(i, K) /\ Newer(j, K) # Newer(i, K)
        <4>1. \A k \in K : k \in Nat /\ (k > j => k > i)
          BY <1>2, <2>4, <3>1
        <4>2. j \in Newer(i, K) /\ j \notin Newer(j, K)
          BY <2>4, <3>1 DEF Newer
        <4> QED BY <4>1, <4>2 DEF Newer
      <3>3. /\ Cardinality(Newer(i, K)) \in Nat /\ Cardinality(Newer(j, K)) \in Nat
            /\ Cardinality(Newer(j, K)) < Cardinality(Newer(i, K))
        BY <1>2, <3>1, <3>2, NewerCounts
      <3>4. f[i] = Cardinality(Newer(i, K)) /\ f[j] = Cardinality(Newer(j, K))
        OBVIOUS
      <3> QED BY <3>3, <3>4
    <2>5. \A i, j \in K : i # j => f[i] # f[j]
      <3> SUFFICES ASSUME NEW i \in K, NEW j \in K, i # j PROVE f[i] # f[j]
        OBVIOUS
      <3>1. i < j \/ j < i
        BY <1>2
      <3> QED BY <2>4, <3>1
    <2> HIDE DEF f, Counts
    <2>6. Cardinality(K) <= Cardinality(Counts)
      BY <1>2, <2>1, <2>3, <2>5, CountedApart
    <2> QED BY <1>2, <2>1, <2>6
  <1>5. ASSUME NEW i \in S \ K, NEW n \in Nat, S \subseteq 1..n PROVE n - i >= limit
    <2>1. i \in Nat /\ i <= n
      BY <1>5
    <2>2. Cardinality(Newer(i, S)) \in Nat
      BY <2>1, NewerCounts
    <2>3. Cardinality(Newer(i, S)) >= limit
      BY <1>1, <2>2
    <2>4. Newer(i, S) \in SUBSET ((i + 1)..n)
      <3>1. ASSUME NEW j \in Newer(i, S) PROVE j \in (i + 1)..n
        <4>1. j \in S /\ j > i
          BY DEF Newer
        <4>2. j \in 1..n
          BY <1>5, <4>1
        <4> QED BY <2>1, <4>1, <4>2
      <3> QED BY <3>1
    <2>5. /\ IsFiniteSet((i + 1)..n)
          /\ Cardinality((i + 1)..n) = IF i + 1 > n THEN 0 ELSE n - (i + 1) + 1
      BY <2>1, FS_Interval
    <2>6. Cardinality(Newer(i, S)) <= Cardinality((i + 1)..n)
      BY <2>4, <2>5, FS_Subset
    <2>7. Cardinality((i + 1)..n) = n - i
      BY <2>1, <2>5
    <2> QED BY <2>1, <2>2, <2>3, <2>6, <2>7
  <1> QED BY <1>3, <1>4, <1>5

(* Rows and histories.  A message that a history has and the store has lost    *)
(* is more than a full store's length behind: pruning never reaches the newest *)
(* ones, however many chats were deleted.                                      *)
StoreShape ==
    /\ nextId \in 1..(MaxMessages + 1)
    /\ Stored \subseteq 1..(nextId - 1)
    /\ messages \in [Stored -> Message]
    /\ Cardinality(Stored) <= MessageLimit
    /\ written \in [Sessions -> SUBSET (1..(nextId - 1))]

Histories ==
    /\ \A i \in Stored : i \in written[messages[i].session]
    /\ \A s \in Sessions : \A i \in written[s] :
           /\ i \in Stored => messages[i].session = s
           /\ i \notin Stored => nextId - i > MessageLimit

StoreInv == StoreShape /\ Histories /\ NoHoles

LEMMA InitStore == Init => StoreInv
  <1> SUFFICES ASSUME Init PROVE StoreInv
    OBVIOUS
  <1>1. /\ nextId = 1 /\ Stored = {} /\ messages \in [{} -> Message]
        /\ written = [s \in Sessions |-> {}]
    BY DEF Init, MemoryInit, Stored
  <1>2. Cardinality(Stored) <= MessageLimit
    BY <1>1, MemoryAssumption, FS_EmptySet DEF MemoryAssumption
  <1>3. StoreShape
    BY <1>1, <1>2, MemoryAssumption DEF StoreShape, MemoryAssumption
  <1> QED BY <1>1, <1>3 DEF StoreInv, Histories, NoHoles

LEMMA AddKeepsStore ==
    ASSUME StoreInv, NEW rows, NEW s \in Sessions, NEW role \in {"user", "assistant"},
           NEW size \in Sizes, AddMessage(rows, s, role, size)
    PROVE  StoreInv'
  <1> USE MemoryAssumption DEF MemoryAssumption
  <1>1. /\ nextId \in Nat /\ nextId >= 1 /\ nextId <= MaxMessages
        /\ nextId' = nextId + 1
        /\ written' = [written EXCEPT ![s] = @ \cup {nextId}]
    BY DEF AddMessage, StoreInv, StoreShape
  <1>2. PICK row : row = [session |-> s, role |-> role, size |-> size]
    OBVIOUS
  <1>3. row \in Message /\ row.session = s
    BY <1>2 DEF Message
  <1>4. PICK all : all = [i \in Stored \cup {nextId} |-> IF i = nextId THEN row ELSE messages[i]]
    OBVIOUS
  <1>5. PICK K : K = { i \in DOMAIN all :
                         Cardinality({ j \in DOMAIN all : j > i }) < MessageLimit }
    OBVIOUS
  <1>6. messages' = [i \in K |-> all[i]]
    BY <1>2, <1>4, <1>5 DEF AddMessage, PruneMessages, Restrict
  <1>7. /\ Stored \subseteq 1..nextId /\ nextId \notin Stored
        /\ DOMAIN all = Stored \cup {nextId}
        /\ DOMAIN all \subseteq 1..nextId /\ DOMAIN all \subseteq Nat
    BY <1>1, <1>4 DEF StoreInv, StoreShape
  <1>8. IsFiniteSet(DOMAIN all)
    <2>1. IsFiniteSet(1..nextId)
      BY <1>1, FS_Interval
    <2>2. DOMAIN all \in SUBSET (1..nextId)
      BY <1>7
    <2> QED BY <2>1, <2>2, FS_Subset
  <1>9. /\ \A i \in K, j \in DOMAIN all : j > i => j \in K
        /\ Cardinality(K) <= MessageLimit
        /\ \A i \in DOMAIN all \ K : nextId - i >= MessageLimit
    <2>1. PICK S : S = DOMAIN all
      OBVIOUS
    <2>2. IsFiniteSet(S) /\ S \subseteq Nat /\ MessageLimit \in Nat
      BY <1>7, <1>8, <2>1
    <2>3. K \in SUBSET S /\ \A i \in S : i \in K <=> Cardinality(Newer(i, S)) < MessageLimit
      BY <1>5, <2>1 DEF Newer
    <2>4. /\ \A i \in K, j \in S : j > i => j \in K
          /\ Cardinality(K) <= MessageLimit
          /\ \A i \in S \ K, n \in Nat : S \subseteq 1..n => n - i >= MessageLimit
      BY <2>2, <2>3, NewestKept
    <2> QED BY <1>1, <1>7, <2>1, <2>4
  <1>10. K \subseteq Stored \cup {nextId} /\ Stored' = K
    BY <1>5, <1>6, <1>7 DEF Stored
  <1>11. \A i \in K : /\ i = nextId => messages'[i] = row
                      /\ i # nextId => i \in Stored /\ messages'[i] = messages[i]
    BY <1>4, <1>6, <1>10
  <1>12. \A x \in Sessions : written'[x] = IF x = s THEN written[x] \cup {nextId} ELSE written[x]
    BY <1>1 DEF StoreInv, StoreShape
  <1>13. \A x \in Sessions : \A j \in written[x] : j \in Nat /\ j < nextId
    BY <1>1 DEF StoreInv, StoreShape
  <1>14. StoreShape'
    <2>1. \A i \in K : messages'[i] \in Message
      BY <1>3, <1>11 DEF StoreInv, StoreShape
    <2>2. messages' \in [K -> Message]
      BY <1>6, <2>1
    <2>3. K \subseteq 1..(nextId' - 1)
      BY <1>1, <1>7, <1>10
    <2>4. written' \in [Sessions -> SUBSET (1..(nextId' - 1))]
      <3>1. \A x \in Sessions : written'[x] \subseteq 1..(nextId' - 1)
        <4> SUFFICES ASSUME NEW x \in Sessions, NEW j \in written'[x] PROVE j \in 1..(nextId' - 1)
          OBVIOUS
        <4>1. j = nextId \/ j \in written[x]
          BY <1>12
        <4>2. written[x] \subseteq 1..(nextId - 1)
          BY DEF StoreInv, StoreShape
        <4> QED BY <1>1, <4>1, <4>2
      <3>2. written' = [x \in Sessions |-> written'[x]]
        BY <1>1 DEF StoreInv, StoreShape
      <3> QED BY <3>1, <3>2
    <2>5. nextId' \in 1..(MaxMessages + 1)
      BY <1>1
    <2> QED BY <1>9, <1>10, <2>2, <2>3, <2>4, <2>5 DEF StoreShape
  <1>15. Histories'
    <2>1. ASSUME NEW i \in K PROVE i \in written'[messages'[i].session]
      <3>1. CASE i = nextId
        BY <1>3, <1>11, <1>12, <3>1
      <3>2. CASE i # nextId
        <4>1. i \in Stored /\ messages'[i] = messages[i]
          BY <1>11, <3>2
        <4>2. messages[i].session \in Sessions /\ i \in written[messages[i].session]
          BY <4>1 DEF StoreInv, StoreShape, Histories, Message
        <4> QED BY <1>12, <4>1, <4>2
      <3> QED BY <3>1, <3>2
    <2>2. ASSUME NEW x \in Sessions, NEW i \in written'[x]
          PROVE  /\ i \in K => messages'[i].session = x
                 /\ i \notin K => nextId' - i > MessageLimit
      <3>1. CASE i = nextId
        <4>1. x = s
          BY <1>12, <1>13, <3>1, <1>1
        <4>2. i \in DOMAIN all /\ i \in Nat
          BY <1>1, <1>7, <3>1
        <4>3. i \notin K => nextId' - i > MessageLimit
          BY <1>1, <1>9, <4>2
        <4> QED BY <1>3, <1>11, <3>1, <4>1, <4>3
      <3>2. CASE i # nextId
        <4>1. i \in written[x] /\ i \in Nat
          BY <1>12, <1>13, <3>2
        <4>2. CASE i \in Stored
          <5>1. messages[i].session = x
            BY <4>1, <4>2 DEF StoreInv, Histories
          <5>2. i \notin K => nextId - i >= MessageLimit
            BY <1>7, <1>9, <4>2
          <5>3. i \notin K => nextId' - i > MessageLimit
            BY <1>1, <4>1, <5>2
          <5> QED BY <1>11, <3>2, <5>1, <5>3
        <4>3. CASE i \notin Stored
          <5>1. nextId - i > MessageLimit
            BY <4>1, <4>3 DEF StoreInv, Histories
          <5>2. i \notin K
            BY <1>10, <3>2, <4>3
          <5> QED BY <1>1, <4>1, <5>1, <5>2
        <4> QED BY <4>2, <4>3
      <3> QED BY <3>1, <3>2
    <2> QED BY <1>10, <2>1, <2>2 DEF Histories
  <1>16. NoHoles'
    <2> SUFFICES ASSUME NEW i \in K, NEW x \in Sessions, NEW j \in written'[x], j > i
                 PROVE  j \in K
      BY <1>10 DEF NoHoles
    <2>1. j \in DOMAIN all
      <3>1. CASE j = nextId
        BY <1>7, <3>1
      <3>2. CASE j # nextId
        <4>0. j \in written[x]
          BY <1>12, <3>2
        <4>1. j \in written[x] /\ j \in Nat /\ j < nextId
          BY <1>13, <4>0
        <4>2. i \in Nat
          BY <1>7, <1>10
        <4>3. i # nextId
          BY <1>1, <4>1, <4>2
        <4>4. i \in Stored
          BY <1>10, <4>3
        <4>5. j \in Stored
          BY <4>1, <4>4 DEF StoreInv, NoHoles
        <4> QED BY <1>7, <4>5
      <3> QED BY <3>1, <3>2
    <2> QED BY <1>9, <2>1
  <1> QED BY <1>14, <1>15, <1>16 DEF StoreInv

LEMMA DeleteKeepsStore ==
    ASSUME StoreInv, NEW s \in Sessions, Delete(s)
    PROVE  StoreInv'
  <1>1. PICK K : K = { i \in Stored : messages[i].session # s }
    OBVIOUS
  <1>2. /\ messages' = [i \in K |-> messages[i]] /\ nextId' = nextId
        /\ written' = [written EXCEPT ![s] = {}]
    BY <1>1 DEF Delete, Restrict
  <1>3. Stored' = K /\ K \in SUBSET Stored
    BY <1>1, <1>2 DEF Stored
  <1>4. \A i \in K : messages'[i] = messages[i]
    BY <1>2
  <1>5. \A x \in Sessions : written'[x] = IF x = s THEN {} ELSE written[x]
    BY <1>2 DEF StoreInv, StoreShape
  <1>6. StoreShape'
    <2>1. Cardinality(K) <= MessageLimit
      <3>1. nextId \in Int /\ 1..(nextId - 1) = 1..(nextId - 1)
        BY MemoryAssumption DEF MemoryAssumption, StoreInv, StoreShape
      <3>2. IsFiniteSet(1..(nextId - 1))
        BY <3>1, FS_Interval
      <3>3. Stored \in SUBSET (1..(nextId - 1))
        BY DEF StoreInv, StoreShape
      <3>4. IsFiniteSet(Stored)
        BY <3>2, <3>3, FS_Subset
      <3>5. Cardinality(K) <= Cardinality(Stored) /\ IsFiniteSet(K)
        BY <1>3, <3>4, FS_Subset
      <3>6. Cardinality(K) \in Nat /\ Cardinality(Stored) \in Nat
        BY <3>4, <3>5, FS_CardinalityType
      <3>7. Cardinality(Stored) <= MessageLimit
        BY DEF StoreInv, StoreShape
      <3> QED BY <3>5, <3>6, <3>7, MemoryAssumption DEF MemoryAssumption
    <2>2. messages' \in [K -> Message]
      BY <1>2, <1>3 DEF StoreInv, StoreShape
    <2>3. written' \in [Sessions -> SUBSET (1..(nextId - 1))]
      BY <1>2 DEF StoreInv, StoreShape
    <2> QED BY <1>2, <1>3, <2>1, <2>2, <2>3 DEF StoreInv, StoreShape
  <1>7. Histories'
    <2>1. ASSUME NEW i \in K PROVE i \in written'[messages'[i].session]
      <3>1. /\ messages[i].session \in Sessions /\ messages[i].session # s
            /\ i \in written[messages[i].session]
        BY <1>1, <1>3 DEF StoreInv, StoreShape, Histories, Message
      <3> QED BY <1>4, <1>5, <3>1
    <2>2. ASSUME NEW x \in Sessions, NEW i \in written'[x]
          PROVE  /\ i \in K => messages'[i].session = x
                 /\ i \notin K => nextId' - i > MessageLimit
      <3>1. x # s /\ i \in written[x]
        BY <1>5
      <3>2. /\ i \in Stored => messages[i].session = x
            /\ i \notin Stored => nextId - i > MessageLimit
        BY <3>1 DEF StoreInv, Histories
      <3> QED BY <1>1, <1>2, <1>3, <1>4, <3>1, <3>2
    <2> QED BY <1>3, <2>1, <2>2 DEF Histories
  <1>8. NoHoles'
    <2> SUFFICES ASSUME NEW i \in K, NEW x \in Sessions, NEW j \in written'[x], j > i
                 PROVE  j \in K
      BY <1>3 DEF NoHoles
    <2>1. x # s /\ j \in written[x]
      BY <1>5
    <2>2. j \in Stored
      BY <1>3, <2>1 DEF StoreInv, NoHoles
    <2>3. messages[j].session = x
      BY <2>1, <2>2 DEF StoreInv, Histories
    <2> QED BY <1>1, <2>1, <2>2, <2>3
  <1> QED BY <1>6, <1>7, <1>8 DEF StoreInv

-----------------------------------------------------------------------------
(* The store of facts.  As long as a fact is gone the store is full, and of    *)
(* nothing that matters less.                                                  *)
FactsInv ==
    /\ told \subseteq Fact /\ IsFiniteSet(told)
    /\ facts \subseteq told /\ Cardinality(facts) <= FactLimit
    /\ older \subseteq facts \X facts
    /\ \A f \in told \ facts : /\ Cardinality(facts) = FactLimit
                               /\ \A g \in facts : g.importance >= f.importance

LEMMA InitFacts == Init => FactsInv
  <1> SUFFICES ASSUME Init PROVE FactsInv
    OBVIOUS
  <1>1. facts = {} /\ told = {} /\ older = {}
    BY DEF Init, MemoryInit
  <1> QED BY <1>1, FS_EmptySet, MemoryAssumption DEF FactsInv, MemoryAssumption

LEMMA FactFields ==
    ASSUME NEW f \in Fact PROVE f.importance \in Nat
  BY MemoryAssumption DEF Fact, MemoryAssumption

LEMMA FactsAreFinite ==
    ASSUME FactsInv
    PROVE  IsFiniteSet(facts) /\ Cardinality(facts) \in Nat /\ Cardinality(told) \in Nat
  <1>1. facts \in SUBSET told /\ IsFiniteSet(told)
    BY DEF FactsInv
  <1>2. IsFiniteSet(facts)
    BY <1>1, FS_Subset
  <1> QED BY <1>1, <1>2, FS_CardinalityType

LEMMA RememberKeepsFacts ==
    ASSUME FactsInv, NEW t, NEW importance \in Importances, Remember(t, importance)
    PROVE  FactsInv'
  <1> USE MemoryAssumption DEF MemoryAssumption
  <1>1. PICK f : f = [id |-> Cardinality(told) + 1, importance |-> importance]
    OBVIOUS
  <1>2. f \in Fact
    BY <1>1, FactsAreFinite DEF Fact
  <1>3. PICK rows : rows = facts \cup {f}
    OBVIOUS
  <1>4. PICK order : order = older \cup Equals(facts, {f})
    OBVIOUS
  <1>5. /\ told' = told \cup {f} /\ facts' \subseteq rows
        /\ Cardinality(facts') = IF Cardinality(rows) > FactLimit
                                 THEN FactLimit ELSE Cardinality(rows)
        /\ \A g \in facts', h \in rows \ facts' : ~Better(h, g, order)
        /\ older' = { p \in order : p[1] \in facts' /\ p[2] \in facts' }
    BY <1>1, <1>3, <1>4 DEF Remember, PruneFacts
  <1>6. /\ IsFiniteSet(rows) /\ Cardinality(rows) \in Nat
        /\ Cardinality(rows) = IF f \in facts THEN Cardinality(facts) ELSE Cardinality(facts) + 1
    BY <1>3, FactsAreFinite, FS_AddElement, FS_CardinalityType
  <1>7. rows \subseteq Fact
    BY <1>2, <1>3 DEF FactsInv
  <1>8. \A g \in facts', h \in rows \ facts' : g.importance >= h.importance
    <2> SUFFICES ASSUME NEW g \in facts', NEW h \in rows \ facts'
                 PROVE  g.importance >= h.importance
      OBVIOUS
    <2>1. ~(h.importance > g.importance)
      BY <1>5 DEF Better
    <2>2. g \in Fact /\ h \in Fact
      BY <1>5, <1>7
    <2>3. g.importance \in Nat /\ h.importance \in Nat
      BY <2>2, FactFields
    <2> QED BY <2>1, <2>3
  <1>9. ASSUME NEW h \in told' \ facts'
        PROVE  /\ Cardinality(facts') = FactLimit
               /\ \A g \in facts' : g.importance >= h.importance
    <2>1. CASE Cardinality(rows) > FactLimit
      <3>1. Cardinality(facts') = FactLimit
        BY <1>5, <2>1
      <3>2. CASE h \in rows
        BY <1>8, <3>1, <3>2
      <3>3. CASE h \notin rows
        <4>1. h \in told \ facts
          BY <1>3, <1>5, <3>3
        <4>2. Cardinality(facts) = FactLimit /\ \A g \in facts : g.importance >= h.importance
          BY <4>1 DEF FactsInv
        <4>3. ASSUME NEW g \in facts', g \notin facts PROVE g.importance >= h.importance
          <5>1. g = f /\ f \notin facts
            BY <1>3, <1>5, <4>3
          <5>2. ASSUME facts \subseteq facts' PROVE FALSE
            <6>1. facts' = rows
              BY <1>3, <1>5, <4>3, <5>1, <5>2
            <6> QED BY <1>5, <2>1, <6>1, <3>1, <1>6
          <5>3. PICK d \in facts : d \notin facts'
            BY <5>2
          <5>4. g.importance >= d.importance /\ d.importance >= h.importance
            BY <1>3, <1>8, <4>2, <5>3
          <5>5. g \in Fact /\ d \in Fact /\ h \in Fact
            BY <1>3, <1>5, <1>7, <4>1, <5>3 DEF FactsInv
          <5>6. g.importance \in Nat /\ d.importance \in Nat /\ h.importance \in Nat
            BY <5>5, FactFields
          <5> QED BY <5>4, <5>6
        <4> QED BY <3>1, <4>2, <4>3
      <3> QED BY <3>2, <3>3
    <2>2. CASE ~(Cardinality(rows) > FactLimit)
      <3>1. Cardinality(facts') = Cardinality(rows) /\ facts' \in SUBSET rows
        BY <1>5, <2>2
      <3>2. facts' = rows
        BY <1>6, <3>1, FS_Subset
      <3>3. h \in told \ facts
        BY <1>3, <1>5, <3>2
      <3>4. Cardinality(facts) = FactLimit /\ \A g \in facts : g.importance >= h.importance
        BY <3>3 DEF FactsInv
      <3>5. f \in facts
        BY <1>6, <2>2, <3>4
      <3>6. facts' = facts
        BY <1>3, <3>2, <3>5
      <3> QED BY <3>4, <3>6
    <2> QED BY <2>1, <2>2
  <1>10. Cardinality(facts') <= FactLimit
    BY <1>5, <1>6
  <1>11. told' \subseteq Fact /\ IsFiniteSet(told')
    BY <1>2, <1>5, FS_AddElement DEF FactsInv
  <1>12. facts' \subseteq told'
    BY <1>3, <1>5 DEF FactsInv
  <1>13. older' \subseteq facts' \X facts'
    <2>1. \A p \in order : p = <<p[1], p[2]>>
      BY <1>4 DEF FactsInv, Equals
    <2> QED BY <1>5, <2>1
  <1> QED BY <1>9, <1>10, <1>11, <1>12, <1>13 DEF FactsInv

LEMMA RecallKeepsFacts ==
    ASSUME FactsInv, NEW found \in SUBSET facts, Recalled(found), told' = told
    PROVE  FactsInv'
  <1>1. PICK time : older' = { p \in older : p[1] \notin found /\ p[2] \notin found }
                             \cup Equals(facts \ found, found)
                             \cup { p \in Equals(found, found) : time[p[1]] < time[p[2]] }
    BY DEF Recalled
  <1>2. older' \subseteq facts \X facts
    BY <1>1 DEF FactsInv, Equals
  <1>3. facts' = facts
    BY DEF Recalled
  <1> QED BY <1>2, <1>3 DEF FactsInv

-----------------------------------------------------------------------------
(* The senders: every prompt is for a session. *)

Senders ==
    /\ made \subseteq Sessions
    /\ \A x \in DOMAIN sessions : sessions[x] \in Channels
    /\ \A u \in Turns :
           /\ turn[u].stage \in {"idle", "asked", "working"}
           /\ turn[u].session \in Sessions \cup {"none"}
           /\ turn[u].id \in Nat /\ turn[u].kept \subseteq Nat
    /\ fresh \subseteq Chats /\ begun \in [Turns -> BOOLEAN]

SInv == StoreInv /\ FactsInv /\ Senders

LEMMA InitSInv == Init => SInv
  <1>1. Init => Senders
    BY DEF Init, MemoryInit, NoTurn, Senders
  <1> QED BY <1>1, InitStore, InitFacts DEF SInv

LEMMA BeginKeeps ==
    ASSUME IInv, SInv, NEW t \in Turns, NEW s \in Sessions, NEW channel \in Channels,
           NEW size \in Sizes, Begin(t, s, channel, size),
           made' \subseteq Sessions, fresh' \subseteq Chats, begun' \in [Turns -> BOOLEAN]
    PROVE  SInv'
  <1>1. StoreInv'
    BY AddKeepsStore DEF Begin, SInv
  <1>2. FactsInv'
    BY DEF Begin, SInv, FactsInv, factVars
  <1>3. /\ DOMAIN sessions' = DOMAIN sessions \cup {s}
        /\ \A x \in DOMAIN sessions : sessions'[x] = sessions[x]
        /\ s \notin DOMAIN sessions => sessions'[s] = channel
        /\ OthersRun(t)
    BY BeginEffect DEF IInv
  <1>4. turn' = [turn EXCEPT ![t] =
            [stage |-> "asked", session |-> s, id |-> nextId, kept |-> {}]]
    BY DEF Begin
  <1>5. turn'[t] = [stage |-> "asked", session |-> s, id |-> nextId, kept |-> {}]
    BY <1>4 DEF IInv, Shape
  <1>6. nextId \in Nat
    BY MemoryAssumption DEF MemoryAssumption, SInv, StoreInv, StoreShape
  <1>7. Senders'
    BY <1>3, <1>5, <1>6 DEF OthersRun, SInv, Senders
  <1> QED BY <1>1, <1>2, <1>7 DEF SInv

LEMMA AsksKeep ==
    ASSUME IInv, SInv, NEW size \in Sizes
    PROVE  /\ \A c \in Chats : ChatAsks(c, size) => SInv'
           /\ \A t \in Terminals : TerminalAsks(t, size) => SInv'
  <1>1. ASSUME NEW c \in Chats, ChatAsks(c, size) PROVE SInv'
    <2>1. /\ Begin(c, current[c], "telegram", size) /\ made' = made
          /\ fresh' = fresh \ {c} /\ begun' = [begun EXCEPT ![c] = c \in fresh]
      BY <1>1 DEF ChatAsks, Seen
    <2>2. current[c] \in Sessions /\ c \in Turns /\ "telegram" \in Channels
      BY DEF IInv, Shape, Channels
    <2>3. begun' \in [Turns -> BOOLEAN]
      <3>1. (c \in fresh) \in BOOLEAN /\ begun \in [Turns -> BOOLEAN]
        BY DEF SInv, Senders
      <3> QED BY <2>1, <3>1
    <2>4. made' \subseteq Sessions /\ fresh' \subseteq Chats
      BY <2>1 DEF SInv, Senders
    <2> QED BY <2>1, <2>2, <2>3, <2>4, BeginKeeps
  <1>2. ASSUME NEW t \in Terminals, TerminalAsks(t, size) PROVE SInv'
    <2>1. fresh' = fresh /\ begun' = begun
      BY <1>2 DEF TerminalAsks
    <2>2. fresh' \subseteq Chats /\ begun' \in [Turns -> BOOLEAN] /\ t \in Turns
      BY <2>1 DEF SInv, Senders
    <2>3. \E s \in Sessions : /\ Begin(t, s, "terminal", size)
                              /\ made' = made \cup {s} \/ made' = made
      <3>1. CASE current[t] # NoSession
        <4>1. Begin(t, current[t], "terminal", size) /\ made' = made
          BY <1>2, <3>1 DEF TerminalAsks
        <4>2. current[t] \in Sessions
          BY <2>2, <3>1 DEF IInv, Made, SInv, Senders
        <4> QED BY <4>1, <4>2
      <3>2. CASE current[t] = NoSession
        BY <1>2, <3>2 DEF TerminalAsks
      <3> QED BY <3>1, <3>2
    <2>4. PICK s \in Sessions : /\ Begin(t, s, "terminal", size)
                                /\ made' = made \cup {s} \/ made' = made
      BY <2>3
    <2>5. made' \subseteq Sessions /\ "terminal" \in Channels
      BY <2>4 DEF SInv, Senders, Channels
    <2> QED BY <2>2, <2>4, <2>5, BeginKeeps
  <1> QED BY <1>1, <1>2

(* A step of a client that neither begins nor ends a turn and stores nothing. *)
LEMMA ClientKeeps ==
    ASSUME SInv, UNCHANGED <<messages, nextId, written, factVars, turn, begun>>,
           made' \subseteq Sessions, \A x \in DOMAIN sessions' : sessions'[x] \in Channels,
           fresh' \subseteq Chats
    PROVE  SInv'
  <1>1. StoreInv'
    BY DEF SInv, StoreInv, StoreShape, Histories, NoHoles, Stored
  <1>2. FactsInv'
    BY DEF SInv, FactsInv, factVars
  <1>3. Senders'
    BY DEF SInv, Senders
  <1> QED BY <1>1, <1>2, <1>3 DEF SInv

LEMMA ClientSteps ==
    ASSUME IInv, SInv
    PROVE  /\ \A c \in Chats : Event(c) \/ ChatNew(c) => SInv'
           /\ \A t \in Terminals :
                  \/ Told(t) \/ TerminalNew(t) \/ ListChats(t)
                  \/ \E s \in Sessions : OpenChat(t, s)
                  => SInv'
  <1>0. /\ made \subseteq Sessions /\ fresh \subseteq Chats
        /\ \A x \in DOMAIN sessions : sessions[x] \in Channels
    BY DEF SInv, Senders
  <1>1. ASSUME NEW c \in Chats, Event(c) PROVE SInv'
    BY <1>0, <1>1, ClientKeeps DEF Event, Seen, memoryVars, factVars
  <1>2. ASSUME NEW c \in Chats, ChatNew(c) PROVE SInv'
    <2>1. PICK s \in Sessions : made' = made \cup {s} /\ sessions' = Ensured(sessions, s, "telegram")
      BY <1>2 DEF ChatNew
    <2>2. \A x \in DOMAIN sessions' : sessions'[x] \in Channels
      <3>1. /\ DOMAIN sessions' = DOMAIN sessions \cup {s}
            /\ \A x \in DOMAIN sessions : sessions'[x] = sessions[x]
            /\ s \notin DOMAIN sessions => sessions'[s] = "telegram"
        BY <2>1 DEF Ensured
      <3> QED BY <1>0, <3>1 DEF Channels
    <2>3. /\ UNCHANGED <<messages, nextId, written, factVars, turn, begun>>
          /\ fresh' = fresh \cup {c}
      BY <1>2 DEF ChatNew
    <2> QED BY <1>0, <2>1, <2>2, <2>3, ClientKeeps
  <1>3. ASSUME NEW t \in Terminals,
               \/ Told(t) \/ TerminalNew(t) \/ ListChats(t)
               \/ \E s \in Sessions : OpenChat(t, s)
        PROVE  SInv'
    <2>1. UNCHANGED <<memoryVars, begun, made, fresh>>
      BY <1>3 DEF Told, TerminalNew, ListChats, OpenChat
    <2> QED BY <1>0, <2>1, ClientKeeps DEF memoryVars, factVars
  <1> QED BY <1>1, <1>2, <1>3

LEMMA DeleteChatKeeps ==
    ASSUME IInv, SInv, NEW t \in Terminals, NEW s \in Sessions, DeleteChat(t, s)
    PROVE  SInv'
  <1>1. Delete(s) /\ UNCHANGED <<fresh, begun, made>>
    BY DEF DeleteChat
  <1>2. StoreInv'
    BY <1>1, DeleteKeepsStore DEF SInv
  <1>3. FactsInv'
    BY <1>1 DEF Delete, SInv, FactsInv, factVars
  <1>4. turn' = turn /\ \A x \in DOMAIN sessions' : x \in DOMAIN sessions /\ sessions'[x] = sessions[x]
    BY <1>1 DEF Delete, Restrict
  <1>5. Senders'
    BY <1>1, <1>4 DEF SInv, Senders
  <1> QED BY <1>2, <1>3, <1>5 DEF SInv

(* What is read is the newest of the chat. *)
LEMMA ReadKept ==
    ASSUME IInv, SInv, NEW u \in Turns, NEW found, Read(u, found)
    PROVE  /\ turn'[u].kept = Kept(History(turn[u].session))
           /\ turn'[u].id = turn[u].id
           /\ turn'[u].kept \subseteq Nat
  <1>1. PICK kept : kept = Kept(History(turn[u].session))
    OBVIOUS
  <1>2. turn' = [turn EXCEPT ![u].stage = "working", ![u].kept = kept]
    BY <1>1 DEF Read
  <1>3. turn[u] = [stage |-> turn[u].stage, session |-> turn[u].session,
                   id |-> turn[u].id, kept |-> turn[u].kept]
    BY DEF IInv, Shape
  <1>4. turn'[u] = [turn[u] EXCEPT !.stage = "working", !.kept = kept]
    BY <1>2 DEF IInv, Shape
  <1>5. turn'[u].kept = kept /\ turn'[u].id = turn[u].id
    BY <1>3, <1>4
  <1>6. kept \subseteq Stored
    BY <1>1 DEF Kept, History
  <1>7. Stored \subseteq Nat
    BY DEF SInv, StoreInv, StoreShape
  <1> QED BY <1>1, <1>5, <1>6, <1>7

LEMMA TurnsKeep ==
    ASSUME IInv, SInv, NEW u \in Turns
    PROVE  /\ TurnReads(u) => SInv'
           /\ \A importance \in Importances : TurnRemembers(u, importance) => SInv'
           /\ \A size \in Sizes : TurnAnswers(u, size) => SInv'
           /\ TurnIsAbandoned(u) => SInv'
  <1>0. /\ made \subseteq Sessions /\ fresh \subseteq Chats /\ begun \in [Turns -> BOOLEAN]
        /\ \A x \in DOMAIN sessions : sessions[x] \in Channels
        /\ FALSE \in BOOLEAN
    BY DEF SInv, Senders
  <1>1. ASSUME TurnReads(u) PROVE SInv'
    <2>1. PICK found \in SUBSET facts : Read(u, found)
      BY <1>1 DEF TurnReads
    <2>2. /\ UNCHANGED <<sessions, messages, nextId, written, told, begun, made>>
          /\ fresh' = fresh \ {u} /\ Recalled(found)
      BY <1>1, <2>1 DEF TurnReads, Seen, Read
    <2>3. StoreInv'
      BY <2>2 DEF SInv, StoreInv, StoreShape, Histories, NoHoles, Stored
    <2>4. FactsInv'
      BY <2>2, RecallKeepsFacts DEF SInv
    <2>5. /\ turn'[u].stage = "working" /\ turn'[u].session = turn[u].session
          /\ turn'[u].id = turn[u].id /\ turn'[u].kept \subseteq Nat /\ OthersRun(u)
      BY <2>1, ReadKept, ReadEffect DEF IInv
    <2>6. Senders'
      BY <1>0, <2>2, <2>5 DEF SInv, Senders, OthersRun
    <2> QED BY <2>3, <2>4, <2>6 DEF SInv
  <1>2. ASSUME NEW importance \in Importances, TurnRemembers(u, importance) PROVE SInv'
    <2>1. /\ Remember(u, importance) /\ fresh' = fresh \ {u}
          /\ UNCHANGED <<sessions, messages, nextId, turn, written, begun, made>>
      BY <1>2 DEF TurnRemembers, Seen, Remember
    <2>2. StoreInv'
      BY <2>1 DEF SInv, StoreInv, StoreShape, Histories, NoHoles, Stored
    <2>3. FactsInv'
      BY <2>1, RememberKeepsFacts DEF SInv
    <2>4. Senders'
      BY <1>0, <2>1 DEF SInv, Senders
    <2> QED BY <2>2, <2>3, <2>4 DEF SInv
  <1>3. ASSUME NEW size \in Sizes, TurnAnswers(u, size) PROVE SInv'
    <2>1. /\ turn[u].stage = "working" /\ turn' = [turn EXCEPT ![u] = NoTurn]
          /\ AddMessage(sessions, turn[u].session, "assistant", size)
          /\ UNCHANGED <<factVars, made>> /\ fresh' = fresh \ {u}
          /\ begun' = [begun EXCEPT ![u] = FALSE]
      BY <1>3 DEF TurnAnswers, Answer, Seen
    <2>2. PICK s \in Sessions : s = turn[u].session
      BY <1>0, <2>1 DEF IInv, Made, Replying
    <2>3. StoreInv'
      BY <2>1, <2>2, AddKeepsStore DEF SInv
    <2>4. FactsInv'
      BY <2>1 DEF SInv, FactsInv, factVars
    <2>5. sessions' = Ensured(sessions, s, "terminal")
      BY <2>1, <2>2 DEF AddMessage
    <2>6. \A x \in DOMAIN sessions' : sessions'[x] \in Channels
      <3>1. /\ DOMAIN sessions' = DOMAIN sessions \cup {s}
            /\ \A x \in DOMAIN sessions : sessions'[x] = sessions[x]
            /\ s \notin DOMAIN sessions => sessions'[s] = "terminal"
        BY <2>5 DEF Ensured
      <3> QED BY <1>0, <3>1 DEF Channels
    <2>7. /\ turn'[u].stage = "idle" /\ turn'[u].session = "none" /\ turn'[u].id = 0
          /\ turn'[u].kept = {} /\ OthersRun(u)
      BY <2>1 DEF IInv, Shape, NoTurn, OthersRun
    <2>8. begun' \in [Turns -> BOOLEAN]
      BY <1>0, <2>1
    <2>9. Senders'
      BY <1>0, <2>1, <2>6, <2>7, <2>8 DEF SInv, Senders, OthersRun
    <2> QED BY <2>3, <2>4, <2>9 DEF SInv
  <1>4. ASSUME TurnIsAbandoned(u) PROVE SInv'
    <2>1. /\ turn' = [turn EXCEPT ![u] = NoTurn]
          /\ UNCHANGED <<sessions, messages, nextId, written, factVars, made, fresh>>
          /\ begun' = [begun EXCEPT ![u] = FALSE]
      BY <1>4 DEF TurnIsAbandoned, Abandon
    <2>2. StoreInv'
      BY <2>1 DEF SInv, StoreInv, StoreShape, Histories, NoHoles, Stored
    <2>3. FactsInv'
      BY <2>1 DEF SInv, FactsInv, factVars
    <2>4. /\ turn'[u].stage = "idle" /\ turn'[u].session = "none" /\ turn'[u].id = 0
          /\ turn'[u].kept = {} /\ OthersRun(u)
      BY <2>1 DEF IInv, Shape, NoTurn, OthersRun
    <2>5. begun' \in [Turns -> BOOLEAN]
      BY <1>0, <2>1
    <2>6. Senders'
      BY <1>0, <2>1, <2>4, <2>5 DEF SInv, Senders, OthersRun
    <2> QED BY <2>2, <2>3, <2>6 DEF SInv
  <1> QED BY <1>1, <1>2, <1>3, <1>4

-----------------------------------------------------------------------------
LEMMA NextIInv == IInv /\ [Next]_vars => IInv'
  <1> SUFFICES ASSUME IInv, [Next]_vars PROVE IInv'
    OBVIOUS
  <1>1. CASE UNCHANGED vars
    BY <1>1 DEF vars, memoryVars, clientVars, IInv, Shape, Made, ChatsRows, Apart,
                UntoldIsReplying, FreshIsNew, Replying
  <1>2. CASE Next
    BY <1>2, ChatAsksStep, EventStep, ChatNewStep, TerminalAsksStep, TerminalSteps, TurnSteps DEF Next
  <1> QED BY <1>1, <1>2

LEMMA Inductive == Spec => []IInv
  BY InitIInv, NextIInv, PTL DEF Spec

LEMMA NextSInv == IInv /\ SInv /\ [Next]_vars => SInv'
  <1> SUFFICES ASSUME IInv, SInv, [Next]_vars PROVE SInv'
    OBVIOUS
  <1>1. CASE UNCHANGED vars
    <2>1. UNCHANGED <<messages, nextId, written, factVars, turn, begun, made, sessions, fresh>>
      BY <1>1 DEF vars, memoryVars, clientVars, factVars
    <2>2. /\ made' \subseteq Sessions /\ fresh' \subseteq Chats
          /\ \A x \in DOMAIN sessions' : sessions'[x] \in Channels
      BY <2>1 DEF SInv, Senders
    <2> QED BY <2>1, <2>2, ClientKeeps
  <1>2. CASE Next
    <2>1. ASSUME NEW c \in Chats,
                 (\E size \in Sizes : ChatAsks(c, size)) \/ Event(c) \/ ChatNew(c)
          PROVE  SInv'
      BY <2>1, AsksKeep, ClientSteps
    <2>2. ASSUME NEW t \in Terminals,
                 \/ \E size \in Sizes : TerminalAsks(t, size)
                 \/ Told(t) \/ TerminalNew(t) \/ ListChats(t)
                 \/ \E s \in Sessions : OpenChat(t, s) \/ DeleteChat(t, s)
          PROVE  SInv'
      BY <2>2, AsksKeep, ClientSteps, DeleteChatKeeps
    <2>3. ASSUME NEW u \in Turns,
                 \/ TurnReads(u) \/ TurnIsAbandoned(u)
                 \/ \E importance \in Importances : TurnRemembers(u, importance)
                 \/ \E size \in Sizes : TurnAnswers(u, size)
          PROVE  SInv'
      BY <2>3, TurnsKeep
    <2> QED BY <1>2, <2>1, <2>2, <2>3 DEF Next
  <1> QED BY <1>1, <1>2

LEMMA StoreInductive == Spec => []SInv
  <1>1. Init => IInv /\ SInv
    BY InitIInv, InitSInv
  <1>2. (IInv /\ SInv) /\ [Next]_vars => (IInv /\ SInv)'
    BY NextIInv, NextSInv
  <1> QED BY <1>1, <1>2, PTL DEF Spec

(* However chats are begun, reopened, deleted and answered, a terminal never   *)
(* has a chat of the Telegram bridge and never sees one in its list            *)
(* (memory.py, list_sessions; agent.py, ensure_session).                       *)
THEOREM ChatsApart == Spec => []ChatsStayApart
  <1>1. IInv => ChatsStayApart
    BY DEF IInv, ChatsRows, Apart, ChatsStayApart, Listed
  <1> QED BY <1>1, Inductive, PTL

(* The mark of a chat is set aside only by the turn it was set for, or by a    *)
(* reply of the session before /new (telegram.py, the command new and the      *)
(* loop of _reply).                                                           *)
LEMMA MarkSteps ==
    ASSUME IInv, SInv, Next, NEW c \in Chats, c \in fresh, c \notin fresh'
    PROVE  \/ ~Replying(c) /\ Replying(c)' /\ begun'[c] /\ turn'[c].session = current[c]
           \/ Replying(c) /\ turn[c].session # current[c]
  <1>0. Shape /\ FreshIsNew /\ c \in Turns
    BY DEF IInv
  <1>1. Replying(c) => turn[c].session # current[c]
    BY <1>0 DEF FreshIsNew
  <1>2. ASSUME NEW d \in Chats, NEW size \in Sizes, ChatAsks(d, size)
        PROVE  ~Replying(c) /\ Replying(c)' /\ begun'[c] /\ turn'[c].session = current[c]
    <2>1. d = c
      BY <1>2 DEF ChatAsks, Seen
    <2>2. Begin(c, current[c], "telegram", size)
      BY <1>2, <2>1 DEF ChatAsks
    <2>3. turn'[c].stage = "asked" /\ turn'[c].session = current[c] /\ ~Replying(c)
      BY <1>0, <2>2, BeginEffect
    <2>4. begun'[c]
      BY <1>0, <1>2, <2>1 DEF ChatAsks, SInv, Senders
    <2> QED BY <2>3, <2>4 DEF Replying
  <1>3. ASSUME NEW d \in Chats, Event(d) \/ ChatNew(d) PROVE Replying(c)
    BY <1>3 DEF Event, ChatNew, Seen
  <1>4. ASSUME NEW t \in Terminals,
               \/ \E size \in Sizes : TerminalAsks(t, size)
               \/ Told(t) \/ TerminalNew(t) \/ ListChats(t)
               \/ \E s \in Sessions : OpenChat(t, s) \/ DeleteChat(t, s)
        PROVE  FALSE
    BY <1>4 DEF TerminalAsks, Told, TerminalNew, ListChats, OpenChat, DeleteChat
  <1>5. ASSUME NEW u \in Turns,
               \/ TurnReads(u) \/ TurnIsAbandoned(u)
               \/ \E importance \in Importances : TurnRemembers(u, importance)
               \/ \E size \in Sizes : TurnAnswers(u, size)
        PROVE  Replying(c)
    <2>1. u = c /\ ~TurnIsAbandoned(u)
      BY <1>5 DEF TurnReads, TurnRemembers, TurnAnswers, TurnIsAbandoned, Seen
    <2> QED BY <1>5, <2>1
        DEF TurnReads, Read, TurnRemembers, Remember, TurnAnswers, Answer, Replying
  <1> QED BY <1>1, <1>2, <1>3, <1>4, <1>5 DEF Next

(* What /new has set is used up by the next turn, which begins in the new      *)
(* session and recalls nothing, unless a reply of the session before was      *)
(* still under way (telegram.py).                                             *)
THEOREM FreshIsForItsTurn == Spec => FreshIsUsed
  <1>1. IInv /\ SInv /\ [Next]_vars =>
            [\A c \in fresh \ fresh' :
                \/ ~Replying(c) /\ Replying(c)' /\ begun'[c] /\ turn'[c].session = current[c]
                \/ Replying(c) /\ turn[c].session # current[c]]_vars
    <2> SUFFICES ASSUME IInv, SInv, Next, NEW c \in fresh \ fresh'
                 PROVE  \/ ~Replying(c) /\ Replying(c)' /\ begun'[c]
                                                       /\ turn'[c].session = current[c]
                        \/ Replying(c) /\ turn[c].session # current[c]
      OBVIOUS
    <2>1. c \in Chats
      BY DEF IInv, FreshIsNew
    <2> QED BY <2>1, MarkSteps
  <1> QED BY <1>1, Inductive, StoreInductive, PTL DEF Spec, FreshIsUsed

(* Every variable of the store and of its clients keeps its type, whatever is  *)
(* asked, answered, pruned and deleted (memory.py, SCHEMA; telegram.py and     *)
(* tui_full.py, the sessions they keep).                                      *)
THEOREM TypeCorrect == Spec => []TypeOK
  <1>1. ASSUME IInv, SInv PROVE TypeOK
    <2>1. DOMAIN sessions \subseteq Sessions /\ Range(sessions) \subseteq Channels
      BY <1>1 DEF IInv, Made, SInv, Senders, Range
    <2>2. turn \in [Turns -> [stage : {"idle", "asked", "working"},
                              session : Sessions \cup {"none"}, id : Nat, kept : SUBSET Nat]]
      <3>1. \A u \in Turns :
                turn[u] \in [stage : {"idle", "asked", "working"},
                             session : Sessions \cup {"none"}, id : Nat, kept : SUBSET Nat]
        <4> SUFFICES ASSUME NEW u \in Turns
                     PROVE  turn[u] \in [stage : {"idle", "asked", "working"},
                                         session : Sessions \cup {"none"}, id : Nat, kept : SUBSET Nat]
          OBVIOUS
        <4>1. turn[u] = [stage |-> turn[u].stage, session |-> turn[u].session,
                         id |-> turn[u].id, kept |-> turn[u].kept]
          BY <1>1 DEF IInv, Shape
        <4>2. /\ turn[u].stage \in {"idle", "asked", "working"}
              /\ turn[u].session \in Sessions \cup {"none"}
              /\ turn[u].id \in Nat /\ turn[u].kept \in SUBSET Nat
          BY <1>1 DEF SInv, Senders
        <4> QED BY <4>1, <4>2
      <3> QED BY <1>1, <3>1 DEF IInv, Shape
    <2>3. written \in [Sessions -> SUBSET Nat]
      BY <1>1 DEF SInv, StoreInv, StoreShape
    <2>4. MemoryTypeOK
      BY <1>1, <2>1, <2>2, <2>3 DEF MemoryTypeOK, SInv, StoreInv, StoreShape, FactsInv
    <2>5. current \in [Turns -> Sessions \cup {NoSession}]
      <3>1. \A u \in Turns : current[u] \in Sessions \cup {NoSession}
        BY <1>1 DEF IInv, Made, SInv, Senders
      <3> QED BY <1>1, <3>1 DEF IInv, Shape
    <2>6. listing \in [Terminals -> SUBSET Sessions]
      <3>1. \A t \in Terminals : listing[t] \in SUBSET Sessions
        BY <1>1 DEF IInv, Made, SInv, Senders
      <3> QED BY <1>1, <3>1 DEF IInv, Shape
    <2>7. fresh \subseteq Chats /\ begun \in [Turns -> BOOLEAN] /\ made \subseteq Sessions
      BY <1>1 DEF SInv, Senders
    <2>8. untold \subseteq Terminals
      BY <1>1 DEF IInv, UntoldIsReplying, FreshIsNew
    <2> QED BY <2>4, <2>5, <2>6, <2>7, <2>8 DEF TypeOK
  <1> QED BY <1>1, Inductive, StoreInductive, PTL

(* Whatever pruning and deletions come between, a chat has no hole between its *)
(* oldest stored message and its newest (memory.py, prune).                    *)
THEOREM NoHolesStay == Spec => []NoHoles
  <1>1. SInv => NoHoles
    BY DEF SInv, StoreInv
  <1> QED BY <1>1, StoreInductive, PTL

(* While a fact is gone the store is full of facts that matter at least as     *)
(* much (memory.py, prune).                                                    *)
THEOREM OnlyBetterStays == Spec => []OnlyBetterReplaces
  <1>1. ASSUME SInv, NEW f \in told \ facts
        PROVE  Cardinality({ g \in facts : g.importance >= f.importance }) = FactLimit
    <2>1. Cardinality(facts) = FactLimit /\ \A g \in facts : g.importance >= f.importance
      BY <1>1 DEF SInv, FactsInv
    <2>2. { g \in facts : g.importance >= f.importance } = facts
      BY <2>1
    <2> QED BY <2>1, <2>2
  <1>2. SInv => OnlyBetterReplaces
    BY <1>1 DEF OnlyBetterReplaces
  <1> QED BY <1>2, StoreInductive, PTL

-----------------------------------------------------------------------------
(* The question of a turn. *)

LEMMA OnlyReadingWorks ==
    ASSUME IInv, SInv, Next, NEW t \in Turns,
           turn[t].stage = "asked", turn'[t].stage = "working"
    PROVE  \E found : Read(t, found)
  <1>1. ASSUME NEW u \in Turns, NEW s, NEW channel, NEW size, Begin(u, s, channel, size) PROVE FALSE
    BY <1>1, BeginEffect DEF IInv, OthersRun, Replying
  <1>2. turn' # turn
    OBVIOUS
  <1>3. ASSUME NEW u \in Turns, NEW size \in Sizes, TurnAnswers(u, size) PROVE FALSE
    <2>1. turn' = [turn EXCEPT ![u] = NoTurn]
      BY <1>3 DEF TurnAnswers, Answer
    <2> QED BY <2>1, EndEffect DEF IInv, OthersRun
  <1>4. ASSUME NEW u \in Turns, NEW importance \in Importances, TurnRemembers(u, importance)
        PROVE  FALSE
    BY <1>2, <1>4 DEF TurnRemembers, Remember
  <1>5. ASSUME NEW c \in Chats, Event(c) \/ ChatNew(c) \/ \E size \in Sizes : ChatAsks(c, size)
        PROVE  FALSE
    BY <1>1, <1>2, <1>5 DEF Event, ChatNew, ChatAsks, memoryVars
  <1>6. ASSUME NEW v \in Terminals,
               \/ \E size \in Sizes : TerminalAsks(v, size)
               \/ Told(v) \/ TerminalNew(v) \/ ListChats(v)
               \/ \E s \in Sessions : OpenChat(v, s) \/ DeleteChat(v, s)
        PROVE  FALSE
    <2>1. CASE \E size \in Sizes : TerminalAsks(v, size)
      BY <1>1, <2>1 DEF TerminalAsks
    <2>2. CASE Told(v) \/ TerminalNew(v) \/ ListChats(v)
      BY <1>2, <2>2 DEF Told, TerminalNew, ListChats, memoryVars
    <2>3. CASE \E s \in Sessions : OpenChat(v, s) \/ DeleteChat(v, s)
      BY <1>2, <2>3 DEF OpenChat, DeleteChat, Delete, memoryVars
    <2> QED BY <1>6, <2>1, <2>2, <2>3
  <1>7. PICK u \in Turns : TurnReads(u)
    <2>1. ~\E c \in Chats :
              (\E size \in Sizes : ChatAsks(c, size)) \/ Event(c) \/ ChatNew(c)
      BY <1>5
    <2>2. ~\E v \in Terminals :
              \/ \E size \in Sizes : TerminalAsks(v, size)
              \/ Told(v) \/ TerminalNew(v) \/ ListChats(v)
              \/ \E s \in Sessions : OpenChat(v, s) \/ DeleteChat(v, s)
      BY <1>6
    <2>3. \E u \in Turns :
              \/ TurnReads(u)
              \/ \E importance \in Importances : TurnRemembers(u, importance)
              \/ \E size \in Sizes : TurnAnswers(u, size)
              \/ TurnIsAbandoned(u)
      BY <2>1, <2>2 DEF Next
    <2>4. \A u \in Turns : ~TurnIsAbandoned(u)
      <3> SUFFICES ASSUME NEW u \in Turns, TurnIsAbandoned(u) PROVE FALSE
        OBVIOUS
      <3>1. turn' = [turn EXCEPT ![u] = NoTurn]
        BY DEF TurnIsAbandoned, Abandon
      <3> QED BY <3>1, EndEffect DEF IInv, OthersRun
    <2> QED BY <1>3, <1>4, <2>3, <2>4
  <1>8. PICK found : Read(u, found)
    BY <1>7 DEF TurnReads
  <1>9. u = t
    BY <1>8, ReadEffect DEF IInv, OthersRun
  <1> QED BY <1>8, <1>9

LEMMA NewestIsKept ==
    ASSUME IInv, SInv, NEW t \in Turns, NEW found, Read(t, found), Undisturbed(t)
    PROVE  turn[t].id \in turn'[t].kept
  <1> DEFINE own == turn[t].id
             s == turn[t].session
             mine == { i \in Stored : messages[i].session = s }
  <1>1. s \in Sessions
    BY DEF IInv, Made, Replying, Read, SInv, Senders
  <1>2. /\ own \in written[s] /\ \A j \in written[s] : j <= own
        /\ nextId - own <= MessageLimit
    BY DEF Undisturbed
  <1>3. own \in Nat /\ nextId \in Nat /\ Stored \subseteq Nat
    BY MemoryAssumption DEF MemoryAssumption, SInv, Senders, StoreInv, StoreShape
  <1>4. own \in Stored /\ messages[own].session = s
    BY <1>1, <1>2, <1>3, MemoryAssumption DEF MemoryAssumption, SInv, StoreInv, Histories
  <1>5. \A j \in mine : j \in Nat /\ ~(j > own)
    BY <1>2, <1>3 DEF SInv, StoreInv, Histories
  <1>6. { j \in mine : j > own } = {} /\ own \in mine
    BY <1>4, <1>5
  <1>7. own \in History(s)
    <2>1. History(s) = { i \in mine : Cardinality({ j \in mine : j > i }) < HistoryLimit }
      BY DEF History
    <2>2. Cardinality({ j \in mine : j > own }) = 0
      BY <1>6, FS_EmptySet
    <2>3. 0 < HistoryLimit
      BY MemoryAssumption DEF MemoryAssumption
    <2> QED BY <1>6, <2>1, <2>2, <2>3
  <1>8. { j \in History(s) : j >= own } = {own}
    <2>1. \A j \in History(s) : j \in mine
      BY DEF History
    <2>2. \A j \in History(s) : j >= own => j = own
      <3> SUFFICES ASSUME NEW j \in History(s), j >= own PROVE j = own
        OBVIOUS
      <3>1. j \in Nat /\ ~(j > own)
        BY <1>5, <2>1
      <3> QED BY <1>3, <3>1
    <2> QED BY <1>3, <1>7, <2>2
  <1>9. Fits({ j \in History(s) : j >= own })
    <2>1. Cardinality({own}) = 1
      BY FS_Singleton
    <2> QED BY <1>8, <2>1 DEF Fits
  <1>10. own \in Kept(History(s))
    BY <1>7, <1>9 DEF Kept
  <1>11. turn'[t].kept = Kept(History(s))
    BY ReadKept
  <1> QED BY <1>10, <1>11

(* A turn always reads its own question back in full, unless its chat was      *)
(* deleted or written in, or others filled the store meanwhile (agent.py,      *)
(* _history_within_budget; memory.py, prune).                                  *)
THEOREM TaskStays == Spec => TaskSurvives
  <1>1. ASSUME IInv, SInv, [Next]_vars
        PROVE  [\A t \in Turns :
                   turn[t].stage = "asked" /\ turn'[t].stage = "working" /\ Undisturbed(t)
                   => turn[t].id \in turn'[t].kept]_memoryVars
    <2>1. CASE Next
      BY <2>1, <1>1, OnlyReadingWorks, NewestIsKept
    <2>2. CASE UNCHANGED vars
      BY <2>2 DEF vars
    <2> QED BY <1>1, <2>1, <2>2
  <1> QED BY <1>1, Inductive, StoreInductive, PTL DEF Spec, TaskSurvives
=============================================================================
