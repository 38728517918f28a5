----------------------------- MODULE MemoryStore -----------------------------
(***************************************************************************)
(* The conversation store (memory.py, MemoryStore) and what a turn does    *)
(* with it (agent.py, Agent.run).  Who starts turns, in which chats, and   *)
(* who deletes chats is in Conversations.                                  *)
(*                                                                         *)
(* Every call of the store is one transaction, but a turn makes several:   *)
(* it stores the question, sends events to its client, reads its history   *)
(* back, works for minutes and stores the answer.  In between other turns  *)
(* write, pruning removes the oldest messages of ALL chats, and a client   *)
(* may delete the chat the turn runs in.                                   *)
(***************************************************************************)
EXTENDS Naturals, FiniteSets, FiniteSetsExt, Functions

CONSTANTS
    Sessions,      (* session ids that clients use                             *)
    Turns,         (* chats that may run at the same time                      *)
    Sizes,         (* lengths of messages, in some unit                        *)
    RecentBudget,  (* _history_within_budget: room for recent messages         *)
    HistoryLimit,  (* _history_within_budget: messages looked at               *)
    MessageLimit,  (* MemoryStore.message_limit                                *)
    FactLimit,     (* MemoryStore.fact_limit                                   *)
    Importances,   (* of a fact                                                *)
    MaxMessages,   (* messages ever written: a bound of the model              *)
    MaxFacts       (* facts ever remembered: a bound of the model              *)

ASSUME MemoryAssumption ==
    /\ Sizes \subseteq Nat /\ Importances \subseteq Nat
    /\ RecentBudget \in Nat
    /\ HistoryLimit \in Nat \ {0} /\ MessageLimit \in Nat \ {0} /\ FactLimit \in Nat \ {0}
    /\ MaxMessages \in Nat /\ MaxFacts \in Nat

VARIABLES
    sessions,  (* rows of the table of sessions: the channel of each           *)
    messages,  (* rows of the table of messages, by id                         *)
    nextId,    (* AUTOINCREMENT of the table of messages                       *)
    facts,     (* rows of the table of facts                                   *)
    older,     (* accessed_at: pairs of facts of the same importance, the      *)
               (* first accessed before the second                             *)
    turn,      (* per turn: what it does in which session                      *)
    written,   (* per session: ids written since it was last deleted: history  *)
    told       (* every fact ever remembered: history                          *)

memoryVars == <<sessions, messages, nextId, facts, older, turn, written, told>>
factVars == <<facts, older, told>>

Channels == {"telegram", "terminal"}
Message == [session : Sessions, role : {"user", "assistant"}, size : Sizes]
Fact    == [id : Nat, importance : Importances]
NoTurn  == [stage |-> "idle", session |-> "none", id |-> 0, kept |-> {}]

MemoryInit ==
    /\ sessions = <<>>
    /\ messages = <<>>
    /\ nextId = 1
    /\ facts = {} /\ older = {}
    /\ turn = [t \in Turns |-> NoTurn]
    /\ written = [s \in Sessions |-> {}]
    /\ told = {}

-----------------------------------------------------------------------------
Stored == DOMAIN messages

(* Seeded fault: a busy store loses its newest messages. *)
PruneNewest(rows) ==
    Restrict(rows, { i \in DOMAIN rows :
                       Cardinality({ j \in DOMAIN rows : j < i }) < MessageLimit })

(* prune: the newest messages of all sessions stay. *)
PruneMessages(rows) ==
    Restrict(rows, { i \in DOMAIN rows :
                       Cardinality({ j \in DOMAIN rows : j > i }) < MessageLimit })

Equals(F, G) == { p \in F \X G : p[1].importance = p[2].importance }

(* Seeded fault: the fact accessed longest ago goes first. *)
BetterByAge(f, g, order) == <<g, f>> \in order

(* ORDER BY importance DESC, accessed_at DESC *)
Better(f, g, order) ==
    \/ f.importance > g.importance
    \/ <<g, f>> \in order

(* prune: the best facts stay; which of two equals does is the database's choice. *)
PruneFacts(rows, order) ==
    /\ facts' \in { stay \in SUBSET rows :
                      /\ Cardinality(stay) = IF Cardinality(rows) > FactLimit
                                             THEN FactLimit ELSE Cardinality(rows)
                      /\ \A f \in stay, g \in rows \ stay : ~Better(g, f, order) }
    /\ older' = { p \in order : p[1] \in facts' /\ p[2] \in facts' }

(* ensure_session: INSERT OR IGNORE, a row that is there keeps its channel. *)
Ensured(rows, s, channel) ==
    [x \in DOMAIN rows \cup {s} |-> IF x \in DOMAIN rows THEN rows[x] ELSE channel]

(* add_message, with the pruning at its end.  It makes a row that the caller   *)
(* did not make, or that was deleted under the turn, a terminal's.             *)
AddMessage(rows, s, role, size) ==
    /\ nextId <= MaxMessages
    /\ sessions' = Ensured(rows, s, "terminal")
    /\ messages' = PruneMessages([i \in Stored \cup {nextId} |->
           IF i = nextId THEN [session |-> s, role |-> role, size |-> size] ELSE messages[i]])
    /\ nextId' = nextId + 1
    /\ written' = [written EXCEPT ![s] = @ \cup {nextId}]

-----------------------------------------------------------------------------
(* Seeded fault: the turn leaves it to add_message to make the row. *)
RowLeftToStore(s, channel) == sessions

(* Agent.run: ensure_session with the channel of the turn's client. *)
TurnRow(s, channel) == Ensured(sessions, s, channel)

(* Agent.run: the question is stored before anything is awaited. *)
Begin(t, s, channel, size) ==
    /\ turn[t].stage = "idle"
    /\ AddMessage(TurnRow(s, channel), s, "user", size)
    /\ turn' = [turn EXCEPT ![t] =
           [stage |-> "asked", session |-> s, id |-> nextId, kept |-> {}]]
    /\ UNCHANGED factVars

History(s) ==
    LET own == { i \in Stored : messages[i].session = s }
    IN  { i \in own : Cardinality({ j \in own : j > i }) < HistoryLimit }

Total(part) == MapThenSumSet(LAMBDA i : messages[i].size, part)

(* Seeded fault: a message larger than the budget is never kept. *)
FitsStrictly(part) == Total(part) <= RecentBudget

(* The newest message is kept whatever its size. *)
Fits(part) == Cardinality(part) <= 1 \/ Total(part) <= RecentBudget

(* _history_within_budget: from the newest backwards while they fit; what is   *)
(* older is compacted to excerpts.                                             *)
Kept(history) == { i \in history : Fits({ j \in history : j >= i }) }

(* recall: the facts that match are accessed one after the other, best first,  *)
(* and the clock may show the same time for several.                           *)
Recalled(found) ==
    /\ \E time \in [found -> 1..Cardinality(found)] :
         /\ \A f, g \in found : Better(f, g, older) => time[f] <= time[g]
         /\ older' = { p \in older : p[1] \notin found /\ p[2] \notin found }
                     \cup Equals(facts \ found, found)
                     \cup { p \in Equals(found, found) : time[p[1]] < time[p[2]] }
    /\ UNCHANGED facts

(* The turn builds its prompt after its first events were sent. *)
Read(t, found) ==
    /\ turn[t].stage = "asked"
    /\ turn' = [turn EXCEPT
           ![t].stage = "working",
           ![t].kept = Kept(History(turn[t].session))]
    /\ Recalled(found)
    /\ UNCHANGED <<sessions, messages, nextId, written, told>>

(* The tool remember, with the pruning at the end of the call. *)
Remember(t, importance) ==
    /\ turn[t].stage = "working"
    /\ Cardinality(told) < MaxFacts
    /\ LET f == [id |-> Cardinality(told) + 1, importance |-> importance] IN
        /\ PruneFacts(facts \cup {f}, older \cup Equals(facts, {f}))
        /\ told' = told \cup {f}
    /\ UNCHANGED <<sessions, messages, nextId, turn, written>>

(* The answer, or the message of a turn that failed, is stored. *)
Answer(t, size) ==
    /\ turn[t].stage = "working"
    /\ AddMessage(sessions, turn[t].session, "assistant", size)
    /\ turn' = [turn EXCEPT ![t] = NoTurn]
    /\ UNCHANGED factVars

(* The client leaves or the model fails: nothing is stored. *)
Abandon(t) ==
    /\ turn[t].stage # "idle"
    /\ turn' = [turn EXCEPT ![t] = NoTurn]
    /\ UNCHANGED <<sessions, messages, nextId, written, factVars>>

(* list_sessions *)
Listed(channel) ==
    { s \in DOMAIN sessions : /\ sessions[s] = channel
                             /\ \E i \in Stored : messages[i].session = s }

(* delete_session for a chat of a list, also while a turn runs in it. *)
Delete(s) ==
    /\ sessions' = Restrict(sessions, DOMAIN sessions \ {s})
    /\ messages' = Restrict(messages, { i \in Stored : messages[i].session # s })
    /\ written' = [written EXCEPT ![s] = {}]
    /\ UNCHANGED <<nextId, turn, factVars>>

-----------------------------------------------------------------------------
MemoryTypeOK ==
    /\ DOMAIN sessions \subseteq Sessions /\ Range(sessions) \subseteq Channels
    /\ Stored \subseteq 1..(nextId - 1) /\ messages \in [Stored -> Message]
    /\ Cardinality(Stored) <= MessageLimit
    /\ nextId \in 1..(MaxMessages + 1)
    /\ facts \subseteq told /\ Cardinality(facts) <= FactLimit
    /\ older \subseteq facts \X facts
    /\ turn \in [Turns -> [stage : {"idle", "asked", "working"}, session : Sessions \cup {"none"},
                           id : Nat, kept : SUBSET Nat]]
    /\ written \in [Sessions -> SUBSET Nat]
    /\ told \subseteq Fact

(* Pruning takes the oldest messages of all chats together: whatever is       *)
(* stored, everything that was written after it and not deleted with its chat *)
(* is stored too, so no chat has a hole in its middle (memory.py, prune).     *)
NoHoles ==
    \A i \in Stored : \A s \in Sessions : \A j \in written[s] : j > i => j \in Stored

(* The question of a turn is in its prompt in full, however large it or what  *)
(* was said before is, unless the chat was deleted, another turn wrote in the *)
(* same chat, or the store was filled by others before the prompt was built   *)
(* (agent.py, "newest-first so the current task always survives").            *)
Undisturbed(t) ==
    LET own == turn[t].id IN
    /\ own \in written[turn[t].session]
    /\ \A j \in written[turn[t].session] : j <= own
    /\ nextId - own <= MessageLimit

TaskSurvives ==
    [][\A t \in Turns :
          turn[t].stage = "asked" /\ turn'[t].stage = "working" /\ Undisturbed(t)
          => turn[t].id \in turn'[t].kept]_memoryVars

(* A fact is forgotten only for facts that matter at least as much: as long   *)
(* as it is gone the store is full of them, in whatever order facts were      *)
(* remembered and recalled (memory.py, prune).                                *)
OnlyBetterReplaces ==
    \A f \in told \ facts :
        Cardinality({ g \in facts : g.importance >= f.importance }) = FactLimit
=============================================================================
