------------------------- MODULE TelegramSettings -------------------------
(***************************************************************************)
(* The file telegram.json (bot token and allow-list) and everything that   *)
(* reads or changes it: the bridge's poll loop with its enrolment of chats *)
(* that say /start (telegram.py), the daemon's telegram_config and         *)
(* set_telegram_token commands (rpc.py), and the command line, which edits *)
(* the file itself while there is no daemon (cli.py).  The daemon may be   *)
(* stopped or killed and started again at any time.                        *)
(*                                                                         *)
(* Enrolment runs in a thread; the daemon's commands run in the event loop *)
(* from their first read to their replace without an await, so nothing     *)
(* else of the loop comes between, but the thread may.  Files are modelled *)
(* with their inodes: two writers that open one temporary name write into  *)
(* one file, wherever it has been moved in the meantime.                   *)
(***************************************************************************)
EXTENDS Integers, Sequences, SequencesExt, FiniteSets

CONSTANTS
    Chats,          \* chats that write to a bot
    Tokens,         \* tokens; each is a bot of its own with its own updates
    NoToken,        \* "": the bridge is disabled
    Empty,          \* text of a file opened for writing and not yet written
    Torn,           \* text with the end of a longer one behind it
    MaxEdits,       \* bound: edits by the owner
    MaxUpdates,     \* bound: updates users send
    MaxStops        \* bound: times the daemon stops or is killed

Config  == [token : Tokens \cup {NoToken}, allowed : SUBSET Chats]

ASSUME SettingsAssumption ==
    /\ {Empty, Torn} \cap Config = {} /\ Empty # Torn
    /\ NoToken \notin Tokens
    /\ {MaxEdits, MaxUpdates, MaxStops} \subseteq Nat

VARIABLES
    name,           \* file name -> its inode, or NoInode
    disk,           \* inode -> text
    writer,         \* what each of the three writers is doing
    up,             \* the daemon runs and its socket exists
    phase,          \* where the poll loop is
    token,          \* the token it polled with last and has published its menu for
    allowed,        \* its copy of the allow-list
    offset,         \* getUpdates offset
    batch,          \* ids of the last answer still to be handled
    updates,        \* bot -> what users have sent to it (external)
    confirmed,      \* bot -> last id it will not deliver again (external)
    dealt,          \* history: bot -> ids that reached the handler
    accepted,       \* history: <<bot, id>> last taken for work, then or later
    wanted,         \* history: the edits reported as done, one after another
    since,          \* history: chats wanted at some time since the last read
    overlapped,     \* history: two writers have been at work at once
    edits, stops    \* counters of the bounds

fileVars == <<name, disk, writer>>
pollVars == <<phase, token, allowed, offset, batch>>
botVars  == <<updates, confirmed, dealt, accepted>>
ownVars  == <<wanted, since, overlapped>>
vars == <<fileVars, up, pollVars, botVars, ownVars, edits, stops>>

-----------------------------------------------------------------------------
(* Texts and files. *)

Blank   == [token |-> NoToken, allowed |-> {}]
NoInode == 0
Inodes  == 1 .. 6
Names   == {"telegram.json", "telegram.json.tmp", "telegram.tmp"}
Writers == {"enroll", "rpc", "cli"}

Edits == [what : {"allow", "disallow"}, chat : Chats]
         \cup [what : {"disable"}]
         \cup [what : {"set-token"}, token : Tokens]
Enrolments == [what : {"enroll"}, chat : Chats]

(* The configuration after an edit; what it does not name it keeps. *)
Applied(e, c) ==
    CASE e.what \in {"allow", "enroll"} -> [c EXCEPT !.allowed = @ \cup {e.chat}]
      [] e.what = "disallow"  -> [c EXCEPT !.allowed = @ \ {e.chat}]
      [] e.what = "disable"   -> [c EXCEPT !.token = NoToken]
      [] e.what = "set-token" -> [c EXCEPT !.token = e.token]

(* The command line writes in place; enroll and set_telegram_token share a
   temporary name, telegram_config has another. *)
Target(w, e) ==
    CASE w = "cli" -> "telegram.json"
      [] w # "cli" /\ e.what \in {"enroll", "set-token"} -> "telegram.json.tmp"
      [] OTHER -> "telegram.tmp"

Idle == [step |-> "idle"]
Busy(w) == writer[w].step \in {"open", "write", "replace"}
Free == CHOOSE i \in Inodes : /\ \A n \in Names : name[n] # i
                              /\ \A w \in Writers : writer[w].step = "write" => writer[w].fd # i
Missing == name["telegram.json"] = NoInode
Text == disk[name["telegram.json"]]
Readable == ~Missing /\ Text \in Config

(* The bridge goes on only with a whole file and a token in it. *)
Enabled == Readable /\ Text.token # NoToken

Init ==
    /\ \/ \E t \in Tokens :
            /\ wanted = [token |-> t, allowed |-> {}]
            /\ disk = [i \in Inodes |-> IF i = 1 THEN wanted ELSE Empty]
            /\ name = [n \in Names |-> IF n = "telegram.json" THEN 1 ELSE NoInode]
       \/ /\ wanted = Blank
          /\ disk = [i \in Inodes |-> Empty]
          /\ name = [n \in Names |-> NoInode]
    /\ writer = [w \in Writers |-> Idle]
    /\ up = TRUE
    /\ phase = "read" /\ token = NoToken /\ allowed = {}
    /\ offset = 0 /\ batch = <<>>
    /\ updates = [t \in Tokens |-> <<>>]
    /\ confirmed = [t \in Tokens |-> 0]
    /\ dealt = [t \in Tokens |-> {}]
    /\ accepted = <<>>
    /\ since = {} /\ overlapped = FALSE
    /\ edits = 0 /\ stops = 0

-----------------------------------------------------------------------------
(* One edit: read the file and compute the new text, open the target, write,
   and replace telegram.json by it. *)

(* Seeded fault: enrolment writes the bridge's copy back, not the file. *)
FromCopy(w) == IF w = "enroll" THEN [token |-> token, allowed |-> allowed]
               ELSE IF Missing THEN Blank ELSE Text

Source(w) == IF Missing THEN Blank ELSE Text

(* enroll() has no default for a file that is gone. *)
CanRead(w) == Readable \/ (Missing /\ w # "enroll")

Read(w, e) ==
    /\ CanRead(w)
    /\ writer' = [writer EXCEPT ![w] =
           [step |-> "open", edit |-> e, text |-> Applied(e, Source(w))]]
    /\ overlapped' = (overlapped \/ \E v \in Writers \ {w} : Busy(v))
    /\ UNCHANGED <<name, disk, wanted, since>>

(* open(..., "w"): an existing file is emptied, whoever else has it open. *)
Open(w) ==
    /\ writer[w].step = "open"
    /\ LET n == Target(w, writer[w].edit)
           i == IF name[n] = NoInode THEN Free ELSE name[n]
       IN  /\ name' = [name EXCEPT ![n] = i]
           /\ disk' = [disk EXCEPT ![i] = Empty]
           /\ writer' = [writer EXCEPT ![w] = [step |-> "write", edit |-> @.edit,
                                               text |-> @.text, fd |-> i]]
    /\ UNCHANGED ownVars

(* The owner is told at once how an edit ended; the bridge hears of its
   thread when the loop gets round to it. *)
Ends(w, how) ==
    writer' = [writer EXCEPT ![w] = IF w = "enroll" THEN [step |-> how] ELSE Idle]

Done(w) ==
    /\ Ends(w, "done")
    /\ wanted' = Applied(writer[w].edit, wanted)
    /\ since' = since \cup wanted'.allowed
    /\ UNCHANGED overlapped

(* The write begins at the start of the file: over a longer text of another
   writer it leaves the end of that text standing. *)
Write(w) ==
    /\ writer[w].step = "write"
    /\ LET i == writer[w].fd IN
         \E t \in {writer[w].text} \cup (IF disk[i] \in {Empty, writer[w].text} THEN {} ELSE {Torn}) :
            disk' = [disk EXCEPT ![i] = t]
    /\ IF w = "cli" THEN Done(w)
       ELSE /\ writer' = [writer EXCEPT ![w] = [step |-> "replace", edit |-> @.edit]]
            /\ UNCHANGED ownVars
    /\ UNCHANGED name

Replace(w) ==
    /\ writer[w].step = "replace"
    /\ LET n == Target(w, writer[w].edit) IN
         /\ name[n] # NoInode
         /\ name' = [name EXCEPT !["telegram.json"] = name[n], ![n] = NoInode]
    /\ disk' = [i \in Inodes |-> IF \/ \E n \in Names : name'[n] = i
                                    \/ \E v \in Writers : writer[v].step = "write" /\ writer[v].fd = i
                                 THEN disk[i] ELSE Empty]
    /\ Done(w)

(* chmod() or replace() finds the temporary file gone: the edit is reported
   as failed. *)
ReplaceFails(w) ==
    /\ writer[w].step = "replace"
    /\ name[Target(w, writer[w].edit)] = NoInode
    /\ Ends(w, "failed")
    /\ UNCHANGED <<name, disk, ownVars>>

(* The enrolment thread gets to its read; without a whole file it raises. *)
ThreadReads ==
    /\ writer["enroll"].step = "read"
    /\ \/ Read("enroll", writer["enroll"].edit)
       \/ /\ ~CanRead("enroll") /\ Ends("enroll", "failed")
          /\ UNCHANGED <<name, disk, ownVars>>

WriterStep(w) == (w = "enroll" /\ ThreadReads) \/ Open(w) \/ Write(w) \/ Replace(w) \/ ReplaceFails(w)

(* The owner edits through the daemon while its socket exists and by the
   command line itself when it does not; an unreadable file is an error. *)
OwnerEdits ==
    /\ edits < MaxEdits /\ edits' = edits + 1
    /\ \E e \in Edits :
         LET w == IF up THEN "rpc" ELSE "cli" IN
           ~Busy(w) /\ Read(w, e)
    /\ UNCHANGED <<up, pollVars, botVars, stops>>

FileStep(w) ==
    /\ w = "rpc" => up
    /\ WriterStep(w)
    /\ UNCHANGED <<up, pollVars, botVars, edits, stops>>

-----------------------------------------------------------------------------
(* The poll loop.  It stands still while a command of the daemon has the
   event loop. *)

Loop == up /\ ~Busy("rpc")

(* Seeded fault: a new token keeps the offset of the bot before it. *)
OffsetKept == offset

OffsetFor == IF Text.token # token THEN 0 ELSE offset

(* Seeded fault: chats stay in the bridge's copy. *)
CopyGrows == allowed \cup Text.allowed

ListRead == Text.allowed

ReadConfig ==
    /\ Loop /\ phase = "read"
    /\ IF Enabled
       THEN /\ phase' = "poll"
            /\ token' = Text.token /\ allowed' = ListRead
            /\ offset' = OffsetFor
       ELSE /\ phase' = "wait"
            /\ UNCHANGED <<token, allowed, offset>>
    /\ since' = wanted.allowed
    /\ UNCHANGED <<fileVars, up, batch, botVars, wanted, overlapped, edits, stops>>

(* CONFIG_POLL_SECONDS, or five seconds after a failed poll. *)
Waited ==
    /\ Loop /\ phase = "wait" /\ phase' = "read"
    /\ UNCHANGED <<fileVars, up, token, allowed, offset, batch,
                   botVars, ownVars, edits, stops>>

(* Telegram drops the updates below the offset and delivers all others, those
   that users have sent since the last poll (new) among them; an answer without
   updates comes when the long poll is over. *)
Update == [chat : Chats, text : {"/start", "text"}]
Room == MaxUpdates - FoldFunctionOnSet(LAMBDA s, n : Len(s) + n, 0, updates, Tokens)

GetUpdates ==
    /\ Loop /\ phase = "poll" /\ phase' = "batch"
    /\ \E n \in 0 .. MaxUpdates : n <= Room /\ \E new \in [1 .. n -> Update] :
         LET sent == updates[token] \o new
             seen == IF offset > confirmed[token] THEN offset - 1 ELSE confirmed[token]
         IN  /\ updates' = [updates EXCEPT ![token] = sent]
             /\ confirmed' = [confirmed EXCEPT ![token] = seen]
             /\ batch' = [k \in 1 .. (IF Len(sent) > seen THEN Len(sent) - seen ELSE 0) |-> seen + k]
    /\ UNCHANGED <<fileVars, up, token, allowed, offset, dealt, accepted,
                   ownVars, edits, stops>>

PollFails ==
    /\ Loop /\ phase = "poll" /\ phase' = "wait"
    /\ UNCHANGED <<fileVars, up, token, allowed, offset, batch,
                   botVars, ownVars, edits, stops>>

(* Seeded fault: after a poll the loop goes on with the copy it has. *)
PollAgain == "poll"

NextPoll == "read"

BatchDone ==
    /\ Loop /\ phase = "batch" /\ batch = <<>> /\ phase' = NextPoll
    /\ UNCHANGED <<fileVars, up, token, allowed, offset, batch,
                   botVars, ownVars, edits, stops>>

Admits(c) == c \in allowed
Enrols(u) == u.text = "/start" /\ ~Admits(u.chat)

(* An update of an admitted chat is accepted: a command or a press is carried
   out here, a message is given to a task of its own, which works and answers
   after this step. *)
Handle ==
    /\ Loop /\ phase = "batch" /\ batch # <<>>
    /\ LET id == Head(batch)
           u  == updates[token][id]
       IN  /\ offset' = IF id + 1 > offset THEN id + 1 ELSE offset
           /\ dealt' = [dealt EXCEPT ![token] = @ \cup {id}]
           /\ accepted' = (IF Admits(u.chat) THEN <<token, id>> ELSE accepted)
           /\ \/ /\ Enrols(u) /\ phase' = "enroll"
                 /\ writer' = [writer EXCEPT !["enroll"] =
                        [step |-> "read", edit |-> [what |-> "enroll", chat |-> u.chat]]]
                 /\ UNCHANGED batch
              \/ /\ ~Enrols(u)
                 /\ \/ /\ UNCHANGED phase /\ batch' = Tail(batch)
                    \/ \* a command's answer cannot be sent: the batch is left
                       /\ Admits(u.chat) /\ phase' = "wait" /\ batch' = <<>>
                 /\ UNCHANGED writer
    /\ UNCHANGED <<name, disk, up, token, allowed, updates, confirmed,
                   ownVars, edits, stops>>

(* The thread has returned: with the chat in the file the bridge's copy takes
   it and its /start is answered, otherwise the chat is told to try again. *)
Enrolled ==
    /\ Loop /\ phase = "enroll" /\ writer["enroll"].step \in {"done", "failed"}
    /\ LET id == Head(batch)
           c  == updates[token][id].chat
       IN  IF writer["enroll"].step = "done"
           THEN allowed' = allowed \cup {c} /\ accepted' = <<token, id>>
           ELSE UNCHANGED <<allowed, accepted>>
    /\ writer' = [writer EXCEPT !["enroll"] = Idle]
    /\ \/ phase' = "batch" /\ batch' = Tail(batch)
       \/ phase' = "wait" /\ batch' = <<>>
    /\ UNCHANGED <<name, disk, up, token, offset, updates, confirmed, dealt,
                   ownVars, edits, stops>>

Poll == \/ ReadConfig \/ Waited \/ GetUpdates \/ PollFails
        \/ BatchDone \/ Handle \/ Enrolled

-----------------------------------------------------------------------------
(* The daemon's life.  A new process starts with a new bridge. *)

Forget ==
    /\ phase' = "read" /\ token' = NoToken /\ allowed' = {}
    /\ offset' = 0 /\ batch' = <<>>

(* A stop cancels the poll loop wherever it awaits and removes the socket; a
   thread cannot be cancelled, and the process stays until it has ended. *)
StopDaemon ==
    /\ Loop /\ up' = FALSE /\ Forget
    /\ stops < MaxStops /\ stops' = stops + 1
    /\ UNCHANGED <<fileVars, botVars, ownVars, edits>>

(* Killed, in the middle of whatever it was writing. *)
Crash ==
    /\ up' = FALSE /\ Forget
    /\ up \/ Busy("enroll")
    /\ stops < MaxStops /\ stops' = stops + 1
    /\ writer' = [writer EXCEPT !["enroll"] = Idle, !["rpc"] = Idle]
    /\ UNCHANGED <<name, disk, botVars, ownVars, edits>>

Boot ==
    /\ ~up /\ ~Busy("enroll") /\ writer["enroll"].step # "read" /\ up' = TRUE
    /\ writer' = [writer EXCEPT !["enroll"] = Idle]
    /\ UNCHANGED <<name, disk, pollVars, botVars, ownVars, edits, stops>>

Next ==
    \/ OwnerEdits \/ \E w \in Writers : FileStep(w)
    \/ Poll \/ StopDaemon \/ Crash \/ Boot

Spec == Init /\ [][Next]_vars

(* The event loop, its thread and the command line go on by themselves; the
   owner and whoever stops and starts the daemon do not have to. *)
FairSpec == Spec /\ WF_vars(Poll) /\ \A w \in Writers : WF_vars(FileStep(w))

-----------------------------------------------------------------------------
(* Properties. *)

(* Every variable has its type; the six inodes are enough. *)
TypeOK ==
    /\ name \in [Names -> Inodes \cup {NoInode}]
    /\ disk \in [Inodes -> Config \cup {Empty, Torn}]
    /\ \A w \in Writers : writer[w].step \in
           {"idle", "read", "open", "write", "replace", "done", "failed"}
    /\ up \in BOOLEAN
    /\ phase \in {"read", "wait", "poll", "batch", "enroll"}
    /\ token \in Tokens \cup {NoToken}
    /\ allowed \subseteq Chats
    /\ offset \in Nat
    /\ \A t \in Tokens : /\ confirmed[t] <= Len(updates[t])
                         /\ dealt[t] \subseteq 1 .. Len(updates[t])
    /\ accepted = <<>> \/ \E t \in Tokens : \E id \in dealt[t] : accepted = <<t, id>>
    /\ wanted \in Config /\ since \subseteq Chats /\ overlapped \in BOOLEAN

(* While edits follow one another, whoever makes them and whatever is stopped
   or killed between them, the file is what they come to: an enrolment keeps
   the owner's token and list, and an edit that was reported as done is not
   undone by a later one. *)
Quiet == \A w \in Writers : ~Busy(w)
EditsAddUp == Quiet /\ ~overlapped => (IF Missing THEN Blank ELSE Text) = wanted

(* The same whether or not they follow one another: enroll() promises not to
   lose concurrent edits (telegram.py:84). *)
EditsSurviveEnrolment == Quiet => (IF Missing THEN Blank ELSE Text) = wanted

(* The bridge accepts an update only if its chat was on the list at some time
   since the file was last read: of a chat that the owner has removed it takes
   nothing new after the poll under way.  What it has accepted before goes on:
   a reply that waits behind the lock of its chat starts and answers however
   often the file is read meanwhile, for nothing looks at the list again. *)
OnlyAdmittedChats ==
    [][accepted' # accepted /\ ~overlapped => updates[accepted'[1]][accepted'[2]].chat \in since]_vars

(* No update is confirmed to Telegram that has not reached the handler, over
   changes of the token to and fro, abandoned batches, stops and kills. *)
NothingIsSkipped == \A t \in Tokens : 1 .. confirmed[t] \subseteq dealt[t]

(* Edits take effect without a restart: the bridge always comes to poll with
   what the file says, or to stand still when the file says so. *)
Current == IF Enabled THEN phase # "wait" /\ token = Text.token /\ allowed = Text.allowed
           ELSE phase = "wait"
EditsTakeEffect == []<>(~up \/ Current)
=============================================================================
