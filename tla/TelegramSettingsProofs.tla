------------------------ MODULE TelegramSettingsProofs ------------------------
(* The settings of the Telegram bridge, for any number of chats, bots, edits,  *)
(* updates and restarts.                                                       *)
EXTENDS TelegramSettings, TLAPS

-----------------------------------------------------------------------------
(* The files. *)

WriterOK(w) ==
    LET step == writer[w].step IN
    /\ step \in {"idle", "read", "open", "write", "replace", "done", "failed"}
    /\ step \in {"read", "open", "write", "replace"}
       => writer[w].edit \in IF w = "enroll" THEN Enrolments ELSE Edits
    /\ step \in {"open", "write"} => writer[w].text \in Config
    /\ step = "write" => writer[w].fd \in Inodes
    /\ step \in {"read", "done", "failed"} => w = "enroll"
    /\ step = "replace" => w # "cli"

(* Two names never lead to one inode. *)
Files ==
    /\ name \in [Names -> Inodes \cup {NoInode}]
    /\ disk \in [Inodes -> Config \cup {Empty, Torn}]
    /\ \A m, n \in Names : m # n /\ name[m] = name[n] => name[m] = NoInode
    /\ writer = [w \in Writers |-> writer[w]]
    /\ \A w \in Writers : WriterOK(w)
    /\ wanted \in Config /\ overlapped \in BOOLEAN

OneAtWork == \A v, w \in Writers : Busy(v) /\ Busy(w) => v = w

(* The configuration a writer leaves behind. *)
Aimed(w) == Applied(writer[w].edit, wanted)

(* A writer that is alone has read what is wanted, and its file, which is      *)
(* nobody's, holds nothing else.                                               *)
AloneAtWork(w) ==
    LET step == writer[w].step
        n    == Target(w, writer[w].edit)
    IN
    /\ step \in {"open", "write"} => writer[w].text = Aimed(w)
    /\ step = "write" => /\ name[n] = writer[w].fd
                         /\ disk[writer[w].fd] = Empty
    /\ step = "replace" => name[n] # NoInode /\ disk[name[n]] = Aimed(w)

(* Until it is replaced the file says what is wanted; only the command line    *)
(* empties it before it writes.                                                *)
Saved == (IF Missing THEN Blank ELSE Text) = wanted

FileSaysWanted ==
    ~overlapped =>
        /\ OneAtWork
        /\ \A w \in Writers : AloneAtWork(w)
        /\ writer["cli"].step # "write" => Saved

FInv == Files /\ FileSaysWanted

-----------------------------------------------------------------------------
(* The updates. *)

Bots ==
    /\ updates \in [Tokens -> Seq(Update)]
    /\ confirmed \in [Tokens -> Nat]
    /\ dealt \in [Tokens -> SUBSET Nat]
    /\ \A t \in Tokens : /\ confirmed[t] <= Len(updates[t])
                         /\ dealt[t] \subseteq 1 .. Len(updates[t])
                         /\ 1 .. confirmed[t] \subseteq dealt[t]
    /\ accepted = <<>> \/ \E t \in Tokens : \E id \in dealt[t] : accepted = <<t, id>>

Loops ==
    /\ up \in BOOLEAN
    /\ phase \in {"read", "wait", "poll", "batch", "enroll"}
    /\ token \in Tokens \cup {NoToken}
    /\ phase \in {"poll", "batch", "enroll"} => token \in Tokens
    /\ allowed \subseteq Chats /\ since \subseteq Chats
    /\ offset \in Nat

(* What is below the offset was dealt with, by this bot. *)
OffsetIsDealt ==
    token \in Tokens => /\ 1 .. (offset - 1) \subseteq dealt[token]
                        /\ offset <= Len(updates[token]) + 1

(* The batch goes on where what was dealt with ends; the update of an          *)
(* enrolment is its first.                                                     *)
Batches ==
    /\ batch \in Seq(Nat)
    /\ phase \notin {"batch", "enroll"} => batch = <<>>
    /\ phase = "enroll" => batch # <<>> /\ Head(batch) \in dealt[token]
    /\ batch # <<>> =>
           /\ \A k \in 1 .. Len(batch) : /\ batch[k] = Head(batch) + k - 1
                                         /\ batch[k] \in 1 .. Len(updates[token])
           /\ 1 .. (Head(batch) - 1) \subseteq dealt[token]

PInv == Bots /\ Loops /\ OffsetIsDealt /\ Batches

-----------------------------------------------------------------------------
(* The lists. *)

(* The thread works for the update that its bridge waits with; a bridge that   *)
(* waits for nothing has no thread, but a stopped one may have left it.        *)
Enroller ==
    /\ phase = "enroll" =>
           /\ writer["enroll"].step # "idle" /\ up
           /\ writer["enroll"].step \in {"read", "open", "write", "replace"}
              => writer["enroll"].edit.chat = updates[token][Head(batch)].chat
           /\ writer["enroll"].step = "done" => updates[token][Head(batch)].chat \in since
    /\ up /\ phase # "enroll" => writer["enroll"].step = "idle"
    /\ ~up => phase = "read"

CopyIsRecent ==
    ~overlapped /\ phase \in {"poll", "batch", "enroll"} => allowed \subseteq since

AInv == Enroller /\ CopyIsRecent

USE SettingsAssumption DEF SettingsAssumption

-----------------------------------------------------------------------------
(* Edits and files. *)

LEMMA AppliedIsConfig ==
    ASSUME NEW e \in Edits \cup Enrolments, NEW c \in Config
    PROVE  Applied(e, c) \in Config
  <1>1. c = [token |-> c.token, allowed |-> c.allowed]
        /\ c.token \in Tokens \cup {NoToken} /\ c.allowed \subseteq Chats
    BY DEF Config
  <1>2. CASE e.what \in {"allow", "enroll"}
    <2>1. e.chat \in Chats
      BY <1>2 DEF Edits, Enrolments
    <2>2. Applied(e, c) = [token |-> c.token, allowed |-> c.allowed \cup {e.chat}]
      BY <1>1, <1>2 DEF Applied
    <2> QED BY <1>1, <2>1, <2>2 DEF Config
  <1>3. CASE e.what = "disallow"
    <2>1. Applied(e, c) = [token |-> c.token, allowed |-> c.allowed \ {e.chat}]
      BY <1>1, <1>3 DEF Applied
    <2> QED BY <1>1, <2>1 DEF Config
  <1>4. CASE e.what = "disable"
    <2>1. Applied(e, c) = [token |-> NoToken, allowed |-> c.allowed]
      BY <1>1, <1>4 DEF Applied
    <2> QED BY <1>1, <2>1 DEF Config
  <1>5. CASE e.what = "set-token"
    <2>1. e.token \in Tokens
      BY <1>5 DEF Edits, Enrolments
    <2>2. Applied(e, c) = [token |-> e.token, allowed |-> c.allowed]
      BY <1>1, <1>5 DEF Applied
    <2> QED BY <1>1, <2>1, <2>2 DEF Config
  <1> QED BY <1>2, <1>3, <1>4, <1>5 DEF Edits, Enrolments

LEMMA EnrolmentAdds ==
    ASSUME NEW e \in Enrolments, NEW c \in Config
    PROVE  Applied(e, c).allowed = c.allowed \cup {e.chat}
  <1>1. c = [token |-> c.token, allowed |-> c.allowed] /\ e.what = "enroll"
    BY DEF Config, Enrolments
  <1>2. Applied(e, c) = [token |-> c.token, allowed |-> c.allowed \cup {e.chat}]
    BY <1>1 DEF Applied
  <1> QED BY <1>2

LEMMA TargetIsName ==
    ASSUME NEW w \in Writers, NEW e
    PROVE  Target(w, e) \in Names /\ (Target(w, e) = "telegram.json" <=> w = "cli")
  BY DEF Target, Names, Writers

(* Three names and the files of the two other writers leave one of six.        *)
LEMMA FreeIsFree ==
    ASSUME Files, NEW w \in Writers, writer[w].step # "write"
    PROVE  /\ Free \in Inodes /\ \A n \in Names : name[n] # Free
           /\ \A v \in Writers : writer[v].step = "write" => writer[v].fd # Free
  <1>1. \E u, v \in Writers : Writers = {w, u, v}
    BY DEF Writers
  <1>2. PICK u \in Writers, v \in Writers : Writers = {w, u, v}
    BY <1>1
  <1>3. PICK i \in Inodes : /\ i # name["telegram.json"] /\ i # name["telegram.json.tmp"]
                            /\ i # name["telegram.tmp"]
                            /\ i # writer[u].fd /\ i # writer[v].fd
    <2>1. PICK a, b, c, d, e :
              /\ a = name["telegram.json"] /\ b = name["telegram.json.tmp"]
              /\ c = name["telegram.tmp"] /\ d = writer[u].fd /\ e = writer[v].fd
      OBVIOUS
    <2>2. \E i \in Inodes : i # a /\ i # b /\ i # c /\ i # d /\ i # e
      <3>1. {1, 2, 3, 4, 5, 6} \subseteq Inodes
        BY DEF Inodes
      <3> QED BY <3>1
    <2> QED BY <2>1, <2>2
  <1>4. /\ \A n \in Names : name[n] # i
        /\ \A x \in Writers : writer[x].step = "write" => writer[x].fd # i
    BY <1>2, <1>3 DEF Names
  <1> QED BY <1>4 DEF Free

-----------------------------------------------------------------------------
(* The steps of the writers. *)

OthersWait(w) == \A v \in Writers : v # w => writer'[v] = writer[v]

LEMMA BlankIsConfig == Blank \in Config
  BY DEF Blank, Config

LEMMA InitFInv == Init => FInv
  <1> SUFFICES ASSUME Init PROVE FInv
    OBVIOUS
  <1>1. /\ writer = [w \in Writers |-> Idle] /\ overlapped = FALSE
        /\ \A w \in Writers : writer[w].step = "idle"
    BY DEF Init, Idle
  <1>2. /\ wanted \in Config /\ disk \in [Inodes -> Config \cup {Empty, Torn}]
        /\ name \in [Names -> Inodes \cup {NoInode}]
        /\ \A n \in Names : n # "telegram.json" => name[n] = NoInode
        /\ Saved
    <2>1. CASE \E t \in Tokens :
            /\ wanted = [token |-> t, allowed |-> {}]
            /\ disk = [i \in Inodes |-> IF i = 1 THEN wanted ELSE Empty]
            /\ name = [n \in Names |-> IF n = "telegram.json" THEN 1 ELSE NoInode]
      <3>1. wanted \in Config
        BY <2>1 DEF Config
      <3>2. 1 \in Inodes /\ "telegram.json" \in Names /\ 1 # NoInode
        BY DEF Inodes, Names, NoInode
      <3> QED BY <2>1, <3>1, <3>2 DEF Saved, Missing, Text
    <2>2. CASE /\ wanted = Blank
               /\ disk = [i \in Inodes |-> Empty]
               /\ name = [n \in Names |-> NoInode]
      BY <2>2, BlankIsConfig DEF Saved, Missing, Text, Names
    <2> QED BY <2>1, <2>2 DEF Init
  <1>3. \A w \in Writers : WriterOK(w) /\ AloneAtWork(w) /\ ~Busy(w)
    BY <1>1 DEF WriterOK, AloneAtWork, Busy
  <1> QED BY <1>1, <1>2, <1>3 DEF FInv, Files, FileSaysWanted, OneAtWork

(* A writer that gives up, and everything that leaves the writers alone. *)
LEMMA RestKeeps ==
    ASSUME FInv, UNCHANGED <<name, disk, wanted, overlapped>>,
           writer' = [v \in Writers |-> writer'[v]],
           \A v \in Writers : \/ writer'[v] = writer[v]
                              \/ v # "cli" /\ WriterOK(v)' /\ ~Busy(v)'
    PROVE  FInv'
  <1>1. \A v \in Writers : WriterOK(v)'
    BY DEF FInv, Files, WriterOK
  <1>2. Files'
    BY <1>1 DEF FInv, Files
  <1>3. FileSaysWanted'
    <2> SUFFICES ASSUME ~overlapped
                 PROVE  /\ OneAtWork'
                        /\ \A w \in Writers : AloneAtWork(w)'
                        /\ writer'["cli"].step # "write" => Saved'
      BY DEF FileSaysWanted
    <2>1. OneAtWork /\ \A w \in Writers : AloneAtWork(w)
      BY DEF FInv, FileSaysWanted
    <2>2. \A v \in Writers : Busy(v)' => Busy(v) /\ writer'[v] = writer[v]
      BY DEF Busy
    <2>3. OneAtWork'
      BY <2>1, <2>2 DEF OneAtWork
    <2>4. ASSUME NEW v \in Writers PROVE AloneAtWork(v)'
      <3>1. CASE writer'[v] = writer[v]
        BY <2>1, <3>1 DEF AloneAtWork, Aimed
      <3>2. CASE ~Busy(v)'
        BY <3>2 DEF AloneAtWork, Busy
      <3> QED BY <3>1, <3>2
    <2>5. writer'["cli"].step # "write" => Saved'
      <3>1. writer'["cli"] = writer["cli"] /\ "cli" \in Writers
        BY DEF Writers
      <3> QED BY <3>1 DEF FInv, FileSaysWanted, Saved, Missing, Text
    <2> QED BY <2>3, <2>4, <2>5
  <1> QED BY <1>2, <1>3 DEF FInv

LEMMA ReadKeeps ==
    ASSUME FInv, NEW w \in Writers,
           NEW e \in IF w = "enroll" THEN Enrolments ELSE Edits, ~Busy(w), Read(w, e)
    PROVE  FInv'
  <1>1. PICK text : text = Applied(e, Source(w))
    OBVIOUS
  <1>2. /\ writer' = [writer EXCEPT ![w] = [step |-> "open", edit |-> e, text |-> text]]
        /\ UNCHANGED <<name, disk, wanted>>
        /\ overlapped' = (overlapped \/ \E v \in Writers \ {w} : Busy(v))
    BY <1>1 DEF Read
  <1>3. /\ writer'[w] = [step |-> "open", edit |-> e, text |-> text]
        /\ OthersWait(w) /\ writer' = [v \in Writers |-> writer'[v]]
    BY <1>2 DEF FInv, Files, OthersWait
  <1>4. text \in Config
    <2>1. Source(w) \in Config
      BY BlankIsConfig DEF Read, CanRead, Source, Readable
    <2> QED BY <1>1, <2>1, AppliedIsConfig
  <1>5. \A v \in Writers : WriterOK(v)'
    <2>1. WriterOK(w)'
      BY <1>3, <1>4 DEF WriterOK
    <2>2. \A v \in Writers : v # w => WriterOK(v)'
      BY <1>3 DEF FInv, Files, WriterOK, OthersWait
    <2> QED BY <2>1, <2>2
  <1>6. Files'
    <2>1. overlapped' \in BOOLEAN
      BY <1>2
    <2> QED BY <1>2, <1>3, <1>5, <2>1 DEF FInv, Files
  <1>7. FileSaysWanted'
    <2> SUFFICES ASSUME ~overlapped'
                 PROVE  /\ OneAtWork'
                        /\ \A v \in Writers : AloneAtWork(v)'
                        /\ writer'["cli"].step # "write" => Saved'
      BY DEF FileSaysWanted
    <2>1. ~overlapped /\ \A v \in Writers : ~Busy(v)
      BY <1>2
    <2>2. Saved /\ Saved'
      <3>1. writer["cli"].step # "write"
        BY <2>1 DEF Busy, Writers
      <3>2. Saved
        BY <2>1, <3>1 DEF FInv, FileSaysWanted
      <3> QED BY <1>2, <3>2 DEF Saved, Missing, Text
    <2>3. \A v \in Writers : v # w => ~Busy(v)'
      BY <1>3, <2>1 DEF OthersWait, Busy
    <2>4. OneAtWork'
      BY <2>3 DEF OneAtWork
    <2>5. AloneAtWork(w)'
      <3>1. text = Applied(e, wanted)
        BY <1>1, <2>2 DEF Source, Saved
      <3> QED BY <1>2, <1>3, <3>1 DEF AloneAtWork, Aimed
    <2>6. \A v \in Writers : v # w => AloneAtWork(v)'
      BY <2>3 DEF AloneAtWork, Busy
    <2> QED BY <2>2, <2>4, <2>5, <2>6
  <1> QED BY <1>6, <1>7 DEF FInv

LEMMA OpenKeeps ==
    ASSUME FInv, NEW w \in Writers, Open(w)
    PROVE  FInv'
  <1>1. PICK n \in Names : n = Target(w, writer[w].edit)
    BY TargetIsName
  <1>2. n = "telegram.json" <=> w = "cli"
    BY <1>1, TargetIsName
  <1>3. writer[w].step = "open" /\ WriterOK(w)
    BY DEF Open, FInv, Files
  <1>4. PICK i : i = IF name[n] = NoInode THEN Free ELSE name[n]
    OBVIOUS
  <1>5. i \in Inodes /\ \A m \in Names : m # n => name[m] # i
    <2>1. Free \in Inodes /\ \A m \in Names : name[m] # Free
      BY <1>3, FreeIsFree DEF FInv
    <2>2. CASE name[n] = NoInode
      BY <1>4, <2>1, <2>2
    <2>3. CASE name[n] # NoInode
      BY <1>4, <2>3 DEF FInv, Files
    <2> QED BY <2>2, <2>3
  <1>6. PICK record : record = [step |-> "write", edit |-> writer[w].edit,
                                text |-> writer[w].text, fd |-> i]
    OBVIOUS
  <1>7. /\ name' = [name EXCEPT ![n] = i] /\ disk' = [disk EXCEPT ![i] = Empty]
        /\ writer' = [writer EXCEPT ![w] = record]
        /\ UNCHANGED <<wanted, since, overlapped>>
    <2>1. writer = [v \in Writers |-> writer[v]]
      BY DEF FInv, Files
    <2> QED BY <1>1, <1>4, <1>6, <2>1 DEF Open, ownVars
  <1>8. /\ writer'[w] = record /\ OthersWait(w) /\ writer' = [v \in Writers |-> writer'[v]]
        /\ name'[n] = i /\ \A m \in Names : m # n => name'[m] = name[m]
        /\ disk'[i] = Empty /\ \A j \in Inodes : j # i => disk'[j] = disk[j]
    BY <1>5, <1>7 DEF FInv, Files, OthersWait
  <1>9. Files'
    <2>1. WriterOK(w)'
      BY <1>3, <1>5, <1>6, <1>8 DEF WriterOK
    <2>2. \A v \in Writers : v # w => WriterOK(v)'
      BY <1>8 DEF FInv, Files, WriterOK, OthersWait
    <2>3. \A l, m \in Names : l # m /\ name'[l] = name'[m] => name'[l] = NoInode
      BY <1>5, <1>8 DEF FInv, Files
    <2>4. /\ name' \in [Names -> Inodes \cup {NoInode}]
          /\ disk' \in [Inodes -> Config \cup {Empty, Torn}]
      BY <1>5, <1>7 DEF FInv, Files
    <2> QED BY <1>7, <1>8, <2>1, <2>2, <2>3, <2>4 DEF FInv, Files
  <1>10. FileSaysWanted'
    <2> SUFFICES ASSUME ~overlapped
                 PROVE  /\ OneAtWork'
                        /\ \A v \in Writers : AloneAtWork(v)'
                        /\ writer'["cli"].step # "write" => Saved'
      BY <1>7 DEF FileSaysWanted
    <2>1. Busy(w) /\ \A v \in Writers : v # w => ~Busy(v)
      BY <1>3 DEF FInv, FileSaysWanted, OneAtWork, Busy
    <2>2. \A v \in Writers : v # w => ~Busy(v)'
      BY <1>8, <2>1 DEF OthersWait, Busy
    <2>3. OneAtWork'
      BY <2>2 DEF OneAtWork
    <2>4. AloneAtWork(w)'
      <3>1. writer[w].text = Applied(writer[w].edit, wanted)
        BY <1>3 DEF FInv, FileSaysWanted, AloneAtWork, Aimed
      <3>2. /\ writer'[w].step = "write" /\ writer'[w].edit = writer[w].edit
            /\ writer'[w].text = writer[w].text /\ writer'[w].fd = i
        BY <1>6, <1>8
      <3> QED BY <1>1, <1>7, <1>8, <3>1, <3>2 DEF AloneAtWork, Aimed
    <2>5. \A v \in Writers : v # w => AloneAtWork(v)'
      BY <2>2 DEF AloneAtWork, Busy
    <2>6. ASSUME writer'["cli"].step # "write" PROVE Saved'
      <3>1. n # "telegram.json" /\ "telegram.json" \in Names /\ "cli" \in Writers
        BY <1>2, <1>6, <1>8, <2>6 DEF Names, Writers
      <3>2. writer["cli"].step # "write"
        BY <1>3, <1>8, <2>6, <3>1 DEF OthersWait
      <3>3. Saved
        BY <3>2 DEF FInv, FileSaysWanted
      <3>4. /\ name'["telegram.json"] = name["telegram.json"]
            /\ name["telegram.json"] # i
        BY <1>5, <1>8, <3>1
      <3>5. name["telegram.json"] # NoInode => name["telegram.json"] \in Inodes
        BY <3>1 DEF FInv, Files
      <3>6. name["telegram.json"] # NoInode
            => disk'[name["telegram.json"]] = disk[name["telegram.json"]]
        BY <1>8, <3>4, <3>5
      <3> QED BY <1>7, <3>3, <3>4, <3>6 DEF Saved, Missing, Text
    <2> QED BY <2>3, <2>4, <2>5, <2>6
  <1> QED BY <1>9, <1>10 DEF FInv

LEMMA WriteKeeps ==
    ASSUME FInv, NEW w \in Writers, Write(w)
    PROVE  FInv'
  <1>1. PICK n \in Names : n = Target(w, writer[w].edit)
    BY TargetIsName
  <1>2. n = "telegram.json" <=> w = "cli"
    BY <1>1, TargetIsName
  <1>3. writer[w].step = "write" /\ WriterOK(w)
    BY DEF Write, FInv, Files
  <1>4. PICK i \in Inodes : i = writer[w].fd
    BY <1>3 DEF WriterOK
  <1>5. PICK t \in {writer[w].text} \cup (IF disk[i] \in {Empty, writer[w].text} THEN {} ELSE {Torn}) :
            disk' = [disk EXCEPT ![i] = t]
    BY <1>4 DEF Write
  <1>6. t \in Config \cup {Empty, Torn}
    BY <1>3 DEF WriterOK
  <1>7. PICK record : record = IF w = "cli" THEN Idle ELSE [step |-> "replace", edit |-> writer[w].edit]
    OBVIOUS
  <1>8. /\ name' = name /\ overlapped' = overlapped
        /\ writer' = [writer EXCEPT ![w] = record]
        /\ wanted' = IF w = "cli" THEN Aimed(w) ELSE wanted
    <2>1. writer = [v \in Writers |-> writer[v]]
      BY DEF FInv, Files
    <2>2. CASE w = "cli"
      BY <1>7, <2>2 DEF Write, Done, Ends, Aimed
    <2>3. CASE w # "cli"
      BY <1>7, <2>1, <2>3 DEF Write, ownVars
    <2> QED BY <2>2, <2>3 DEF Write
  <1>9. /\ writer'[w] = record /\ OthersWait(w) /\ writer' = [v \in Writers |-> writer'[v]]
        /\ disk'[i] = t /\ \A j \in Inodes : j # i => disk'[j] = disk[j]
    BY <1>5, <1>8 DEF FInv, Files, OthersWait
  <1>10. writer[w].edit \in Edits \cup Enrolments
    BY <1>3 DEF WriterOK
  <1>11. Files'
    <2>1. WriterOK(w)'
      <3>1. CASE w = "cli"
        BY <1>7, <1>9, <3>1 DEF WriterOK, Idle
      <3>2. CASE w # "cli"
        BY <1>3, <1>7, <1>9, <3>2 DEF WriterOK
      <3> QED BY <3>1, <3>2
    <2>2. \A v \in Writers : v # w => WriterOK(v)'
      BY <1>9 DEF FInv, Files, WriterOK, OthersWait
    <2>3. wanted' \in Config
      BY <1>8, <1>10, AppliedIsConfig DEF Aimed, FInv, Files
    <2>4. disk' \in [Inodes -> Config \cup {Empty, Torn}]
      BY <1>5, <1>6 DEF FInv, Files
    <2> QED BY <1>8, <1>9, <2>1, <2>2, <2>3, <2>4 DEF FInv, Files
  <1>12. FileSaysWanted'
    <2> SUFFICES ASSUME ~overlapped
                 PROVE  /\ OneAtWork'
                        /\ \A v \in Writers : AloneAtWork(v)'
                        /\ writer'["cli"].step # "write" => Saved'
      BY <1>8 DEF FileSaysWanted
    <2>1. Busy(w) /\ \A v \in Writers : v # w => ~Busy(v)
      BY <1>3 DEF FInv, FileSaysWanted, OneAtWork, Busy
    <2>2. \A v \in Writers : v # w => ~Busy(v)'
      BY <1>9, <2>1 DEF OthersWait, Busy
    <2>3. OneAtWork'
      BY <2>2 DEF OneAtWork
    <2>4. writer[w].text = Aimed(w) /\ name[n] = i /\ disk[i] = Empty
      BY <1>1, <1>3, <1>4 DEF FInv, FileSaysWanted, AloneAtWork
    <2>5. t = Aimed(w)
      BY <1>5, <2>4
    <2>6. i # NoInode
      BY DEF Inodes, NoInode
    <2>7. AloneAtWork(w)'
      <3>1. CASE w = "cli"
        BY <1>7, <1>9, <3>1 DEF AloneAtWork, Idle
      <3>2. CASE w # "cli"
        <4>1. writer'[w].step = "replace" /\ writer'[w].edit = writer[w].edit
          BY <1>7, <1>9, <3>2
        <4>2. wanted' = wanted
          BY <1>8, <3>2
        <4> QED BY <1>1, <1>8, <1>9, <2>4, <2>5, <2>6, <4>1, <4>2 DEF AloneAtWork, Aimed
      <3> QED BY <3>1, <3>2
    <2>8. \A v \in Writers : v # w => AloneAtWork(v)'
      BY <2>2 DEF AloneAtWork, Busy
    <2>9. Saved'
      <3>1. CASE w = "cli"
        BY <1>2, <1>8, <1>9, <2>4, <2>5, <2>6, <3>1 DEF Saved, Missing, Text
      <3>2. CASE w # "cli"
        <4>1. n # "telegram.json" /\ "telegram.json" \in Names /\ "cli" \in Writers
          BY <1>2, <3>2 DEF Names, Writers
        <4>2. writer["cli"].step # "write"
          BY <2>1, <3>2, <4>1 DEF Busy
        <4>3. Saved
          BY <4>2 DEF FInv, FileSaysWanted
        <4>4. name["telegram.json"] # i
          BY <2>4, <2>6, <4>1 DEF FInv, Files
        <4>5. name["telegram.json"] # NoInode
              => disk'[name["telegram.json"]] = disk[name["telegram.json"]]
          BY <1>9, <4>1, <4>4 DEF FInv, Files
        <4> QED BY <1>8, <3>2, <4>3, <4>5 DEF Saved, Missing, Text
      <3> QED BY <3>1, <3>2
    <2> QED BY <2>3, <2>7, <2>8, <2>9
  <1> QED BY <1>11, <1>12 DEF FInv

LEMMA ReplaceKeeps ==
    ASSUME FInv, NEW w \in Writers, Replace(w)
    PROVE  FInv'
  <1>1. PICK n \in Names : n = Target(w, writer[w].edit)
    BY TargetIsName
  <1>2. writer[w].step = "replace" /\ WriterOK(w) /\ w # "cli"
    BY DEF Replace, FInv, Files, WriterOK
  <1>3. n # "telegram.json" /\ "telegram.json" \in Names
    BY <1>1, <1>2, TargetIsName DEF Names
  <1>4. PICK i \in Inodes : i = name[n]
    BY <1>1 DEF Replace, FInv, Files
  <1>5. PICK record : record = IF w = "enroll" THEN [step |-> "done"] ELSE Idle
    OBVIOUS
  <1>6. /\ name' = [name EXCEPT !["telegram.json"] = i, ![n] = NoInode]
        /\ disk' = [j \in Inodes |-> IF \/ \E m \in Names : name'[m] = j
                                        \/ \E v \in Writers : writer[v].step = "write" /\ writer[v].fd = j
                                     THEN disk[j] ELSE Empty]
        /\ writer' = [writer EXCEPT ![w] = record]
        /\ wanted' = Aimed(w) /\ overlapped' = overlapped
    BY <1>1, <1>4, <1>5 DEF Replace, Done, Ends, Aimed
  <1>7. /\ writer'[w] = record /\ OthersWait(w) /\ writer' = [v \in Writers |-> writer'[v]]
        /\ name'["telegram.json"] = i /\ name'[n] = NoInode
        /\ \A m \in Names : m # n /\ m # "telegram.json" => name'[m] = name[m]
        /\ disk'[i] = disk[i]
    BY <1>1, <1>3, <1>6 DEF FInv, Files, OthersWait
  <1>8. writer[w].edit \in Edits \cup Enrolments
    BY <1>2 DEF WriterOK
  <1>9. i # NoInode
    BY DEF Inodes, NoInode
  <1>10. Files'
    <2>1. WriterOK(w)'
      BY <1>5, <1>7 DEF WriterOK, Idle
    <2>2. \A v \in Writers : v # w => WriterOK(v)'
      BY <1>7 DEF FInv, Files, WriterOK, OthersWait
    <2>3. wanted' \in Config
      BY <1>6, <1>8, AppliedIsConfig DEF Aimed, FInv, Files
    <2>4. disk' \in [Inodes -> Config \cup {Empty, Torn}]
      BY <1>6 DEF FInv, Files
    <2>5. name' \in [Names -> Inodes \cup {NoInode}]
      BY <1>6 DEF FInv, Files
    <2>6. \A l, m \in Names : l # m /\ name'[l] = name'[m] => name'[l] = NoInode
      BY <1>1, <1>4, <1>7, <1>9 DEF FInv, Files
    <2> QED BY <1>6, <1>7, <2>1, <2>2, <2>3, <2>4, <2>5, <2>6 DEF FInv, Files
  <1>11. FileSaysWanted'
    <2> SUFFICES ASSUME ~overlapped
                 PROVE  /\ OneAtWork'
                        /\ \A v \in Writers : AloneAtWork(v)'
                        /\ writer'["cli"].step # "write" => Saved'
      BY <1>6 DEF FileSaysWanted
    <2>1. Busy(w) /\ \A v \in Writers : v # w => ~Busy(v)
      BY <1>2 DEF FInv, FileSaysWanted, OneAtWork, Busy
    <2>2. \A v \in Writers : ~Busy(v)'
      BY <1>5, <1>7, <2>1 DEF OthersWait, Busy, Idle
    <2>3. disk[i] = Aimed(w)
      BY <1>1, <1>2, <1>4 DEF FInv, FileSaysWanted, AloneAtWork
    <2>4. Saved'
      BY <1>6, <1>7, <1>9, <2>3 DEF Saved, Missing, Text
    <2> QED BY <2>2, <2>4 DEF OneAtWork, AloneAtWork, Busy
  <1> QED BY <1>10, <1>11 DEF FInv

LEMMA WriterStepKeeps ==
    ASSUME FInv, NEW w \in Writers, WriterStep(w)
    PROVE  FInv'
  <1>1. CASE w = "enroll" /\ ThreadReads
    <2>1. writer[w].step = "read" /\ ~Busy(w) /\ writer[w].edit \in Enrolments
      BY <1>1 DEF ThreadReads, Busy, FInv, Files, WriterOK
    <2>2. CASE Read("enroll", writer["enroll"].edit)
      BY <1>1, <2>1, <2>2, ReadKeeps
    <2>3. CASE Ends("enroll", "failed") /\ UNCHANGED <<name, disk, ownVars>>
      <3>1. /\ writer'["enroll"] = [step |-> "failed"] /\ OthersWait("enroll")
            /\ writer' = [v \in Writers |-> writer'[v]]
        BY <1>1, <2>3 DEF Ends, FInv, Files, OthersWait
      <3>2. WriterOK("enroll")' /\ ~Busy("enroll")'
        BY <3>1 DEF WriterOK, Busy
      <3> QED BY <2>3, <3>1, <3>2, RestKeeps DEF OthersWait, ownVars
    <2> QED BY <1>1, <2>2, <2>3 DEF ThreadReads
  <1>2. CASE Open(w)
    BY <1>2, OpenKeeps
  <1>3. CASE Write(w)
    BY <1>3, WriteKeeps
  <1>4. CASE Replace(w)
    BY <1>4, ReplaceKeeps
  <1>5. CASE ReplaceFails(w)
    <2>1. w # "cli" /\ UNCHANGED <<name, disk, wanted, overlapped>>
      BY <1>5 DEF ReplaceFails, FInv, Files, WriterOK, ownVars
    <2>2. PICK record : record = IF w = "enroll" THEN [step |-> "failed"] ELSE Idle
      OBVIOUS
    <2>3. /\ writer'[w] = record /\ OthersWait(w)
          /\ writer' = [v \in Writers |-> writer'[v]]
      BY <1>5, <2>2 DEF ReplaceFails, Ends, FInv, Files, OthersWait
    <2>4. WriterOK(w)' /\ ~Busy(w)'
      BY <2>2, <2>3 DEF WriterOK, Busy, Idle
    <2> QED BY <2>1, <2>3, <2>4, RestKeeps DEF OthersWait
  <1> QED BY <1>1, <1>2, <1>3, <1>4, <1>5 DEF WriterStep

(* The enrolment's writer is set aside or started by the poll loop. *)
LEMMA EnrollerSet ==
    ASSUME FInv, NEW r, writer' = [writer EXCEPT !["enroll"] = r],
           UNCHANGED <<name, disk, wanted, overlapped>>,
           \/ r = Idle
           \/ \E c \in Chats : r = [step |-> "read", edit |-> [what |-> "enroll", chat |-> c]]
    PROVE  FInv'
  <1>1. /\ writer'["enroll"] = r /\ OthersWait("enroll")
        /\ writer' = [v \in Writers |-> writer'[v]]
    BY DEF FInv, Files, OthersWait, Writers
  <1>2. WriterOK("enroll")' /\ ~Busy("enroll")'
    <2>1. CASE r = Idle
      BY <1>1, <2>1 DEF WriterOK, Busy, Idle
    <2>2. ASSUME NEW c \in Chats, r = [step |-> "read", edit |-> [what |-> "enroll", chat |-> c]]
          PROVE  WriterOK("enroll")' /\ ~Busy("enroll")'
      <3>1. r.step = "read" /\ r.edit = [what |-> "enroll", chat |-> c]
        BY <2>2
      <3>2. r.edit \in Enrolments
        BY <3>1 DEF Enrolments
      <3> QED BY <1>1, <3>1, <3>2 DEF WriterOK, Busy
    <2> QED BY <2>1, <2>2
  <1> QED BY <1>1, <1>2, RestKeeps DEF OthersWait

-----------------------------------------------------------------------------
(* The steps of the writers do not touch what the poll loop knows. *)

AllInv == FInv /\ PInv /\ AInv

LEMMA InitPAInv == Init => PInv /\ AInv
  <1> SUFFICES ASSUME Init PROVE PInv /\ AInv
    OBVIOUS
  <1>1. /\ writer["enroll"] = Idle /\ up = TRUE /\ phase = "read" /\ token = NoToken
        /\ allowed = {} /\ since = {} /\ offset = 0 /\ batch = <<>> /\ accepted = <<>>
        /\ updates = [t \in Tokens |-> <<>>] /\ confirmed = [t \in Tokens |-> 0]
        /\ dealt = [t \in Tokens |-> {}]
    BY DEF Init, Writers
  <1>2. Bots
    BY <1>1 DEF Bots
  <1>3. Loops /\ OffsetIsDealt /\ Batches
    BY <1>1 DEF Loops, OffsetIsDealt, Batches
  <1>4. Enroller /\ CopyIsRecent
    BY <1>1 DEF Enroller, CopyIsRecent, Idle
  <1> QED BY <1>2, <1>3, <1>4 DEF PInv, AInv

LEMMA LoopWaits ==
    ASSUME PInv, UNCHANGED <<up, pollVars, botVars>>, since' \subseteq Chats
    PROVE  PInv'
  <1>1. Bots'
    BY DEF PInv, Bots, botVars
  <1>2. Loops' /\ OffsetIsDealt' /\ Batches'
    BY DEF PInv, Loops, OffsetIsDealt, Batches, pollVars, botVars
  <1> QED BY <1>1, <1>2 DEF PInv

(* The list of chats that were wanted only grows while the loop does not read. *)
LEMMA SinceGrows ==
    ASSUME AllInv, NEW w \in Writers, WriterStep(w)
    PROVE  /\ since \subseteq since' /\ since' \subseteq Chats
           /\ overlapped => overlapped'
  <1>1. FInv'
    BY WriterStepKeeps DEF AllInv
  <1>2. wanted'.allowed \subseteq Chats
    BY <1>1 DEF FInv, Files, Config
  <1>3. since' = since \/ since' = since \cup wanted'.allowed
    BY DEF WriterStep, ThreadReads, Read, Open, Write, Replace, ReplaceFails, Done, ownVars
  <1>4. overlapped => overlapped'
    BY DEF WriterStep, ThreadReads, Read, Open, Write, Replace, ReplaceFails, Done, ownVars
  <1> QED BY <1>2, <1>3, <1>4 DEF AllInv, PInv, Loops

LEMMA ThreadGoesOn ==
    ASSUME AllInv, WriterStep("enroll")
    PROVE  /\ writer["enroll"].step # "idle" /\ writer'["enroll"].step # "idle"
           /\ writer'["enroll"].step \in {"read", "open", "write", "replace"}
              => /\ writer["enroll"].step \in {"read", "open", "write", "replace"}
                 /\ writer'["enroll"].edit = writer["enroll"].edit
           /\ writer'["enroll"].step = "done"
              => /\ writer["enroll"].step \in {"read", "open", "write", "replace"}
                 /\ writer["enroll"].edit.chat \in since'
  <1>0. /\ "enroll" \in Writers /\ writer = [w \in Writers |-> writer[w]]
        /\ WriterOK("enroll") /\ wanted \in Config
    BY DEF AllInv, FInv, Files, Writers
  <1>1. ASSUME NEW e, e = writer["enroll"].edit, writer["enroll"].step = "read",
               Read("enroll", e)
        PROVE  writer'["enroll"].step = "open" /\ writer'["enroll"].edit = e
    <2>1. PICK text : writer' = [writer EXCEPT !["enroll"] = [step |-> "open", edit |-> e, text |-> text]]
      BY <1>1 DEF Read
    <2>2. writer'["enroll"] = [step |-> "open", edit |-> e, text |-> text]
      BY <1>0, <2>1
    <2> QED BY <2>2
  <1>2. ASSUME NEW how \in {"failed", "done"}, Ends("enroll", how)
        PROVE  writer'["enroll"].step = how
    BY <1>0, <1>2 DEF Ends
  <1>3. CASE ThreadReads
    BY <1>1, <1>2, <1>3 DEF ThreadReads
  <1>4. CASE Open("enroll")
    <2>1. PICK text, i : writer' = [writer EXCEPT !["enroll"] =
              [step |-> "write", edit |-> writer["enroll"].edit, text |-> text, fd |-> i]]
      BY <1>0, <1>4 DEF Open
    <2>2. writer'["enroll"] = [step |-> "write", edit |-> writer["enroll"].edit, text |-> text, fd |-> i]
      BY <1>0, <2>1
    <2> QED BY <1>4, <2>2 DEF Open
  <1>5. CASE Write("enroll")
    <2>1. writer' = [writer EXCEPT !["enroll"] = [step |-> "replace", edit |-> writer["enroll"].edit]]
      BY <1>0, <1>5 DEF Write
    <2>2. writer'["enroll"] = [step |-> "replace", edit |-> writer["enroll"].edit]
      BY <1>0, <2>1
    <2> QED BY <1>5, <2>2 DEF Write
  <1>6. CASE Replace("enroll")
    <2>1. writer["enroll"].step = "replace" /\ writer'["enroll"].step = "done"
      BY <1>2, <1>6 DEF Replace, Done
    <2>2. writer["enroll"].edit \in Enrolments
      BY <1>0, <2>1 DEF WriterOK
    <2>3. /\ wanted' = Applied(writer["enroll"].edit, wanted)
          /\ since' = since \cup wanted'.allowed
      BY <1>6 DEF Replace, Done
    <2>4. writer["enroll"].edit.chat \in wanted'.allowed
      BY <1>0, <2>2, <2>3, EnrolmentAdds
    <2> QED BY <2>1, <2>3, <2>4
  <1>7. CASE ReplaceFails("enroll")
    BY <1>2, <1>7 DEF ReplaceFails
  <1> QED BY <1>3, <1>4, <1>5, <1>6, <1>7 DEF WriterStep

(* An edit of another writer leaves the thread alone. *)
LEMMA OthersLeaveThread ==
    ASSUME FInv, NEW w \in Writers, w # "enroll",
           WriterStep(w) \/ \E e \in Edits : Read(w, e)
    PROVE  writer'["enroll"] = writer["enroll"]
  <1>1. \E record : writer' = [writer EXCEPT ![w] = record]
    <2>1. ASSUME NEW e, Read(w, e) PROVE \E record : writer' = [writer EXCEPT ![w] = record]
      BY <2>1 DEF Read
    <2>2. CASE Open(w)
      BY <2>2 DEF Open, FInv, Files
    <2>3. CASE Write(w)
      BY <2>3 DEF Write, Done, Ends, FInv, Files
    <2>4. CASE Replace(w) \/ ReplaceFails(w)
      BY <2>4 DEF Replace, ReplaceFails, Done, Ends
    <2> QED BY <2>1, <2>2, <2>3, <2>4 DEF WriterStep
  <1> QED BY <1>1 DEF FInv, Files, Writers

LEMMA FileStepKeeps ==
    ASSUME AllInv, NEW w \in Writers, FileStep(w)
    PROVE  AllInv'
  <1>1. WriterStep(w) /\ UNCHANGED <<up, pollVars, botVars>>
    BY DEF FileStep
  <1>2. FInv'
    BY <1>1, WriterStepKeeps DEF AllInv
  <1>3. since \subseteq since' /\ since' \subseteq Chats /\ (overlapped => overlapped')
    BY <1>1, SinceGrows
  <1>4. PInv'
    BY <1>1, <1>3, LoopWaits DEF AllInv
  <1>5. UNCHANGED <<up, phase, token, batch, updates, allowed>>
    BY <1>1 DEF pollVars, botVars
  <1>6. Enroller'
    <2>1. CASE w = "enroll"
      BY <1>1, <1>3, <1>5, <2>1, ThreadGoesOn DEF AllInv, AInv, Enroller
    <2>2. CASE w # "enroll"
      <3>1. writer'["enroll"] = writer["enroll"]
        BY <1>1, <2>2, OthersLeaveThread DEF AllInv
      <3> QED BY <1>3, <1>5, <3>1 DEF AllInv, AInv, Enroller
    <2> QED BY <2>1, <2>2
  <1>7. CopyIsRecent'
    BY <1>3, <1>5 DEF AllInv, AInv, CopyIsRecent
  <1> QED BY <1>2, <1>4, <1>6, <1>7 DEF AllInv, AInv

LEMMA OwnerEditsKeeps ==
    ASSUME AllInv, OwnerEdits
    PROVE  AllInv'
  <1>1. PICK e \in Edits, w \in Writers : w # "enroll" /\ ~Busy(w) /\ Read(w, e)
    BY DEF OwnerEdits, Writers
  <1>2. FInv'
    BY <1>1, ReadKeeps DEF AllInv
  <1>3. UNCHANGED <<up, pollVars, botVars, since>> /\ (overlapped => overlapped')
    BY <1>1 DEF OwnerEdits, Read
  <1>4. PInv'
    BY <1>3, LoopWaits DEF AllInv, PInv, Loops
  <1>5. UNCHANGED <<up, phase, token, batch, updates, allowed, since>>
    BY <1>3 DEF pollVars, botVars
  <1>6. writer'["enroll"] = writer["enroll"]
    BY <1>1, OthersLeaveThread DEF AllInv
  <1>7. Enroller' /\ CopyIsRecent'
    BY <1>3, <1>5, <1>6 DEF AllInv, AInv, Enroller, CopyIsRecent
  <1> QED BY <1>2, <1>4, <1>7 DEF AllInv, AInv

-----------------------------------------------------------------------------
(* The poll loop. *)

LEMMA FilesRest ==
    ASSUME FInv, UNCHANGED <<fileVars, wanted, overlapped>>
    PROVE  FInv'
  <1>1. writer' = [v \in Writers |-> writer'[v]]
    BY DEF FInv, Files, fileVars
  <1> QED BY <1>1, RestKeeps DEF fileVars

(* What is enabled by a file that nobody empties is what is wanted. *)
LEMMA EnabledIsWanted ==
    ASSUME FInv, Enabled, ~overlapped
    PROVE  Text = wanted
  <1>1. ~Missing /\ Text \in Config
    BY DEF Enabled, Readable
  <1>2. "cli" \in Writers /\ Target("cli", writer["cli"].edit) = "telegram.json"
    BY TargetIsName DEF Writers
  <1>3. ASSUME writer["cli"].step = "write" PROVE FALSE
    <2>1. name["telegram.json"] = writer["cli"].fd /\ disk[writer["cli"].fd] = Empty
      BY <1>2, <1>3 DEF FInv, FileSaysWanted, AloneAtWork
    <2>2. Text = Empty
      BY <2>1 DEF Text
    <2> QED BY <1>1, <2>2
  <1>4. Saved
    BY <1>3 DEF FInv, FileSaysWanted
  <1> QED BY <1>1, <1>4 DEF Saved

LEMMA ReadConfigKeeps ==
    ASSUME AllInv, ReadConfig
    PROVE  AllInv'
  <1>1. /\ up /\ phase = "read" /\ since' = wanted.allowed
        /\ UNCHANGED <<fileVars, up, batch, botVars, wanted, overlapped>>
    BY DEF ReadConfig, Loop
  <1>2. FInv'
    BY <1>1, FilesRest DEF AllInv
  <1>3. Bots'
    BY <1>1 DEF AllInv, PInv, Bots, botVars
  <1>4. since' \subseteq Chats
    BY <1>1 DEF AllInv, FInv, Files, Config
  <1>5. batch = <<>> /\ batch' = <<>> /\ offset \in Nat /\ batch \in Seq(Nat)
    BY <1>1 DEF AllInv, PInv, Batches, Loops
  <1>6. writer["enroll"].step = "idle" /\ writer' = writer
    BY <1>1 DEF AllInv, AInv, Enroller, fileVars
  <1>7. CASE Enabled
    <2>1. /\ phase' = "poll" /\ token' = Text.token /\ allowed' = Text.allowed
          /\ offset' = IF Text.token # token THEN 0 ELSE offset
      BY <1>7 DEF ReadConfig, ListRead, OffsetFor
    <2>2. Text.token \in Tokens /\ Text.allowed \subseteq Chats
      BY <1>7 DEF Enabled, Readable, Config
    <2>3. Loops'
      BY <1>1, <1>4, <1>5, <2>1, <2>2 DEF AllInv, PInv, Loops
    <2>4. OffsetIsDealt'
      <3>1. CASE Text.token # token
        <4>1. Len(updates'[token']) \in Nat
          BY <2>1, <2>2, <1>3 DEF Bots
        <4> QED BY <2>1, <3>1, <4>1 DEF OffsetIsDealt
      <3>2. CASE Text.token = token
        BY <1>1, <2>1, <3>2 DEF AllInv, PInv, OffsetIsDealt, botVars
      <3> QED BY <3>1, <3>2
    <2>5. Batches'
      BY <1>5, <2>1 DEF Batches
    <2>6. Enroller' /\ CopyIsRecent'
      BY <1>1, <1>6, <1>7, <2>1, EnabledIsWanted DEF AllInv, Enroller, CopyIsRecent
    <2> QED BY <1>2, <1>3, <2>3, <2>4, <2>5, <2>6 DEF AllInv, PInv, AInv
  <1>8. CASE ~Enabled
    <2>1. phase' = "wait" /\ UNCHANGED <<token, allowed, offset>>
      BY <1>8 DEF ReadConfig
    <2>2. Loops' /\ OffsetIsDealt' /\ Batches'
      BY <1>1, <1>4, <1>5, <2>1 DEF AllInv, PInv, Loops, OffsetIsDealt, Batches, botVars
    <2>3. Enroller' /\ CopyIsRecent'
      BY <1>1, <1>6, <2>1 DEF Enroller, CopyIsRecent
    <2> QED BY <1>2, <1>3, <2>2, <2>3 DEF AllInv, PInv, AInv
  <1> QED BY <1>7, <1>8

LEMMA LoopTurns ==
    ASSUME AllInv, Waited \/ PollFails \/ BatchDone
    PROVE  AllInv'
  <1>1. /\ UNCHANGED <<fileVars, up, token, allowed, offset, batch, botVars, ownVars>>
        /\ up /\ phase # "enroll" /\ batch = <<>>
        /\ phase' \in {"read", "wait"}
    BY DEF Waited, PollFails, BatchDone, NextPoll, Loop, AllInv, PInv, Batches
  <1>2. FInv'
    BY <1>1, FilesRest DEF AllInv, ownVars
  <1>3. Bots'
    BY <1>1 DEF AllInv, PInv, Bots, botVars
  <1>4. Loops' /\ OffsetIsDealt' /\ Batches'
    BY <1>1 DEF AllInv, PInv, Loops, OffsetIsDealt, Batches, botVars, ownVars
  <1>5. Enroller' /\ CopyIsRecent'
    BY <1>1 DEF AllInv, AInv, Enroller, CopyIsRecent, fileVars
  <1> QED BY <1>2, <1>3, <1>4, <1>5 DEF AllInv, PInv, AInv

(* The m updates that follow the first `from` of n. *)
LEMMA Shift ==
    ASSUME NEW from \in Nat, NEW n \in Nat, NEW m \in Nat, m = n - from
    PROVE  \A k \in 1 .. m : from + k \in 1 .. n /\ from + k = from + 1 + k - 1
  OBVIOUS

LEMMA GetUpdatesKeeps ==
    ASSUME AllInv, GetUpdates
    PROVE  AllInv'
  <1> DEFINE Answer(new, seen) ==
            /\ updates' = [updates EXCEPT ![token] = updates[token] \o new]
            /\ confirmed' = [confirmed EXCEPT ![token] = seen]
            /\ batch' = [k \in 1 .. (IF Len(updates[token] \o new) > seen
                                     THEN Len(updates[token] \o new) - seen ELSE 0) |-> seen + k]
  <1>21. PICK seen : seen = IF offset > confirmed[token] THEN offset - 1 ELSE confirmed[token]
    OBVIOUS
  <1>22. PICK n \in 0 .. MaxUpdates : \E new \in [1 .. n -> Update] : Answer(new, seen)
    BY <1>21 DEF GetUpdates
  <1>23. PICK new \in [1 .. n -> Update] : Answer(new, seen)
    BY <1>22
  <1>24. PICK sent : sent = updates[token] \o new
    OBVIOUS
  <1>1. /\ updates' = [updates EXCEPT ![token] = sent]
        /\ confirmed' = [confirmed EXCEPT ![token] = seen]
        /\ batch' = [k \in 1 .. (IF Len(sent) > seen THEN Len(sent) - seen ELSE 0) |-> seen + k]
    BY <1>23, <1>24
  <1> HIDE DEF Answer
  <1>2. /\ up /\ phase = "poll" /\ phase' = "batch"
        /\ UNCHANGED <<fileVars, up, token, allowed, offset, dealt, accepted, ownVars>>
    BY DEF GetUpdates, Loop
  <1>3. /\ token \in Tokens /\ offset \in Nat /\ confirmed[token] \in Nat
        /\ updates[token] \in Seq(Update) /\ n \in Nat
        /\ confirmed[token] <= Len(updates[token])
        /\ 1 .. confirmed[token] \subseteq dealt[token]
        /\ 1 .. (offset - 1) \subseteq dealt[token] /\ offset <= Len(updates[token]) + 1
    BY <1>2 DEF AllInv, PInv, Bots, Loops, OffsetIsDealt
  <1>5. sent \in Seq(Update) /\ Len(sent) = Len(updates[token]) + n
    <2>1. new \in Seq(Update) /\ Len(new) = n
      BY <1>3
    <2>2. PICK old \in Seq(Update) : old = updates[token]
      BY <1>3
    <2>3. old \o new \in Seq(Update) /\ Len(old \o new) = Len(old) + Len(new)
      BY <2>1
    <2> QED BY <1>24, <2>1, <2>2, <2>3
  <1>6. Len(updates[token]) \in Nat
    BY <1>3
  <1>7. /\ seen \in Nat /\ seen <= Len(updates[token]) /\ seen <= Len(sent)
        /\ 1 .. seen \subseteq dealt[token]
    BY <1>21, <1>3, <1>5, <1>6
  <1>8. FInv'
    BY <1>2, FilesRest DEF AllInv, ownVars
  <1>9. Bots'
    <2>1. /\ updates' \in [Tokens -> Seq(Update)] /\ confirmed' \in [Tokens -> Nat]
          /\ dealt' \in [Tokens -> SUBSET Nat]
      BY <1>1, <1>2, <1>5, <1>7 DEF AllInv, PInv, Bots
    <2>2. ASSUME NEW t \in Tokens
          PROVE  /\ confirmed'[t] <= Len(updates'[t])
                 /\ dealt[t] \subseteq 1 .. Len(updates'[t])
                 /\ 1 .. confirmed'[t] \subseteq dealt[t]
      <3>1. CASE t = token
        <4>1. updates'[t] = sent /\ confirmed'[t] = seen
          BY <1>1, <3>1 DEF AllInv, PInv, Bots
        <4>2. dealt[t] \subseteq 1 .. Len(updates[token])
          BY <3>1 DEF AllInv, PInv, Bots
        <4> QED BY <1>3, <1>5, <1>6, <1>7, <3>1, <4>1, <4>2
      <3>2. CASE t # token
        <4>1. updates'[t] = updates[t] /\ confirmed'[t] = confirmed[t]
          BY <1>1, <3>2 DEF AllInv, PInv, Bots
        <4> QED BY <4>1 DEF AllInv, PInv, Bots
      <3> QED BY <3>1, <3>2
    <2>3. (accepted = <<>> \/ \E t \in Tokens : \E id \in dealt[t] : accepted = <<t, id>>)'
      BY <1>2 DEF AllInv, PInv, Bots
    <2> QED BY <1>2, <2>1, <2>2, <2>3 DEF Bots
  <1>10. Loops'
    BY <1>2 DEF AllInv, PInv, Loops, ownVars
  <1>11. updates'[token] = sent
    BY <1>1, <1>3 DEF AllInv, PInv, Bots
  <1>12. OffsetIsDealt'
    BY <1>2, <1>3, <1>5, <1>6, <1>11 DEF OffsetIsDealt
  <1>13. Batches'
    <2>1. PICK m \in Nat : m = IF Len(sent) > seen THEN Len(sent) - seen ELSE 0
      <3>1. Len(sent) \in Nat /\ seen \in Nat
        BY <1>5, <1>7
      <3>2. (IF Len(sent) > seen THEN Len(sent) - seen ELSE 0) \in Nat
        BY <3>1
      <3> QED BY <3>2
    <2>2. batch' = [k \in 1 .. m |-> seen + k]
      BY <1>1, <2>1
    <2>3. batch' \in Seq(Nat) /\ Len(batch') = m /\ \A k \in 1 .. m : batch'[k] = seen + k
      BY <1>7, <2>2
    <2>4. ASSUME batch' # <<>>
          PROVE  /\ \A k \in 1 .. Len(batch') : /\ batch'[k] = Head(batch') + k - 1
                                                /\ batch'[k] \in 1 .. Len(updates'[token])
                 /\ 1 .. (Head(batch') - 1) \subseteq dealt[token]
      <3>1. m > 0
        BY <2>1, <2>3, <2>4
      <3>2. Head(batch') = seen + 1
        BY <2>3, <3>1
      <3>3. m = Len(sent) - seen
        BY <2>1, <3>1
      <3>4. \A k \in 1 .. m : seen + k \in 1 .. Len(sent) /\ seen + k = seen + 1 + k - 1
        <4>1. Len(sent) \in Nat /\ seen \in Nat
          BY <1>5, <1>7
        <4> QED BY <4>1, <3>3, Shift
      <3>5. seen + 1 - 1 = seen
        BY <1>7
      <3> QED BY <1>7, <1>11, <2>3, <3>2, <3>4, <3>5
    <2> QED BY <1>2, <2>3, <2>4 DEF Batches
  <1>14. Enroller' /\ CopyIsRecent'
    BY <1>2 DEF AllInv, AInv, Enroller, CopyIsRecent, fileVars, ownVars
  <1> QED BY <1>8, <1>9, <1>10, <1>12, <1>13, <1>14 DEF AllInv, PInv, AInv

(* The first of a batch and the rest. *)
LEMMA BatchGoesOn ==
    ASSUME PInv, batch # <<>>
    PROVE  /\ Head(batch) \in Nat /\ Head(batch) \in 1 .. Len(updates[token])
           /\ Tail(batch) \in Seq(Nat)
           /\ Tail(batch) # <<>> => Head(Tail(batch)) = Head(batch) + 1
           /\ \A k \in 1 .. Len(Tail(batch)) :
                  /\ Tail(batch)[k] = Head(batch) + k
                  /\ Tail(batch)[k] \in 1 .. Len(updates[token])
  <1>1. batch \in Seq(Nat) /\ Len(batch) \in Nat /\ Len(batch) >= 1
    BY DEF PInv, Batches
  <1>2. \A k \in 1 .. Len(batch) : /\ batch[k] = Head(batch) + k - 1
                                   /\ batch[k] \in 1 .. Len(updates[token])
    BY DEF PInv, Batches
  <1>3. Head(batch) = batch[1] /\ Head(batch) \in Nat /\ 1 \in 1 .. Len(batch)
    BY <1>1
  <1>4. /\ Tail(batch) \in Seq(Nat) /\ Len(Tail(batch)) = Len(batch) - 1
        /\ \A k \in 1 .. Len(Tail(batch)) : Tail(batch)[k] = batch[k + 1]
    BY <1>1
  <1>5. ASSUME NEW k \in 1 .. Len(Tail(batch))
        PROVE  /\ Tail(batch)[k] = Head(batch) + k
               /\ Tail(batch)[k] \in 1 .. Len(updates[token])
    <2>1. k + 1 \in 1 .. Len(batch) /\ k \in Nat
      BY <1>1, <1>4
    <2>2. batch[k + 1] = Head(batch) + (k + 1) - 1
      BY <1>2, <2>1
    <2>3. batch[k + 1] \in 1 .. Len(updates[token])
      BY <1>2, <2>1
    <2> QED BY <1>3, <1>4, <2>1, <2>2, <2>3
  <1>6. Tail(batch) # <<>> => Head(Tail(batch)) = Head(batch) + 1
    <2> SUFFICES ASSUME Tail(batch) # <<>> PROVE Head(Tail(batch)) = Head(batch) + 1
      OBVIOUS
    <2>1. Head(Tail(batch)) = Tail(batch)[1] /\ 1 \in 1 .. Len(Tail(batch))
      BY <1>4
    <2> QED BY <1>5, <2>1
  <1> QED BY <1>2, <1>3, <1>4, <1>5, <1>6

(* What is admitted is on a list that was wanted since the last read. *)
LEMMA AdmittedIsRecent ==
    ASSUME AllInv, phase \in {"batch", "enroll"}, ~overlapped
    PROVE  \A c : Admits(c) => c \in since
  BY DEF AllInv, AInv, CopyIsRecent, Admits

LEMMA HandleEffect ==
    ASSUME AllInv, Handle
    PROVE  \E id, u :
               /\ id = Head(batch) /\ u = updates[token][id] /\ batch # <<>>
               /\ token \in Tokens /\ id \in Nat /\ id \in 1 .. Len(updates[token])
               /\ u \in Update
               /\ up /\ phase = "batch" /\ writer["enroll"].step = "idle"
               /\ offset' = IF id + 1 > offset THEN id + 1 ELSE offset
               /\ dealt' = [dealt EXCEPT ![token] = @ \cup {id}]
               /\ accepted' = (IF Admits(u.chat) THEN <<token, id>> ELSE accepted)
               /\ \/ /\ phase' = "enroll" /\ batch' = batch
                     /\ writer' = [writer EXCEPT !["enroll"] =
                            [step |-> "read", edit |-> [what |-> "enroll", chat |-> u.chat]]]
                  \/ /\ \/ phase' = "batch" /\ batch' = Tail(batch)
                        \/ phase' = "wait" /\ batch' = <<>>
                     /\ writer' = writer
               /\ UNCHANGED <<name, disk, up, token, allowed, updates, confirmed, ownVars>>
  <1>1. PICK id : id = Head(batch)
    OBVIOUS
  <1>2. PICK u : u = updates[token][id]
    OBVIOUS
  <1>3. batch # <<>> /\ up /\ phase = "batch"
    BY DEF Handle, Loop
  <1>4. token \in Tokens /\ writer["enroll"].step = "idle"
    BY <1>3 DEF AllInv, PInv, Loops, AInv, Enroller
  <1>5. id \in Nat /\ id \in 1 .. Len(updates[token])
    BY <1>1, <1>3, BatchGoesOn DEF AllInv
  <1>6. u \in Update
    <2>1. updates[token] \in Seq(Update)
      BY <1>4 DEF AllInv, PInv, Bots
    <2> QED BY <1>2, <1>5, <2>1
  <1>7. /\ offset' = IF id + 1 > offset THEN id + 1 ELSE offset
        /\ dealt' = [dealt EXCEPT ![token] = @ \cup {id}]
        /\ accepted' = (IF Admits(u.chat) THEN <<token, id>> ELSE accepted)
        /\ UNCHANGED <<name, disk, up, token, allowed, updates, confirmed, ownVars>>
    BY <1>1, <1>2 DEF Handle
  <1>8. \/ /\ phase' = "enroll" /\ batch' = batch
           /\ writer' = [writer EXCEPT !["enroll"] =
                  [step |-> "read", edit |-> [what |-> "enroll", chat |-> u.chat]]]
        \/ /\ \/ phase' = "batch" /\ batch' = Tail(batch)
              \/ phase' = "wait" /\ batch' = <<>>
           /\ writer' = writer
    BY <1>1, <1>2, <1>3 DEF Handle
  <1> QED BY <1>1, <1>2, <1>3, <1>4, <1>5, <1>6, <1>7, <1>8

LEMMA HandleKeeps ==
    ASSUME AllInv, Handle
    PROVE  AllInv'
  <1>1. PICK id, u :
               /\ id = Head(batch) /\ u = updates[token][id] /\ batch # <<>>
               /\ token \in Tokens /\ id \in Nat /\ id \in 1 .. Len(updates[token])
               /\ u \in Update
               /\ up /\ phase = "batch" /\ writer["enroll"].step = "idle"
               /\ offset' = IF id + 1 > offset THEN id + 1 ELSE offset
               /\ dealt' = [dealt EXCEPT ![token] = @ \cup {id}]
               /\ accepted' = (IF Admits(u.chat) THEN <<token, id>> ELSE accepted)
               /\ \/ /\ phase' = "enroll" /\ batch' = batch
                     /\ writer' = [writer EXCEPT !["enroll"] =
                            [step |-> "read", edit |-> [what |-> "enroll", chat |-> u.chat]]]
                  \/ /\ \/ phase' = "batch" /\ batch' = Tail(batch)
                        \/ phase' = "wait" /\ batch' = <<>>
                     /\ writer' = writer
               /\ UNCHANGED <<name, disk, up, token, allowed, updates, confirmed, ownVars>>
    BY HandleEffect
  <1>2. u.chat \in Chats
    BY <1>1 DEF Update
  <1>3. FInv'
    <2>1. CASE writer' = writer
      BY <1>1, <2>1, FilesRest DEF AllInv, fileVars, ownVars
    <2>2. CASE writer' = [writer EXCEPT !["enroll"] =
                   [step |-> "read", edit |-> [what |-> "enroll", chat |-> u.chat]]]
      <3>1. PICK r : r = [step |-> "read", edit |-> [what |-> "enroll", chat |-> u.chat]]
        OBVIOUS
      <3> QED BY <1>1, <1>2, <2>2, <3>1, EnrollerSet DEF AllInv, ownVars
    <2> QED BY <1>1, <2>1, <2>2
  <1>4. /\ dealt'[token] = dealt[token] \cup {id}
        /\ \A t \in Tokens : /\ t # token => dealt'[t] = dealt[t]
                             /\ dealt[t] \subseteq dealt'[t]
        /\ dealt' \in [Tokens -> SUBSET Nat]
    BY <1>1 DEF AllInv, PInv, Bots
  <1>5. Bots'
    <2>1. \A t \in Tokens : /\ dealt'[t] \subseteq 1 .. Len(updates[t])
                            /\ 1 .. confirmed[t] \subseteq dealt'[t]
      BY <1>1, <1>4 DEF AllInv, PInv, Bots
    <2>2. accepted' = <<>> \/ \E t \in Tokens : \E k \in dealt'[t] : accepted' = <<t, k>>
      <3>1. CASE Admits(u.chat)
        BY <1>1, <1>4, <3>1
      <3>2. CASE ~Admits(u.chat)
        BY <1>1, <1>4, <3>2 DEF AllInv, PInv, Bots
      <3> QED BY <3>1, <3>2
    <2> QED BY <1>1, <1>4, <2>1, <2>2 DEF AllInv, PInv, Bots
  <1>6. offset \in Nat /\ offset' \in Nat
    BY <1>1 DEF AllInv, PInv, Loops
  <1>7. Loops'
    BY <1>1, <1>6 DEF AllInv, PInv, Loops, ownVars
  <1>8. 1 .. id \subseteq dealt'[token]
    <2>1. 1 .. (id - 1) \subseteq dealt[token]
      BY <1>1 DEF AllInv, PInv, Batches
    <2>2. 1 .. id \subseteq (1 .. (id - 1)) \cup {id}
      BY <1>1
    <2> QED BY <1>4, <2>1, <2>2
  <1>9. OffsetIsDealt'
    <2>1. Len(updates[token]) \in Nat
      BY <1>1 DEF AllInv, PInv, Bots
    <2>2. CASE id + 1 > offset
      <3>1. offset' = id + 1 /\ (id + 1) - 1 = id
        BY <1>1, <2>2
      <3> QED BY <1>1, <1>8, <2>1, <3>1 DEF OffsetIsDealt
    <2>3. CASE ~(id + 1 > offset)
      <3>1. offset' = offset
        BY <1>1, <2>3
      <3> QED BY <1>1, <1>4, <3>1 DEF AllInv, PInv, OffsetIsDealt
    <2> QED BY <2>2, <2>3
  <1>10. Batches'
    <2>1. CASE phase' = "enroll" /\ batch' = batch
      BY <1>1, <1>4, <2>1 DEF AllInv, PInv, Batches
    <2>2. CASE phase' = "wait" /\ batch' = <<>>
      BY <2>2 DEF Batches
    <2>3. CASE phase' = "batch" /\ batch' = Tail(batch)
      <3>1. /\ Tail(batch) \in Seq(Nat)
            /\ Tail(batch) # <<>> => Head(Tail(batch)) = id + 1
            /\ \A k \in 1 .. Len(Tail(batch)) :
                   Tail(batch)[k] = id + k /\ Tail(batch)[k] \in 1 .. Len(updates[token])
        BY <1>1, BatchGoesOn DEF AllInv
      <3>2. (id + 1) - 1 = id /\ Len(Tail(batch)) \in Nat
        BY <1>1, <3>1
      <3>3. \A k \in 1 .. Len(Tail(batch)) : id + k = id + 1 + k - 1
        BY <1>1, <3>2
      <3> QED BY <1>1, <1>8, <2>3, <3>1, <3>2, <3>3 DEF Batches
    <2> QED BY <1>1, <2>1, <2>2, <2>3
  <1>11. Enroller'
    <2>1. CASE writer' = writer /\ phase' # "enroll"
      BY <1>1, <2>1 DEF Enroller
    <2>2. CASE /\ phase' = "enroll" /\ batch' = batch
               /\ writer' = [writer EXCEPT !["enroll"] =
                      [step |-> "read", edit |-> [what |-> "enroll", chat |-> u.chat]]]
      <3>1. writer'["enroll"] = [step |-> "read", edit |-> [what |-> "enroll", chat |-> u.chat]]
        BY <2>2 DEF AllInv, FInv, Files, Writers
      <3>2. writer'["enroll"].step = "read" /\ writer'["enroll"].edit.chat = u.chat
        BY <3>1
      <3> QED BY <1>1, <2>2, <3>2 DEF Enroller
    <2> QED BY <1>1, <2>1, <2>2
  <1>12. CopyIsRecent'
    BY <1>1 DEF AllInv, AInv, CopyIsRecent, ownVars
  <1> QED BY <1>3, <1>5, <1>7, <1>9, <1>10, <1>11, <1>12 DEF AllInv, PInv, AInv

LEMMA EnrolledEffect ==
    ASSUME AllInv, Enrolled
    PROVE  \E id, c :
               /\ id = Head(batch) /\ c = updates[token][id].chat /\ batch # <<>>
               /\ token \in Tokens /\ id \in Nat /\ id \in dealt[token]
               /\ up /\ phase = "enroll" /\ c \in Chats
               /\ \/ c \in since /\ allowed' = allowed \cup {c} /\ accepted' = <<token, id>>
                  \/ allowed' = allowed /\ accepted' = accepted
               /\ writer' = [writer EXCEPT !["enroll"] = Idle]
               /\ \/ phase' = "batch" /\ batch' = Tail(batch)
                  \/ phase' = "wait" /\ batch' = <<>>
               /\ UNCHANGED <<name, disk, up, token, offset, updates, confirmed, dealt, ownVars>>
  <1>1. PICK id : id = Head(batch)
    OBVIOUS
  <1>2. PICK c : c = updates[token][id].chat
    OBVIOUS
  <1>3. up /\ phase = "enroll"
    BY DEF Enrolled, Loop
  <1>4. token \in Tokens /\ batch # <<>> /\ id \in dealt[token]
    BY <1>1, <1>3 DEF AllInv, PInv, Loops, Batches
  <1>5. id \in Nat /\ id \in 1 .. Len(updates[token])
    BY <1>1, <1>4, BatchGoesOn DEF AllInv
  <1>6. c \in Chats
    <2>1. updates[token] \in Seq(Update)
      BY <1>4 DEF AllInv, PInv, Bots
    <2>2. updates[token][id] \in Update
      BY <1>5, <2>1
    <2> QED BY <1>2, <2>2 DEF Update
  <1>7. writer["enroll"].step = "done" => c \in since
    BY <1>1, <1>2, <1>3 DEF AllInv, AInv, Enroller
  <1>8. /\ \/ c \in since /\ allowed' = allowed \cup {c} /\ accepted' = <<token, id>>
           \/ allowed' = allowed /\ accepted' = accepted
        /\ writer' = [writer EXCEPT !["enroll"] = Idle]
        /\ \/ phase' = "batch" /\ batch' = Tail(batch)
           \/ phase' = "wait" /\ batch' = <<>>
        /\ UNCHANGED <<name, disk, up, token, offset, updates, confirmed, dealt, ownVars>>
    BY <1>1, <1>2, <1>7 DEF Enrolled
  <1> QED BY <1>1, <1>2, <1>3, <1>4, <1>5, <1>6, <1>8

LEMMA EnrolledKeeps ==
    ASSUME AllInv, Enrolled
    PROVE  AllInv'
  <1>1. PICK id, c :
               /\ id = Head(batch) /\ c = updates[token][id].chat /\ batch # <<>>
               /\ token \in Tokens /\ id \in Nat /\ id \in dealt[token]
               /\ up /\ phase = "enroll" /\ c \in Chats
               /\ \/ c \in since /\ allowed' = allowed \cup {c} /\ accepted' = <<token, id>>
                  \/ allowed' = allowed /\ accepted' = accepted
               /\ writer' = [writer EXCEPT !["enroll"] = Idle]
               /\ \/ phase' = "batch" /\ batch' = Tail(batch)
                  \/ phase' = "wait" /\ batch' = <<>>
               /\ UNCHANGED <<name, disk, up, token, offset, updates, confirmed, dealt, ownVars>>
    BY EnrolledEffect
  <1>2. FInv'
    BY <1>1, EnrollerSet DEF AllInv, ownVars
  <1>3. Bots'
    BY <1>1 DEF AllInv, PInv, Bots
  <1>4. Loops'
    BY <1>1 DEF AllInv, PInv, Loops, ownVars
  <1>5. OffsetIsDealt'
    BY <1>1 DEF AllInv, PInv, OffsetIsDealt
  <1>6. Batches'
    <2>1. CASE phase' = "wait" /\ batch' = <<>>
      BY <2>1 DEF Batches
    <2>2. CASE phase' = "batch" /\ batch' = Tail(batch)
      <3>1. /\ Tail(batch) \in Seq(Nat)
            /\ Tail(batch) # <<>> => Head(Tail(batch)) = id + 1
            /\ \A k \in 1 .. Len(Tail(batch)) :
                   Tail(batch)[k] = id + k /\ Tail(batch)[k] \in 1 .. Len(updates[token])
        BY <1>1, BatchGoesOn DEF AllInv
      <3>2. (id + 1) - 1 = id /\ Len(Tail(batch)) \in Nat
        BY <1>1, <3>1
      <3>3. \A k \in 1 .. Len(Tail(batch)) : id + k = id + 1 + k - 1
        BY <1>1, <3>2
      <3>4. 1 .. id \subseteq dealt[token]
        <4>1. 1 .. (id - 1) \subseteq dealt[token]
          BY <1>1 DEF AllInv, PInv, Batches
        <4>2. 1 .. id \subseteq (1 .. (id - 1)) \cup {id}
          BY <1>1
        <4> QED BY <1>1, <4>1, <4>2
      <3> QED BY <1>1, <2>2, <3>1, <3>2, <3>3, <3>4 DEF Batches
    <2> QED BY <1>1, <2>1, <2>2
  <1>7. Enroller'
    <2>1. writer'["enroll"] = Idle
      BY <1>1 DEF AllInv, FInv, Files, Writers
    <2> QED BY <1>1, <2>1 DEF Enroller, Idle
  <1>8. CopyIsRecent'
    BY <1>1 DEF AllInv, AInv, CopyIsRecent, ownVars
  <1> QED BY <1>2, <1>3, <1>4, <1>5, <1>6, <1>7, <1>8 DEF AllInv, PInv, AInv

-----------------------------------------------------------------------------
(* The daemon's life. *)

LEMMA LifeKeeps ==
    ASSUME AllInv, StopDaemon \/ Crash \/ Boot
    PROVE  AllInv'
  <1>1. CASE StopDaemon \/ Crash
    <2>1. /\ up' = FALSE /\ phase' = "read" /\ token' = NoToken /\ allowed' = {}
          /\ offset' = 0 /\ batch' = <<>>
          /\ UNCHANGED <<name, disk, botVars, ownVars>>
      BY <1>1 DEF StopDaemon, Crash, Forget, fileVars
    <2>2. FInv'
      <3>1. CASE StopDaemon
        BY <2>1, <3>1, FilesRest DEF StopDaemon, AllInv, ownVars
      <3>2. CASE Crash
        <4>1. /\ writer' = [w \in Writers |-> writer'[w]]
              /\ writer'["enroll"] = Idle /\ writer'["rpc"] = Idle
              /\ writer'["cli"] = writer["cli"]
          BY <3>2 DEF Crash, AllInv, FInv, Files, Writers
        <4>2. \A w \in {"enroll", "rpc"} : WriterOK(w)' /\ ~Busy(w)'
          BY <4>1 DEF WriterOK, Busy, Idle
        <4>3. \A v \in Writers : \/ writer'[v] = writer[v]
                                 \/ v # "cli" /\ WriterOK(v)' /\ ~Busy(v)'
          BY <4>1, <4>2 DEF Writers
        <4> QED BY <2>1, <4>1, <4>3, RestKeeps DEF AllInv, ownVars
      <3> QED BY <1>1, <3>1, <3>2
    <2>3. Bots'
      BY <2>1 DEF AllInv, PInv, Bots, botVars
    <2>4. Loops' /\ OffsetIsDealt' /\ Batches'
      <3>1. Loops'
        BY <2>1 DEF AllInv, PInv, Loops, ownVars
      <3>2. OffsetIsDealt'
        BY <2>1 DEF OffsetIsDealt
      <3>3. Batches'
        BY <2>1 DEF Batches
      <3> QED BY <3>1, <3>2, <3>3
    <2>5. Enroller' /\ CopyIsRecent'
      BY <2>1 DEF Enroller, CopyIsRecent
    <2> QED BY <2>2, <2>3, <2>4, <2>5 DEF AllInv, PInv, AInv
  <1>2. CASE Boot
    <2>1. /\ ~up /\ up' = TRUE /\ writer' = [writer EXCEPT !["enroll"] = Idle]
          /\ UNCHANGED <<name, disk, pollVars, botVars, ownVars>>
      BY <1>2 DEF Boot
    <2>2. FInv'
      BY <2>1, EnrollerSet DEF AllInv, ownVars
    <2>3. Bots'
      BY <2>1 DEF AllInv, PInv, Bots, botVars
    <2>4. Loops' /\ OffsetIsDealt' /\ Batches'
      BY <2>1 DEF AllInv, PInv, Loops, OffsetIsDealt, Batches, ownVars, pollVars, botVars
    <2>5. writer'["enroll"] = Idle /\ phase' = "read"
      BY <2>1 DEF AllInv, FInv, Files, Writers, AInv, Enroller, pollVars
    <2>6. Enroller' /\ CopyIsRecent'
      BY <2>1, <2>5 DEF Enroller, CopyIsRecent, Idle
    <2> QED BY <2>2, <2>3, <2>4, <2>6 DEF AllInv, PInv, AInv
  <1> QED BY <1>1, <1>2

LEMMA NextKeeps == AllInv /\ [Next]_vars => AllInv'
  <1> SUFFICES ASSUME AllInv, [Next]_vars PROVE AllInv'
    OBVIOUS
  <1>1. CASE UNCHANGED vars
    <2>1. UNCHANGED <<fileVars, up, pollVars, botVars, ownVars>>
      BY <1>1 DEF vars
    <2>2. FInv'
      BY <2>1, FilesRest DEF AllInv, ownVars
    <2>3. PInv'
      BY <2>1, LoopWaits DEF AllInv, PInv, Loops, ownVars
    <2>4. AInv'
      BY <2>1 DEF AllInv, AInv, Enroller, CopyIsRecent, fileVars, pollVars, botVars, ownVars
    <2> QED BY <2>2, <2>3, <2>4 DEF AllInv
  <1>2. CASE Next
    BY <1>2, OwnerEditsKeeps, FileStepKeeps, ReadConfigKeeps, LoopTurns, GetUpdatesKeeps,
       HandleKeeps, EnrolledKeeps, LifeKeeps DEF Next, Poll
  <1> QED BY <1>1, <1>2

LEMMA Inductive == Spec => []AllInv
  <1>1. Init => AllInv
    BY InitFInv, InitPAInv DEF AllInv
  <1> QED BY <1>1, NextKeeps, PTL DEF Spec

-----------------------------------------------------------------------------
(* What the settings and the updates promise. *)

(* Every variable keeps its type, the six inodes are enough for three names    *)
(* and three writers, and the bridge works on updates it has dealt with only   *)
(* (telegram.py, enroll and run; rpc.py and cli.py, their edits).              *)
THEOREM TypeCorrect == Spec => []TypeOK
  <1>1. ASSUME AllInv PROVE TypeOK
    <2>1. /\ name \in [Names -> Inodes \cup {NoInode}]
          /\ disk \in [Inodes -> Config \cup {Empty, Torn}]
          /\ wanted \in Config /\ overlapped \in BOOLEAN
      BY <1>1 DEF AllInv, FInv, Files
    <2>2. \A w \in Writers : writer[w].step \in
              {"idle", "read", "open", "write", "replace", "done", "failed"}
      BY <1>1 DEF AllInv, FInv, Files, WriterOK
    <2>3. /\ up \in BOOLEAN /\ phase \in {"read", "wait", "poll", "batch", "enroll"}
          /\ token \in Tokens \cup {NoToken}
          /\ allowed \subseteq Chats /\ since \subseteq Chats /\ offset \in Nat
      BY <1>1 DEF AllInv, PInv, Loops
    <2>4. /\ \A t \in Tokens : /\ confirmed[t] <= Len(updates[t])
                               /\ dealt[t] \subseteq 1 .. Len(updates[t])
          /\ accepted = <<>> \/ \E t \in Tokens : \E id \in dealt[t] : accepted = <<t, id>>
      BY <1>1 DEF AllInv, PInv, Bots
    <2> QED BY <2>1, <2>2, <2>3, <2>4 DEF TypeOK
  <1> QED BY <1>1, Inductive, PTL

(* As long as writers do not overlap, no edit is lost: not to a stop, not to a *)
(* kill in the middle of one, not to a temporary file left behind              *)
(* (telegram.py, enroll; rpc.py, telegram_config and set_telegram_token;       *)
(* cli.py).                                                                    *)
THEOREM NoEditIsLost == Spec => []EditsAddUp
  <1>1. ASSUME AllInv, Quiet, ~overlapped
        PROVE  (IF Missing THEN Blank ELSE Text) = wanted
    <2>1. writer["cli"].step # "write"
      BY <1>1 DEF Quiet, Busy, Writers
    <2> QED BY <1>1, <2>1 DEF AllInv, FInv, FileSaysWanted, Saved
  <1>2. AllInv => EditsAddUp
    BY <1>1 DEF EditsAddUp
  <1> QED BY <1>2, Inductive, PTL

(* Telegram is never told to drop an update that did not reach the handler,    *)
(* whatever tokens were set and batches abandoned (telegram.py, run: offset is *)
(* advanced per update and reset with the token).                              *)
THEOREM NoUpdateIsSkipped == Spec => []NothingIsSkipped
  <1>1. AllInv => NothingIsSkipped
    BY DEF AllInv, PInv, Bots, NothingIsSkipped
  <1> QED BY <1>1, Inductive, PTL

(* As long as writers do not overlap, the bridge accepts an update only if the *)
(* owner wanted its chat at some time since the file was last read             *)
(* (telegram.py, run, load_config before every poll).  Replies accepted before *)
(* are not bound by it.                                                       *)
THEOREM OnlyAdmitted == Spec => OnlyAdmittedChats
  <1>1. ASSUME AllInv, Next, accepted' # accepted, ~overlapped
        PROVE  updates[accepted'[1]][accepted'[2]].chat \in since
    <2>1. CASE Handle
      <3>1. PICK id : accepted' = <<token, id>> /\ Admits(updates[token][id].chat)
        BY <1>1, <2>1, HandleEffect
      <3>2. phase \in {"batch", "enroll"}
        BY <2>1 DEF Handle
      <3> QED BY <1>1, <3>1, <3>2, AdmittedIsRecent
    <2>2. CASE Enrolled
      <3>1. PICK id : accepted' = <<token, id>> /\ updates[token][id].chat \in since
        BY <1>1, <2>2, EnrolledEffect
      <3> QED BY <3>1
    <2>3. CASE \/ OwnerEdits \/ \E w \in Writers : FileStep(w)
               \/ ReadConfig \/ Waited \/ GetUpdates \/ PollFails \/ BatchDone
               \/ StopDaemon \/ Crash \/ Boot
      <3>1. accepted' = accepted
        BY <2>3 DEF OwnerEdits, FileStep, ReadConfig, Waited, GetUpdates, PollFails, BatchDone,
                    StopDaemon, Crash, Boot, botVars
      <3> QED BY <1>1, <3>1
    <2> QED BY <1>1, <2>1, <2>2, <2>3 DEF Next, Poll
  <1>2. AllInv /\ [Next]_vars
        => [accepted' # accepted /\ ~overlapped
            => updates[accepted'[1]][accepted'[2]].chat \in since]_vars
    BY <1>1
  <1> QED BY <1>2, Inductive, PTL DEF Spec, OnlyAdmittedChats
=============================================================================
