--------------------------- MODULE Queries_proofs ---------------------------
(***************************************************************************)
(* Proofs about FileService and Queries, for any number of puts, messages, *)
(* users, chats, queries and failures.                                     *)
(*                                                                         *)
(* 1. Files: what a put names stays its own and whole                      *)
(*    (AnsweredFilesAreWhole).                                             *)
(* 2. Queries: what a handler holds at each step goes together with the    *)
(*    files and with what was there when it began, whatever is stored      *)
(*    meanwhile; so its answer does (TypeOK, AnswersAreWhole), and leaves  *)
(*    nothing out (NothingLeftOut, RecentIsNewest).                        *)
(***************************************************************************)
EXTENDS Queries, FiniteSetTheorems, TLAPS

-----------------------------------------------------------------------------
(* The invariant. *)

IsFileOf(f, c, n) == f \in DOMAIN files /\ files[f].call = c /\ files[f].nth = n

PutInv(c) ==
  /\ put[c] = "new" => fileInfo[c] = <<>>
  /\ put[c] \in {"new", "open", "write", "close"} => Len(fileInfo[c]) < Size[c]
  /\ put[c] = "ok" => Len(fileInfo[c]) = Size[c]
  /\ put[c] \in {"write", "close"} => IsFileOf(fileId[c], c, Nth(c))
  /\ put[c] = "close" => files[fileId[c]].whole
  /\ \A n \in 1..Len(fileInfo[c]) :
       /\ IsFileOf(fileInfo[c][n], c, n)
       /\ fileInfo[c][n] \in truncated \/ files[fileInfo[c][n]].whole

FilesInv == FileTypeOK /\ \A c \in Call : PutInv(c)

IsOfMessage(f, m) == f \in DOMAIN files /\ files[f].call = m
IsAvatarOf(f, u) == f = 0 \/ (f \in DOMAIN files /\ files[f].call \in Avatars(u))

StoreInv ==
  /\ index \subseteq Message \ FileMessage
  /\ rows \in [Message -> (0..Len(files)) \cup {None}]
  /\ avatar \in [User -> 0..Len(files)]
  /\ updated \subseteq DOMAIN AvatarOf
  /\ \A m \in Message : rows[m] = None \/ IF m \in FileMessage THEN IsOfMessage(rows[m], m)
                                                               ELSE rows[m] = 0
  /\ \A u \in User : IsAvatarOf(avatar[u], u)

Item == [chat : Chat \cup {None}, msg : Message \cup {None}, file : Nat,
         user : User \cup {None}]
IsSequence(s) == s \in Seq({s[k] : k \in DOMAIN s})

QueryTypeOK ==
  /\ step \in [Handler -> {"none", "find", "files", "users", "avatars", "respond",
                           "groups", "chat", "recent", "end"}]
  /\ outcome \in [Handler -> {"none", "ok", "failed"}]
  /\ unread \in [Handler -> BOOLEAN]
  /\ before \in [Handler -> SUBSET (Message \cup User)]
  /\ want \in [Handler -> Wanted \cup {None}]
  /\ msgLists \in [Handler -> Seq(Item)]
  /\ DOMAIN fileData = Handler /\ DOMAIN avatarIds = Handler /\ DOMAIN userLists = Handler
  /\ DOMAIN answer = Handler

StepInv(q) ==
  /\ step[q] = "end" <=> outcome[q] # "none"
  /\ step[q] # "none" => want[q] \in Wanted /\ before[q] \subseteq Now
  /\ step[q] = "files" => want[q].kind \in {"history", "recent"}
  /\ step[q] \in {"groups", "chat", "recent"} => want[q].kind = "chats"
  /\ step[q] = "respond" => want[q].kind # "chats"
  /\ step[q] \notin {"chat", "recent", "end"} => answer[q] = <<>>

Holding == {"files", "users", "avatars", "respond", "groups", "chat", "recent"}

ItemInv(w, e) ==
  /\ IF e.msg \in FileMessage
     THEN w.kind \in {"history", "recent"} /\ IsOfMessage(e.file, e.msg)
     ELSE e.file = 0
  /\ OfMessages(w) => e.msg \in Message /\ e.chat = w.chat
  /\ w.kind = "chats" => e.chat \in Chat

HasFile(q, e) ==
  e.msg \in FileMessage => e.file \in DOMAIN fileData[q] /\ fileData[q][e.file].call = e.msg

HasAvatarId(q, e) ==
  e.user # None =>
    /\ e.user \in DOMAIN avatarIds[q]
    /\ IsAvatarOf(avatarIds[q][e.user], e.user)
    /\ avatarIds[q][e.user] = 0 => e.user \notin before[q]

HasAvatar(q, e) ==
  e.user # None =>
    /\ e.user \in DOMAIN userLists[q]
    /\ \/ userLists[q][e.user].call \in Avatars(e.user)
       \/ userLists[q][e.user].call = None /\ e.user \notin before[q]

HeldInv(q) ==
  step[q] \in Holding =>
    \A k \in DOMAIN msgLists[q] : LET e == msgLists[q][k] IN
      /\ ItemInv(want[q], e)
      /\ step[q] # "files" => HasFile(q, e)
      /\ step[q] = "avatars" => HasAvatarId(q, e)
      /\ step[q] \in {"respond", "groups", "chat", "recent"} => HasAvatar(q, e)

IsWhole(e, had) ==
  /\ IsItself(e, had)
  /\ \A k \in DOMAIN e.prev : IsItself(e.prev[k], had) /\ e.prev[k].chat = e.chat

ShowsLast(e, had) ==
  \A m \in had \cap Message : ChatOf[m] = e.chat => e.prev # <<>> \/ e.missed

AnswerInv(q) ==
  /\ IsSequence(answer[q])
  /\ \A k \in DOMAIN answer[q] :
       /\ IsWhole(answer[q][k], before[q])
       /\ OfMessages(want[q]) => answer[q][k].chat = want[q].chat
       /\ want[q].kind = "chats" => ShowsLast(answer[q][k], before[q])
  /\ step[q] \in {"chat", "recent"} =>
       /\ Len(answer[q]) <= Len(msgLists[q])
       /\ \A k \in 1..Len(answer[q]) : answer[q][k].chat = msgLists[q][k].chat

(* What a list of found entries, or of answered ones, shows of what was    *)
(* there when the query began.                                             *)
Complete(w, had, list, chats) ==
  /\ w.kind = "history" =>
       \A m \in had \cap Message : ChatOf[m] = w.chat /\ w.from <= Time[m] /\ Time[m] <= w.to =>
         \E k \in DOMAIN list : list[k].msg = m
  /\ w.kind = "recent" =>
       /\ \A j, k \in DOMAIN list : j < k => Time[list[j].msg] <= Time[list[k].msg]
       /\ \A m \in had \cap Message :
            ChatOf[m] = w.chat /\ (\A k \in DOMAIN list : list[k].msg # m) =>
              /\ Len(list) = w.count
              /\ \A k \in DOMAIN list : Time[m] <= Time[list[k].msg]
  /\ w.kind = "chats" => {list[k].chat : k \in DOMAIN list} = chats
  /\ w.kind \in {"people", "user"} => {list[k].user : k \in DOMAIN list} = w.who

CompleteInv(q) ==
  /\ step[q] \in Holding /\ ~unread[q] =>
       Complete(want[q], before[q], msgLists[q],
                IF step[q] \in {"chat", "recent"} THEN Chat ELSE DOMAIN FriendOf)
  /\ outcome[q] = "ok" /\ ~unread[q] => Complete(want[q], before[q], answer[q], Chat)

HandlerInv(q) == StepInv(q) /\ HeldInv(q) /\ AnswerInv(q) /\ CompleteInv(q)

(* GetChatSessionList and the GetRecentMsg it waits for. *)
CallInv(q) ==
  /\ step[q] # "recent" => step[Inner(q)] = "none"
  /\ step[q] = "recent" =>
       /\ Len(answer[q]) < Len(msgLists[q])
       /\ step[Inner(q)] # "none"
       /\ want[Inner(q)].kind = "recent"
       /\ want[Inner(q)].chat = NextChat(q).chat
       /\ want[Inner(q)].count = 1
       /\ before[q] \subseteq before[Inner(q)]

Inv ==
  /\ FilesInv /\ StoreInv /\ QueryTypeOK
  /\ \A q \in Handler : HandlerInv(q)
  /\ \A q \in Query : CallInv(q)

-----------------------------------------------------------------------------
(* Files. *)

LEMMA SeqInWider ==
  ASSUME NEW S, NEW T, S \subseteq T, NEW s \in Seq(S)
  PROVE  s \in Seq(T)
<1>1. s \in [1..Len(s) -> T] /\ Len(s) \in Nat
  OBVIOUS
<1> QED
  BY <1>1

(* Files stay, and so does whose they are. *)
FilesGrow ==
  /\ DOMAIN files \subseteq DOMAIN files'
  /\ \A f \in DOMAIN files : files'[f].call = files[f].call

LEMMA FilesInitOK == FileInit => FilesInv
<1> SUFFICES ASSUME FileInit
             PROVE  FilesInv
  OBVIOUS
<1>1. FileTypeOK
  BY FileAssumption DEF FileInit, FileTypeOK
<1>2. ASSUME NEW c \in Call
      PROVE  PutInv(c)
  BY FileAssumption DEF FileInit, PutInv
<1> QED
  BY <1>1, <1>2 DEF FilesInv

LEMMA FilesRest ==
  ASSUME FilesInv, UNCHANGED fileVars, UNCHANGED faults \/ Fault
  PROVE  FilesInv' /\ FilesGrow
<1>1. FileTypeOK'
  BY FileAssumption DEF FilesInv, FileTypeOK, fileVars, Fault
<1>2. ASSUME NEW c \in Call
      PROVE  PutInv(c)'
  BY DEF FilesInv, PutInv, IsFileOf, Nth, fileVars
<1> QED
  BY <1>1, <1>2 DEF FilesInv, FilesGrow, fileVars

LEMMA OpenFileKeeps ==
  ASSUME FilesInv, NEW c \in Call, OpenFile(c)
  PROVE  FilesInv' /\ FilesGrow
<1> USE FileAssumption
<1> DEFINE n == Len(files)
<1>1. /\ files \in Seq(Content) /\ n \in Nat /\ DOMAIN files = 1..n
      /\ fileInfo \in [Call -> Seq(1..n)] /\ fileId \in [Call -> 0..n]
      /\ put \in [Call -> {"new", "open", "write", "close", "ok", "failed"}]
      /\ truncated \subseteq 1..n /\ faults \in 0..MaxFaults
  BY DEF FilesInv, FileTypeOK
<1>2. Len(fileInfo[c]) \in Nat /\ Nth(c) \in Nat \ {0}
  BY <1>1 DEF Nth
<1>3. CASE UNCHANGED <<files, fileId>> /\ Fault /\ Becomes(c, "failed")
  <2>1. FileTypeOK'
    <3>1. faults' \in 0..MaxFaults
      BY <1>1, <1>3 DEF Fault
    <3>2. put' \in [Call -> {"new", "open", "write", "close", "ok", "failed"}]
      BY <1>1, <1>3 DEF Becomes
    <3> QED
      BY <1>1, <1>3, <3>1, <3>2 DEF FileTypeOK, OpenFile
  <2>2. ASSUME NEW d \in Call
        PROVE  PutInv(d)'
    BY <1>1, <1>3 DEF FilesInv, PutInv, IsFileOf, Nth, Becomes, OpenFile
  <2> QED
    BY <1>3, <2>1, <2>2 DEF FilesInv, FilesGrow
<1>4. CASE /\ files' = Append(files, PartOf(c, Nth(c)))
           /\ fileId' = [fileId EXCEPT ![c] = Len(files) + 1]
           /\ Becomes(c, "write")
           /\ UNCHANGED faults
  <2>1. PartOf(c, Nth(c)) \in Content
    BY <1>2 DEF PartOf, Content
  <2>2. /\ files' \in Seq(Content) /\ Len(files') = n + 1 /\ DOMAIN files' = 1..(n + 1)
        /\ \A f \in 1..n : files'[f] = files[f]
        /\ files'[n + 1] = PartOf(c, Nth(c))
    BY <1>1, <1>4, <2>1
  <2>3. fileInfo' \in [Call -> Seq(1..(n + 1))]
    <3>1. ASSUME NEW d \in Call
          PROVE  fileInfo[d] \in Seq(1..(n + 1))
      <4>1. 1..n \subseteq 1..(n + 1) /\ fileInfo[d] \in Seq(1..n)
        BY <1>1
      <4> QED
        BY <4>1, SeqInWider
    <3> QED
      BY <1>1, <3>1 DEF OpenFile
  <2>4. FileTypeOK'
    BY <1>1, <1>4, <2>2, <2>3 DEF FileTypeOK, Becomes, OpenFile
  <2>5. ASSUME NEW d \in Call
        PROVE  PutInv(d)'
    <3>1. PutInv(d) /\ fileInfo'[d] = fileInfo[d] /\ truncated' = truncated
      BY DEF FilesInv, OpenFile
    <3>2. Len(fileInfo[d]) \in Nat /\ fileInfo[d] \in Seq(1..n)
      BY <1>1
    <3>3. \A k \in 1..Len(fileInfo[d]) :
            /\ IsFileOf(fileInfo[d][k], d, k)'
            /\ fileInfo[d][k] \in truncated \/ files'[fileInfo[d][k]].whole
      BY <2>2, <1>1, <3>1, <3>2 DEF PutInv, IsFileOf
    <3>4. CASE d # c
      <4>1. put'[d] = put[d] /\ fileId'[d] = fileId[d]
        BY <1>1, <1>4, <3>4 DEF Becomes
      <4>2. Nth(d)' = Nth(d)
        BY <3>1 DEF Nth
      <4> QED
        BY <1>1, <2>2, <3>1, <3>3, <4>1, <4>2 DEF PutInv, IsFileOf
    <3>5. CASE d = c
      <4>1. put'[c] = "write" /\ fileId'[c] = n + 1 /\ put[c] \in {"new", "open"}
        BY <1>1, <1>4 DEF Becomes, OpenFile
      <4>2. Nth(c)' = Nth(c) /\ Len(fileInfo[c]) < Size[c]
        BY <3>1, <3>5, <4>1 DEF Nth, PutInv
      <4>3. IsFileOf(fileId[c], c, Nth(c))'
        BY <2>2, <4>1, <4>2, <1>1 DEF IsFileOf, PartOf
      <4> QED
        BY <3>1, <3>3, <3>5, <4>1, <4>2, <4>3 DEF PutInv
    <3> QED
      BY <3>4, <3>5
  <2> QED
    BY <1>1, <2>2, <2>4, <2>5 DEF FilesInv, FilesGrow
<1> QED
  BY <1>3, <1>4 DEF OpenFile

LEMMA WriteFileKeeps ==
  ASSUME FilesInv, NEW c \in Call, WriteFile(c)
  PROVE  FilesInv' /\ FilesGrow
<1> USE FileAssumption
<1> DEFINE n == Len(files)
<1>1. /\ files \in Seq(Content) /\ n \in Nat /\ DOMAIN files = 1..n
      /\ fileInfo \in [Call -> Seq(1..n)] /\ fileId \in [Call -> 0..n]
      /\ put \in [Call -> {"new", "open", "write", "close", "ok", "failed"}]
      /\ truncated \subseteq 1..n /\ faults \in 0..MaxFaults
  BY DEF FilesInv, FileTypeOK
<1>2. /\ Len(fileInfo[c]) \in Nat /\ Nth(c) \in Nat \ {0}
      /\ UNCHANGED <<fileId, fileInfo, truncated>> /\ put[c] = "write"
      /\ IsFileOf(fileId[c], c, Nth(c))
      /\ \A d \in Call : PutInv(d)
  BY <1>1 DEF Nth, WriteFile, FilesInv, PutInv
<1>3. CASE Fault /\ Becomes(c, "failed") /\ UNCHANGED files
  <2>1. FileTypeOK'
    <3>1. faults' \in 0..MaxFaults
      BY <1>1, <1>3 DEF Fault
    <3>2. put' \in [Call -> {"new", "open", "write", "close", "ok", "failed"}]
      BY <1>1, <1>3 DEF Becomes
    <3> QED
      BY <1>1, <1>2, <1>3, <3>1, <3>2 DEF FileTypeOK
  <2>2. ASSUME NEW d \in Call
        PROVE  PutInv(d)'
    BY <1>1, <1>2, <1>3 DEF PutInv, IsFileOf, Nth, Becomes
  <2> QED
    BY <1>3, <2>1, <2>2 DEF FilesInv, FilesGrow
<1>4. CASE /\ Becomes(c, "close")
           /\ files' = [files EXCEPT ![fileId[c]] = Body(c, Nth(c))]
           /\ UNCHANGED faults
  <2>1. Body(c, Nth(c)) \in Content
    BY <1>2 DEF Body, Content
  <2>2. /\ files' \in Seq(Content) /\ Len(files') = n /\ DOMAIN files' = 1..n
        /\ \A f \in 1..n : f # fileId[c] => files'[f] = files[f]
        /\ files'[fileId[c]] = Body(c, Nth(c))
    BY <1>1, <1>2, <1>4, <2>1 DEF IsFileOf
  <2>3. put' = [put EXCEPT ![c] = "close"]
    BY <1>4 DEF Becomes
  <2>4. FileTypeOK'
    BY <1>1, <1>2, <1>4, <2>2, <2>3 DEF FileTypeOK
  <2>5. FilesGrow
    BY <1>1, <1>2, <2>2 DEF FilesGrow, IsFileOf, Body
  <2>6. ASSUME NEW d \in Call
        PROVE  PutInv(d)'
    <3>1. PutInv(d) /\ Len(fileInfo[d]) \in Nat
      BY <1>1, <1>2
    <3>2. ASSUME NEW f, NEW k, IsFileOf(f, d, k)
          PROVE  IsFileOf(f, d, k)' /\ (files[f].whole => files'[f].whole)
      <4>1. IsFileOf(fileId[c], c, Nth(c)) /\ f \in 1..n
        BY <1>1, <1>2, <3>2 DEF IsFileOf
      <4>2. CASE f = fileId[c]
        BY <2>2, <3>2, <4>1, <4>2 DEF IsFileOf, Body
      <4>3. CASE f # fileId[c]
        BY <2>2, <3>2, <4>1, <4>3 DEF IsFileOf
      <4> QED
        BY <4>2, <4>3
    <3>3. Nth(d)' = Nth(d)
      BY <1>2 DEF Nth
    <3>4. CASE d # c
      <4>1. put'[d] = put[d]
        BY <1>1, <2>3, <3>4
      <4> QED
        BY <1>2, <3>1, <3>2, <3>3, <4>1 DEF PutInv
    <3>5. CASE d = c
      <4>1. put'[c] = "close" /\ files'[fileId[c]].whole
        BY <1>1, <2>2, <2>3 DEF Body
      <4> QED
        BY <1>2, <3>1, <3>2, <3>3, <3>5, <4>1 DEF PutInv
    <3> QED
      BY <3>4, <3>5
  <2> QED
    BY <2>4, <2>5, <2>6 DEF FilesInv
<1> QED
  BY <1>3, <1>4 DEF WriteFile

(* A file that loses its end is either in truncated from then on, or that  *)
(* of a call that has not answered and no longer will.                     *)
LEMMA CloseFileKeeps ==
  ASSUME FilesInv, NEW c \in Call, CloseFile(c)
  PROVE  FilesInv' /\ FilesGrow
<1> USE FileAssumption
<1> DEFINE n == Len(files)
           end == IF Nth(c) = Size[c] THEN "ok" ELSE "open"
<1>1. /\ files \in Seq(Content) /\ n \in Nat /\ DOMAIN files = 1..n
      /\ fileInfo \in [Call -> Seq(1..n)] /\ fileId \in [Call -> 0..n]
      /\ put \in [Call -> {"new", "open", "write", "close", "ok", "failed"}]
      /\ truncated \subseteq 1..n /\ faults \in 0..MaxFaults
  BY DEF FilesInv, FileTypeOK
<1>2. /\ Len(fileInfo[c]) \in Nat /\ Nth(c) \in Nat \ {0} /\ Nth(c) = Len(fileInfo[c]) + 1
      /\ fileId' = fileId /\ put[c] = "close"
      /\ fileInfo' = [fileInfo EXCEPT ![c] = Append(@, fileId[c])]
      /\ put' = [put EXCEPT ![c] = end]
      /\ IsFileOf(fileId[c], c, Nth(c)) /\ fileId[c] \in 1..n
      /\ files[fileId[c]].whole
      /\ Len(fileInfo[c]) < Size[c]
      /\ \A d \in Call : PutInv(d)
  BY <1>1 DEF Nth, CloseFile, FilesInv, PutInv, Becomes, IsFileOf
<1>3. /\ files' \in Seq(Content) /\ Len(files') = n /\ DOMAIN files' = 1..n
      /\ \A f \in 1..n : f # fileId[c] => files'[f] = files[f]
      /\ files'[fileId[c]].call = c /\ files'[fileId[c]].nth = Nth(c)
      /\ files'[fileId[c]].whole \/ fileId[c] \in truncated'
      /\ truncated \subseteq truncated' /\ truncated' \subseteq 1..n
      /\ faults' \in 0..MaxFaults
  <2>1. CASE UNCHANGED <<files, truncated, faults>>
    BY <1>1, <1>2, <2>1 DEF IsFileOf
  <2>2. CASE /\ Fault
             /\ files' = [files EXCEPT ![fileId[c]] = PartOf(c, Nth(c))]
             /\ truncated' = truncated \cup {fileId[c]}
    <3>1. PartOf(c, Nth(c)) \in Content
      BY <1>2 DEF PartOf, Content
    <3>2. faults' \in 0..MaxFaults
      BY <1>1, <2>2 DEF Fault
    <3>3. /\ files' \in Seq(Content) /\ Len(files') = n /\ DOMAIN files' = 1..n
          /\ \A f \in 1..n : f # fileId[c] => files'[f] = files[f]
          /\ files'[fileId[c]] = PartOf(c, Nth(c))
      BY <1>1, <1>2, <2>2, <3>1
    <3> QED
      BY <1>1, <1>2, <2>2, <3>2, <3>3 DEF PartOf
  <2> QED
    BY <2>1, <2>2 DEF CloseFile
<1>4. /\ fileInfo' \in [Call -> Seq(1..n)]
      /\ Len(fileInfo'[c]) = Nth(c)
      /\ fileInfo'[c][Nth(c)] = fileId[c]
      /\ \A k \in 1..Len(fileInfo[c]) : fileInfo'[c][k] = fileInfo[c][k]
  BY <1>1, <1>2
<1>5. FileTypeOK'
  BY <1>1, <1>2, <1>3, <1>4 DEF FileTypeOK
<1>6. FilesGrow
  BY <1>1, <1>2, <1>3 DEF FilesGrow, IsFileOf
<1>7. ASSUME NEW d \in Call
      PROVE  PutInv(d)'
  <2>1. PutInv(d) /\ Len(fileInfo[d]) \in Nat
    BY <1>1, <1>2
  <2>2. CASE d # c
    <3>1. put'[d] = put[d] /\ fileInfo'[d] = fileInfo[d] /\ Nth(d)' = Nth(d)
      BY <1>1, <1>2, <2>2 DEF Nth
    <3>2. \A f, k : IsFileOf(f, d, k) => f # fileId[c]
      BY <1>2, <2>2 DEF IsFileOf
    <3>3. \A f, k : IsFileOf(f, d, k) =>
            files'[f] = files[f] /\ f \in DOMAIN files /\ f \in DOMAIN files'
      BY <1>1, <1>3, <3>2 DEF IsFileOf
    <3>4. \A k \in 1..Len(fileInfo[d]) :
            /\ IsFileOf(fileInfo[d][k], d, k)
            /\ fileInfo[d][k] \in truncated' \/ files'[fileInfo[d][k]].whole
      BY <1>3, <2>1, <3>3 DEF PutInv
    <3>5. put[d] \in {"write", "close"} => files'[fileId[d]] = files[fileId[d]]
      BY <2>1, <3>3 DEF PutInv
    <3>6. put'[d] \in {"write", "close"} => IsFileOf(fileId[d], d, Nth(d))'
      BY <1>2, <2>1, <3>1, <3>3 DEF PutInv, IsFileOf
    <3>7. put'[d] = "close" => files'[fileId'[d]].whole
      BY <1>2, <2>1, <3>1, <3>5 DEF PutInv
    <3>8. \A k \in 1..Len(fileInfo'[d]) :
            /\ IsFileOf(fileInfo[d][k], d, k)'
            /\ fileInfo'[d][k] \in truncated' \/ files'[fileInfo'[d][k]].whole
      BY <3>1, <3>3, <3>4 DEF IsFileOf
    <3> QED
      BY <2>1, <3>1, <3>6, <3>7, <3>8 DEF PutInv
  <2>3. CASE d = c
    <3>1. put'[c] = end /\ end \in {"ok", "open"}
      BY <1>1, <1>2
    <3>2. /\ put'[c] = "open" => Len(fileInfo'[c]) < Size[c]
          /\ put'[c] = "ok" => Len(fileInfo'[c]) = Size[c]
      BY <1>2, <1>4, <3>1
    <3>3. ASSUME NEW k \in 1..Len(fileInfo'[c])
          PROVE  /\ IsFileOf(fileInfo[c][k], c, k)'
                 /\ fileInfo'[c][k] \in truncated' \/ files'[fileInfo'[c][k]].whole
      <4>1. CASE k = Nth(c)
        <5>1. fileInfo'[c][k] = fileId[c] /\ fileId[c] \in DOMAIN files'
          BY <1>2, <1>3, <1>4, <4>1
        <5> QED
          BY <1>3, <4>1, <5>1 DEF IsFileOf
      <4>2. CASE k # Nth(c)
        <5>1. k \in 1..Len(fileInfo[c]) /\ k # Nth(c)
          BY <1>2, <1>4, <4>2
        <5>2. /\ IsFileOf(fileInfo[c][k], c, k)
              /\ fileInfo[c][k] \in truncated \/ files[fileInfo[c][k]].whole
          BY <1>2, <5>1 DEF PutInv
        <5>3. fileInfo[c][k] # fileId[c]
          BY <1>2, <5>1, <5>2 DEF IsFileOf
        <5>4. files'[fileInfo[c][k]] = files[fileInfo[c][k]]
          BY <1>1, <1>3, <5>2, <5>3 DEF IsFileOf
        <5>5. fileInfo'[c][k] = fileInfo[c][k] /\ fileInfo[c][k] \in DOMAIN files'
          BY <1>1, <1>3, <1>4, <5>1, <5>2 DEF IsFileOf
        <5> QED
          BY <1>3, <5>2, <5>4, <5>5 DEF IsFileOf
      <4> QED
        BY <4>1, <4>2
    <3>4. put'[c] \notin {"new", "write", "close"} /\ put'[c] # "new"
      BY <3>1
    <3> QED
      BY <2>3, <3>1, <3>2, <3>3, <3>4 DEF PutInv
  <2> QED
    BY <2>2, <2>3
<1> QED
  BY <1>5, <1>6, <1>7 DEF FilesInv

LEMMA FileDeathKeeps ==
  ASSUME FilesInv, FileServiceDies
  PROVE  FilesInv' /\ FilesGrow
<1> USE FileAssumption
<1> DEFINE n == Len(files)
           Lost(f) == \E c \in Call : put[c] = "close" /\ fileId[c] = f
<1>1. /\ files \in Seq(Content) /\ n \in Nat /\ DOMAIN files = 1..n
      /\ fileInfo \in [Call -> Seq(1..n)] /\ fileId \in [Call -> 0..n]
      /\ put \in [Call -> {"new", "open", "write", "close", "ok", "failed"}]
      /\ truncated \subseteq 1..n /\ faults \in 0..MaxFaults
      /\ \A c \in Call : PutInv(c)
  BY DEF FilesInv, FileTypeOK
<1>2. /\ faults' \in 0..MaxFaults
      /\ UNCHANGED <<fileId, fileInfo, truncated>>
      /\ put' = [c \in Call |-> IF IsRunning(c) THEN "failed" ELSE put[c]]
      /\ files' = [f \in DOMAIN files |->
                     IF Lost(f) THEN [files[f] EXCEPT !.whole = FALSE] ELSE files[f]]
  <2>1. faults' \in 0..MaxFaults
    BY <1>1 DEF FileServiceDies, Fault
  <2> QED
    BY <2>1 DEF FileServiceDies
<1> HIDE DEF Lost
<1>3. /\ files' \in Seq(Content) /\ Len(files') = n /\ DOMAIN files' = 1..n
      /\ \A f \in 1..n : files'[f].call = files[f].call /\ files'[f].nth = files[f].nth
      /\ \A f \in 1..n : ~Lost(f) => files'[f] = files[f]
  <2>1. \A f \in 1..n : files[f] \in Content
    BY <1>1
  <2>2. \A f \in 1..n : /\ files'[f] \in Content
                        /\ files'[f].call = files[f].call /\ files'[f].nth = files[f].nth
                        /\ ~Lost(f) => files'[f] = files[f]
    BY <1>1, <1>2, <2>1 DEF Content
  <2>3. files' \in [1..n -> Content]
    BY <1>1, <1>2, <2>2
  <2> QED
    BY <1>1, <2>2, <2>3
<1>4. FileTypeOK'
  BY <1>1, <1>2, <1>3 DEF FileTypeOK
<1>5. FilesGrow
  BY <1>1, <1>3 DEF FilesGrow
<1>6. ASSUME NEW c \in Call
      PROVE  PutInv(c)'
  <2>1. \A f, k : IsFileOf(f, c, k) => IsFileOf(f, c, k)'
    BY <1>1, <1>3 DEF IsFileOf
  <2>2. /\ put'[c] \in {"new", "ok", "failed"} /\ (put'[c] # "failed" => put'[c] = put[c])
        /\ fileInfo'[c] = fileInfo[c] /\ truncated' = truncated
    BY <1>1, <1>2 DEF IsRunning
  <2>3. ASSUME NEW k \in 1..Len(fileInfo[c]), Lost(fileInfo[c][k])
        PROVE  FALSE
    <3>1. PICK d \in Call : put[d] = "close" /\ fileId[d] = fileInfo[c][k]
      BY <2>3 DEF Lost
    <3>2. IsFileOf(fileId[d], d, Nth(d)) /\ IsFileOf(fileInfo[c][k], c, k)
      BY <1>1, <3>1 DEF PutInv
    <3>3. d = c /\ Nth(c) = k
      BY <3>1, <3>2 DEF IsFileOf
    <3> QED
      BY <1>1, <3>3 DEF Nth
  <2>4. \A k \in 1..Len(fileInfo[c]) :
          /\ IsFileOf(fileInfo[c][k], c, k)'
          /\ fileInfo[c][k] \in truncated \/ files'[fileInfo[c][k]].whole
    <3> SUFFICES ASSUME NEW k \in 1..Len(fileInfo[c])
                 PROVE  /\ IsFileOf(fileInfo[c][k], c, k)'
                        /\ fileInfo[c][k] \in truncated \/ files'[fileInfo[c][k]].whole
      OBVIOUS
    <3>1. /\ IsFileOf(fileInfo[c][k], c, k)
          /\ fileInfo[c][k] \in truncated \/ files[fileInfo[c][k]].whole
      BY <1>1 DEF PutInv
    <3>2. files'[fileInfo[c][k]] = files[fileInfo[c][k]]
      BY <1>1, <1>3, <2>3, <3>1 DEF IsFileOf
    <3> QED
      BY <1>1, <1>3, <2>2, <3>1, <3>2 DEF IsFileOf
  <2> QED
    BY <1>1, <2>2, <2>4 DEF PutInv
<1> QED
  BY <1>4, <1>5, <1>6 DEF FilesInv

LEMMA FileStep ==
  ASSUME FilesInv, FileNext
  PROVE  FilesInv' /\ FilesGrow
BY OpenFileKeeps, WriteFileKeeps, CloseFileKeeps, FileDeathKeeps DEF FileNext

-----------------------------------------------------------------------------
(* What is stored. *)

LEMMA OwnersStay ==
  ASSUME FilesGrow
  PROVE  /\ \A f, m : IsOfMessage(f, m) => IsOfMessage(f, m)'
         /\ \A f, u : IsAvatarOf(f, u) => IsAvatarOf(f, u)'
BY DEF FilesGrow, IsOfMessage, IsAvatarOf, Avatars

LEMMA StoreRests ==
  ASSUME FilesInv, FilesInv', FilesGrow, StoreInv, UNCHANGED storeVars
  PROVE  StoreInv' /\ Now \subseteq Now'
<1>1. 0..Len(files) \subseteq 0..Len(files')
  BY DEF FilesInv, FileTypeOK, FilesGrow
<1>2. /\ rows' \in [Message -> (0..Len(files')) \cup {None}]
      /\ avatar' \in [User -> 0..Len(files')]
  BY <1>1 DEF StoreInv, storeVars
<1>3. \A m \in Message : rows'[m] = None \/ IF m \in FileMessage THEN IsOfMessage(rows[m], m)'
                                                                 ELSE rows'[m] = 0
  BY OwnersStay DEF StoreInv, storeVars
<1>4. \A u \in User : IsAvatarOf(avatar[u], u)'
  BY OwnersStay DEF StoreInv, storeVars
<1> QED
  BY <1>2, <1>3, <1>4 DEF StoreInv, storeVars, Now, Stored

LEMMA FirstOfPut ==
  ASSUME FilesInv, NEW c \in Call, put[c] = "ok", Size[c] = 1
  PROVE  /\ fileInfo[c][1] \in 1..Len(files)
         /\ fileInfo[c][1] \in DOMAIN files
         /\ files[fileInfo[c][1]].call = c
<1>1. PutInv(c)
  BY DEF FilesInv
<1>2. Len(fileInfo[c]) = 1 /\ 1 \in 1..1
  BY <1>1 DEF PutInv
<1>3. IsFileOf(fileInfo[c][1], c, 1)
  BY <1>1, <1>2 DEF PutInv
<1> QED
  BY <1>3 DEF FilesInv, FileTypeOK, IsFileOf

LEMMA FilesHaveIds ==
  ASSUME FilesInv
  PROVE  0 \notin DOMAIN files /\ DOMAIN files = 1..Len(files)
BY DEF FilesInv, FileTypeOK

LEMMA AppendDataKeeps ==
  ASSUME FilesInv, StoreInv, NEW m \in Message, AppendData(m)
  PROVE  StoreInv' /\ Now \subseteq Now'
BY DEF AppendData, StoreInv, fileVars, IsOfMessage, IsAvatarOf, Avatars, Now, Stored

LEMMA InsertKeeps ==
  ASSUME FilesInv, StoreInv, NEW m \in Message, Insert(m)
  PROVE  StoreInv' /\ Now \subseteq Now'
<1> USE QueryAssumption
<1> DEFINE f == rows'[m]
<1>1. f \in 0..Len(files) /\ IF m \in FileMessage THEN IsOfMessage(f, m) ELSE f = 0
  <2>1. CASE m \in index /\ rows' = [rows EXCEPT ![m] = 0]
    BY <2>1 DEF StoreInv, FilesInv, FileTypeOK
  <2>2. CASE m \in FileMessage /\ put[m] = "ok" /\ rows' = [rows EXCEPT ![m] = fileInfo[m][1]]
    <3>1. m \in Call /\ Size[m] = 1
      BY <2>2 DEF FileMessage
    <3>2. /\ fileInfo[m][1] \in 1..Len(files) /\ fileInfo[m][1] \in DOMAIN files
          /\ files[fileInfo[m][1]].call = m
      BY <2>2, <3>1, FirstOfPut
    <3>3. rows'[m] = fileInfo[m][1]
      BY <2>2 DEF StoreInv
    <3> QED
      BY <2>2, <3>2, <3>3 DEF IsOfMessage
  <2> QED
    BY <2>1, <2>2 DEF Insert
<1>2. rows' = [rows EXCEPT ![m] = f] /\ rows[m] = None
  BY DEF Insert, StoreInv
<1>3. UNCHANGED <<files, index, avatar, updated>>
  BY DEF Insert, fileVars
<1> HIDE DEF f
<1>4. \A p \in Message : p # m => rows'[p] = rows[p]
  BY <1>2 DEF StoreInv
<1>5. rows'[m] = f
  BY <1>2 DEF StoreInv
<1>6. rows' \in [Message -> (0..Len(files')) \cup {None}]
  BY <1>1, <1>2, <1>3 DEF StoreInv
<1>7. \A p \in Message : rows'[p] = None \/ IF p \in FileMessage THEN IsOfMessage(rows[p], p)'
                                                                 ELSE rows'[p] = 0
  BY <1>1, <1>3, <1>4, <1>5 DEF StoreInv, IsOfMessage
<1>8. StoreInv'
  BY <1>3, <1>6, <1>7 DEF StoreInv, IsAvatarOf
<1>9. f # None
  BY <1>1 DEF FilesInv, FileTypeOK
<1> QED
  BY <1>2, <1>3, <1>4, <1>5, <1>8, <1>9 DEF Now, Stored

LEMMA SetUserAvatarKeeps ==
  ASSUME FilesInv, StoreInv, NEW c \in DOMAIN AvatarOf, SetUserAvatar(c)
  PROVE  StoreInv' /\ Now \subseteq Now'
<1> USE QueryAssumption
<1> DEFINE f == fileInfo[c][1]
           v == AvatarOf[c]
<1>1. c \in Call /\ Size[c] = 1 /\ v \in User /\ put[c] = "ok"
  BY DEF SetUserAvatar
<1>2. f \in 1..Len(files) /\ f \in DOMAIN files /\ files[f].call = c
  BY <1>1, FirstOfPut
<1>3. /\ avatar' = [avatar EXCEPT ![v] = f] /\ updated' = updated \cup {c}
      /\ UNCHANGED <<files, index, rows>>
  BY DEF SetUserAvatar, fileVars
<1>4. c \in Avatars(v)
  BY DEF Avatars
<1> HIDE DEF f, v
<1>5. avatar' \in [User -> 0..Len(files')]
  BY <1>1, <1>2, <1>3 DEF StoreInv, FilesInv, FileTypeOK
<1>6. avatar'[v] = f /\ \A u \in User : u # v => avatar'[u] = avatar[u]
  BY <1>1, <1>3 DEF StoreInv
<1>7. \A u \in User : IsAvatarOf(avatar[u], u)'
  BY <1>1, <1>2, <1>3, <1>4, <1>6 DEF StoreInv, IsAvatarOf, Avatars
<1>8. StoreInv'
  BY <1>3, <1>5, <1>7 DEF StoreInv, IsOfMessage
<1> QED
  BY <1>2, <1>3, <1>6, <1>8 DEF Now, Stored

-----------------------------------------------------------------------------
(* A handler that does nothing, while files and messages are stored.       *)

Untouched(q) ==
  /\ step'[q] = step[q] /\ want'[q] = want[q] /\ msgLists'[q] = msgLists[q]
  /\ fileData'[q] = fileData[q] /\ avatarIds'[q] = avatarIds[q]
  /\ userLists'[q] = userLists[q] /\ answer'[q] = answer[q] /\ outcome'[q] = outcome[q]
  /\ unread'[q] = unread[q] /\ before'[q] = before[q]

LEMMA HandlerRests ==
  ASSUME NEW q \in Handler, HandlerInv(q), Untouched(q), FilesGrow, Now \subseteq Now'
  PROVE  HandlerInv(q)'
<1>1. StepInv(q)'
  BY DEF HandlerInv, Untouched, StepInv
<1>2. HeldInv(q)'
  <2> SUFFICES ASSUME step[q] \in Holding, NEW k \in DOMAIN msgLists[q]
               PROVE  /\ ItemInv(want[q], msgLists[q][k])'
                      /\ step[q] # "files" => HasFile(q, msgLists[q][k])'
                      /\ step[q] = "avatars" => HasAvatarId(q, msgLists[q][k])'
                      /\ step[q] \in {"respond", "groups", "chat", "recent"} =>
                           HasAvatar(q, msgLists[q][k])'
    BY DEF HeldInv, Untouched
  <2>1. /\ ItemInv(want[q], msgLists[q][k])
        /\ step[q] # "files" => HasFile(q, msgLists[q][k])
        /\ step[q] = "avatars" => HasAvatarId(q, msgLists[q][k])
        /\ step[q] \in {"respond", "groups", "chat", "recent"} => HasAvatar(q, msgLists[q][k])
    BY DEF HandlerInv, HeldInv
  <2>2. msgLists'[q] = msgLists[q] /\ want'[q] = want[q]
    BY DEF Untouched
  <2>3. ItemInv(want[q], msgLists[q][k])'
    BY <2>1, <2>2, OwnersStay DEF ItemInv, OfMessages
  <2>4. step[q] # "files" => HasFile(q, msgLists[q][k])'
    BY <2>1, <2>2 DEF HasFile, Untouched
  <2>5. step[q] = "avatars" => HasAvatarId(q, msgLists[q][k])'
    BY <2>1, <2>2, OwnersStay DEF HasAvatarId, Untouched
  <2>6. step[q] \in {"respond", "groups", "chat", "recent"} => HasAvatar(q, msgLists[q][k])'
    BY <2>1, <2>2 DEF HasAvatar, Untouched
  <2> QED
    BY <2>3, <2>4, <2>5, <2>6
<1>3. AnswerInv(q)'
  BY DEF HandlerInv, AnswerInv, Untouched
<1>4. CompleteInv(q)'
  BY DEF HandlerInv, CompleteInv, Untouched
<1> QED
  BY <1>1, <1>2, <1>3, <1>4 DEF HandlerInv

-----------------------------------------------------------------------------
(* What a query finds. *)

LEMMA SetToSeqIs ==
  ASSUME NEW S, IsFiniteSet(S)
  PROVE  /\ Cardinality(S) \in Nat
         /\ SetToSeq(S) \in [1..Cardinality(S) -> S]
         /\ \A x \in S : \E k \in 1..Cardinality(S) : SetToSeq(S)[k] = x
<1> DEFINE n == Cardinality(S)
<1>1. n \in Nat /\ ExistsBijection(1..n, S)
  BY FS_CardinalityType
<1>2. \E f \in [1..n -> S] : IsInjective(f)
  BY <1>1 DEF ExistsBijection, Bijection, Injection
<1>3. SetToSeq(S) \in [1..n -> S] /\ IsInjective(SetToSeq(S))
  BY <1>2 DEF SetToSeq
<1>4. SetToSeq(S) \in Injection(1..n, S)
  BY <1>3 DEF Injection
<1>5. Cardinality(1..n) = n
  BY <1>1, FS_Interval
<1>6. SetToSeq(S) \in Surjection(1..n, S)
  BY <1>4, <1>5, FS_Injection
<1> QED
  BY <1>1, <1>3, <1>6 DEF Surjection

LEMMA RowsAre ==
  ASSUME StoreInv, FilesInv, NEW S \in SUBSET Stored
  PROVE  LET list == Each(Row, S) IN
         /\ list \in Seq(Item)
         /\ \A k \in DOMAIN list : \E m \in S : list[k] = Row(m)
         /\ \A m \in S : \E k \in DOMAIN list : list[k] = Row(m)
<1> DEFINE n == Cardinality(S)
           s == SetToSeq(S)
           list == Each(Row, S)
<1>1. IsFiniteSet(S)
  BY QueryAssumption, FS_Subset DEF Stored
<1>2. n \in Nat /\ s \in [1..n -> S] /\ \A x \in S : \E k \in 1..n : s[k] = x
  BY <1>1, SetToSeqIs
<1>3. \A m \in S : Row(m) \in Item
  BY QueryAssumption DEF Row, Item, Stored, StoreInv, FilesInv, FileTypeOK
<1>4. list = [k \in DOMAIN s |-> Row(s[k])]
  BY DEF Each
<1> HIDE DEF n, s, list
<1>5. DOMAIN list = 1..n /\ \A k \in 1..n : list[k] = Row(s[k])
  BY <1>2, <1>4
<1>6. list \in Seq(Item)
  BY <1>2, <1>3, <1>4
<1> QED
  BY <1>2, <1>5, <1>6 DEF list

LEMMA DocumentsAre ==
  ASSUME NEW S \in SUBSET Message
  PROVE  LET list == Each(Document, S) IN
         /\ list \in Seq(Item)
         /\ \A k \in DOMAIN list : \E m \in S : list[k] = Document(m)
<1> DEFINE n == Cardinality(S)
           s == SetToSeq(S)
           list == Each(Document, S)
<1>1. IsFiniteSet(S)
  BY QueryAssumption, FS_Subset
<1>2. n \in Nat /\ s \in [1..n -> S] /\ \A x \in S : \E k \in 1..n : s[k] = x
  BY <1>1, SetToSeqIs
<1>3. \A m \in S : Document(m) \in Item
  BY QueryAssumption DEF Document, Item
<1>4. list = [k \in DOMAIN s |-> Document(s[k])]
  BY DEF Each
<1> HIDE DEF n, s, list
<1>5. DOMAIN list = 1..n /\ \A k \in 1..n : list[k] = Document(s[k])
  BY <1>2, <1>4
<1>6. list \in Seq(Item)
  BY <1>2, <1>3, <1>4
<1> QED
  BY <1>2, <1>5, <1>6 DEF list

LEMMA SinglesAre ==
  LET list == Each(Single, DOMAIN FriendOf) IN
  /\ list \in Seq(Item)
  /\ \A k \in DOMAIN list : \E c \in DOMAIN FriendOf : list[k] = Single(c)
  /\ \A c \in DOMAIN FriendOf : \E k \in DOMAIN list : list[k] = Single(c)
<1> DEFINE n == Cardinality(DOMAIN FriendOf)
           s == SetToSeq(DOMAIN FriendOf)
           list == Each(Single, DOMAIN FriendOf)
<1>1. IsFiniteSet(DOMAIN FriendOf)
  BY QueryAssumption, FS_Subset
<1>2. /\ n \in Nat /\ s \in [1..n -> DOMAIN FriendOf]
      /\ \A x \in DOMAIN FriendOf : \E k \in 1..n : s[k] = x
  BY <1>1, SetToSeqIs
<1>3. \A c \in DOMAIN FriendOf : Single(c) \in Item
  BY QueryAssumption DEF Single, Item
<1>4. list = [k \in DOMAIN s |-> Single(s[k])]
  BY DEF Each
<1> HIDE DEF n, s, list
<1>5. DOMAIN list = 1..n /\ \A k \in 1..n : list[k] = Single(s[k])
  BY <1>2, <1>4
<1>6. list \in Seq(Item)
  BY <1>2, <1>3, <1>4
<1> QED
  BY <1>2, <1>5, <1>6 DEF list

LEMMA GroupsAre ==
  ASSUME NEW S \in SUBSET Chat
  PROVE  LET list == Each(Group, S) IN
         /\ list \in Seq(Item)
         /\ \A k \in DOMAIN list : \E c \in S : list[k] = Group(c)
         /\ \A c \in S : \E k \in DOMAIN list : list[k] = Group(c)
<1> DEFINE n == Cardinality(S)
           s == SetToSeq(S)
           list == Each(Group, S)
<1>1. IsFiniteSet(S)
  BY QueryAssumption, FS_Subset
<1>2. n \in Nat /\ s \in [1..n -> S] /\ \A x \in S : \E k \in 1..n : s[k] = x
  BY <1>1, SetToSeqIs
<1>3. \A c \in S : Group(c) \in Item
  BY QueryAssumption DEF Group, Item
<1>4. list = [k \in DOMAIN s |-> Group(s[k])]
  BY DEF Each
<1> HIDE DEF n, s, list
<1>5. DOMAIN list = 1..n /\ \A k \in 1..n : list[k] = Group(s[k])
  BY <1>2, <1>4
<1>6. list \in Seq(Item)
  BY <1>2, <1>3, <1>4
<1> QED
  BY <1>2, <1>5, <1>6 DEF list

LEMMA PeopleAre ==
  ASSUME NEW S \in SUBSET User
  PROVE  LET list == Each(Person, S) IN
         /\ list \in Seq(Item)
         /\ \A k \in DOMAIN list : \E u \in S : list[k] = Person(u)
         /\ \A u \in S : \E k \in DOMAIN list : list[k] = Person(u)
<1> DEFINE n == Cardinality(S)
           s == SetToSeq(S)
           list == Each(Person, S)
<1>1. IsFiniteSet(S)
  BY QueryAssumption, FS_Subset
<1>2. n \in Nat /\ s \in [1..n -> S] /\ \A x \in S : \E k \in 1..n : s[k] = x
  BY <1>1, SetToSeqIs
<1>3. \A u \in S : Person(u) \in Item
  BY QueryAssumption DEF Person, Item
<1>4. list = [k \in DOMAIN s |-> Person(s[k])]
  BY DEF Each
<1> HIDE DEF n, s, list
<1>5. DOMAIN list = 1..n /\ \A k \in 1..n : list[k] = Person(s[k])
  BY <1>2, <1>4
<1>6. list \in Seq(Item)
  BY <1>2, <1>3, <1>4
<1> QED
  BY <1>2, <1>5, <1>6 DEF list

(* Recent misses a newer message only when it has its full number.         *)
LEMMA RecentIs ==
  ASSUME NEW c \in Chat, NEW count \in Nat, NEW w, w.chat = c, w.count = count,
         NEW s \in Recent(w)
  PROVE  /\ DOMAIN s = 1..Len(s) /\ Len(s) \in Nat
         /\ \A k \in DOMAIN s : s[k] \in InChat(c)
         /\ \A j, k \in DOMAIN s : j < k => Time[s[j]] <= Time[s[k]]
         /\ \A m \in InChat(c) : (\A k \in DOMAIN s : s[k] # m) =>
              /\ Len(s) = count
              /\ \A k \in DOMAIN s : Time[m] <= Time[s[k]]
<1> USE QueryAssumption
<1> DEFINE S == InChat(c)
           n == IF Cardinality(S) < count THEN Cardinality(S) ELSE count
<1>1. IsFiniteSet(S) /\ Cardinality(S) \in Nat
  BY FS_Subset, FS_CardinalityType DEF InChat, Stored
<1>2. n \in Nat
  BY <1>1
<1>3. /\ s \in [1..n -> S]
      /\ \A j, k \in 1..n : j < k => s[j] # s[k] /\ Time[s[j]] <= Time[s[k]]
      /\ \A m \in S, k \in 1..n : m \notin {s[j] : j \in 1..n} => Time[m] <= Time[s[k]]
  BY DEF Recent
<1> HIDE DEF S, n
<1>4. DOMAIN s = 1..n /\ Len(s) = n
  BY <1>2, <1>3
<1>5. ASSUME NEW m \in S, \A k \in 1..n : s[k] # m
      PROVE  n = count
  <2>1. SUFFICES ASSUME n # count
                 PROVE  FALSE
    OBVIOUS
  <2>2. n = Cardinality(S)
    BY <2>1 DEF n
  <2>3. s \in Injection(1..n, S)
    BY <1>2, <1>3 DEF Injection, IsInjective
  <2>4. Cardinality(1..n) = n
    BY <1>2, FS_Interval
  <2>5. s \in Surjection(1..n, S)
    BY <1>1, <2>2, <2>3, <2>4, FS_Injection
  <2> QED
    BY <1>5, <2>5 DEF Surjection
<1>6. \A m \in S : (\A k \in 1..n : s[k] # m) => \A k \in 1..n : Time[m] <= Time[s[k]]
  BY <1>3
<1> QED
  BY <1>2, <1>3, <1>4, <1>5, <1>6 DEF S

LEMMA WantedIs ==
  ASSUME NEW w \in Wanted
  PROVE  /\ w.kind \in {"history", "recent", "search", "chats", "people", "user"}
         /\ OfMessages(w) => w.chat \in Chat
         /\ w.kind = "recent" => w.count \in Nat
         /\ w.kind \in {"people", "user"} => w.who \subseteq User
BY DEF Wanted, OfMessages

LEMMA StoredBefore ==
  ASSUME NEW had, had \subseteq Now
  PROVE  had \cap Message \subseteq Stored
BY QueryAssumption DEF Now, Stored

LEMMA RowIsItem ==
  ASSUME StoreInv, NEW w \in Wanted, w.kind \in {"history", "recent"}, NEW m \in InChat(w.chat)
  PROVE  ItemInv(w, Row(m))
BY QueryAssumption DEF StoreInv, InChat, Stored, Row, ItemInv, OfMessages

(* What is found has the shape of an entry, names no file but that of its  *)
(* message, and leaves nothing out that was there before.                  *)
LEMMA FoundIs ==
  ASSUME FilesInv, StoreInv, NEW w \in Wanted, NEW had, had \subseteq Now,
         NEW list \in Found(w)
  PROVE  /\ list \in Seq(Item)
         /\ \A k \in DOMAIN list : ItemInv(w, list[k])
         /\ Complete(w, had, list, DOMAIN FriendOf)
<1>1. CASE w.kind = "history"
  <2> DEFINE S == InRange(w)
  <2>1. list = Each(Row, S)
    BY <1>1 DEF Found
  <2>2. S \in SUBSET Stored /\ S \subseteq InChat(w.chat)
    BY DEF InRange, InChat
  <2>3. /\ list \in Seq(Item)
        /\ \A k \in DOMAIN list : \E m \in S : list[k] = Row(m)
        /\ \A m \in S : \E k \in DOMAIN list : list[k] = Row(m)
    BY <2>1, <2>2, RowsAre
  <2>4. \A k \in DOMAIN list : ItemInv(w, list[k])
    BY <1>1, <2>2, <2>3, RowIsItem
  <2>5. ASSUME NEW m \in had \cap Message, ChatOf[m] = w.chat, w.from <= Time[m], Time[m] <= w.to
        PROVE  \E k \in DOMAIN list : list[k].msg = m
    <3>1. m \in S
      BY <2>5, StoredBefore DEF InRange, InChat
    <3> QED
      BY <2>3, <3>1 DEF Row
  <2> QED
    BY <1>1, <2>3, <2>4, <2>5 DEF Complete
<1>2. CASE w.kind = "recent"
  <2>1. PICK s \in Recent(w) : list = [k \in DOMAIN s |-> Row(s[k])]
    BY <1>2 DEF Found
  <2>2. w.chat \in Chat /\ w.count \in Nat
    BY <1>2, WantedIs DEF OfMessages
  <2>3. /\ DOMAIN s = 1..Len(s) /\ Len(s) \in Nat
        /\ \A k \in DOMAIN s : s[k] \in InChat(w.chat)
        /\ \A j, k \in DOMAIN s : j < k => Time[s[j]] <= Time[s[k]]
        /\ \A m \in InChat(w.chat) : (\A k \in DOMAIN s : s[k] # m) =>
             /\ Len(s) = w.count
             /\ \A k \in DOMAIN s : Time[m] <= Time[s[k]]
    BY <2>2, RecentIs
  <2>4. \A m \in InChat(w.chat) : Row(m) \in Item /\ Row(m).msg = m
    BY QueryAssumption DEF Row, Item, InChat, Stored, StoreInv, FilesInv, FileTypeOK
  <2>5. DOMAIN list = DOMAIN s /\ \A k \in DOMAIN s : list[k] = Row(s[k]) /\ list[k].msg = s[k]
    BY <2>1, <2>3, <2>4
  <2>6. list \in Seq(Item) /\ Len(list) = Len(s)
    <3>1. list \in [1..Len(s) -> Item]
      BY <2>1, <2>3, <2>4
    <3> QED
      BY <2>3, <3>1
  <2>7. \A k \in DOMAIN list : ItemInv(w, list[k])
    BY <1>2, <2>3, <2>5, RowIsItem
  <2>8. \A j, k \in DOMAIN list : j < k => Time[list[j].msg] <= Time[list[k].msg]
    BY <2>3, <2>5
  <2>9. ASSUME NEW m \in had \cap Message, ChatOf[m] = w.chat,
               \A k \in DOMAIN list : list[k].msg # m
        PROVE  Len(list) = w.count /\ \A k \in DOMAIN list : Time[m] <= Time[list[k].msg]
    <3>1. m \in InChat(w.chat)
      BY <2>9, StoredBefore DEF InChat
    <3> QED
      BY <2>3, <2>5, <2>6, <2>9, <3>1
  <2>10. Complete(w, had, list, DOMAIN FriendOf)
    BY <1>2, <2>8, <2>9 DEF Complete
  <2> QED
    BY <2>6, <2>7, <2>10
<1>3. CASE w.kind = "search"
  <2>1. PICK S \in SUBSET {m \in index : ChatOf[m] = w.chat} : list = Each(Document, S)
    BY <1>3 DEF Found
  <2>2. S \in SUBSET Message
    BY DEF StoreInv
  <2>3. /\ list \in Seq(Item)
        /\ \A k \in DOMAIN list : \E m \in S : list[k] = Document(m)
    BY <2>1, <2>2, DocumentsAre
  <2>4. \A m \in S : ItemInv(w, Document(m))
    BY <1>3, <2>1 DEF StoreInv, Document, ItemInv, OfMessages
  <2> QED
    BY <1>3, <2>3, <2>4 DEF Complete
<1>4. CASE w.kind = "chats"
  <2>1. list = Each(Single, DOMAIN FriendOf)
    BY <1>4 DEF Found
  <2>2. /\ list \in Seq(Item)
        /\ \A k \in DOMAIN list : \E c \in DOMAIN FriendOf : list[k] = Single(c)
        /\ \A c \in DOMAIN FriendOf : \E k \in DOMAIN list : list[k] = Single(c)
    BY <2>1, SinglesAre
  <2>3. \A c \in DOMAIN FriendOf : ItemInv(w, Single(c)) /\ Single(c).chat = c
    BY <1>4, QueryAssumption DEF Single, ItemInv, OfMessages, FileMessage
  <2>4. {list[k].chat : k \in DOMAIN list} = DOMAIN FriendOf
    <3>1. \A k \in DOMAIN list : list[k].chat \in DOMAIN FriendOf
      BY <2>2, <2>3
    <3>2. \A c \in DOMAIN FriendOf : \E k \in DOMAIN list : list[k].chat = c
      BY <2>2, <2>3
    <3> QED
      BY <3>1, <3>2
  <2> QED
    BY <1>4, <2>2, <2>3, <2>4 DEF Complete
<1>5. CASE w.kind \in {"people", "user"}
  <2>1. list = Each(Person, w.who) /\ w.who \in SUBSET User
    BY <1>5, WantedIs DEF Found
  <2>2. /\ list \in Seq(Item)
        /\ \A k \in DOMAIN list : \E u \in w.who : list[k] = Person(u)
        /\ \A u \in w.who : \E k \in DOMAIN list : list[k] = Person(u)
    BY <2>1, PeopleAre
  <2>3. \A u \in w.who : ItemInv(w, Person(u)) /\ Person(u).user = u
    BY <1>5, QueryAssumption DEF Person, ItemInv, OfMessages, FileMessage
  <2>4. {list[k].user : k \in DOMAIN list} = w.who
    BY <2>2, <2>3
  <2> QED
    BY <1>5, <2>2, <2>3, <2>4 DEF Complete
<1> QED
  BY <1>1, <1>2, <1>3, <1>4, <1>5, WantedIs

-----------------------------------------------------------------------------
(* The steps of a handler. *)

OthersRest(q) == \A p \in Handler : p # q => Untouched(p)

LEMMA SameStore ==
  ASSUME UNCHANGED <<fileVars, storeVars>>
  PROVE  /\ Now' = Now
         /\ \A w, e : ItemInv(w, e) => ItemInv(w, e)'
         /\ \A f, u : IsAvatarOf(f, u) => IsAvatarOf(f, u)'
BY DEF fileVars, storeVars, Now, Stored, ItemInv, IsOfMessage, OfMessages, IsAvatarOf, Avatars

LEMMA EmptyAnswer ==
  ASSUME NEW q \in Handler, answer[q] = <<>>
  PROVE  AnswerInv(q)
BY DEF AnswerInv, IsSequence

(* The list that is read decides what the answer shows. *)
LEMMA FindKeeps ==
  ASSUME FilesInv, StoreInv, QueryTypeOK, NEW q \in Handler, HandlerInv(q), Find(q)
  PROVE  QueryTypeOK' /\ HandlerInv(q)' /\ OthersRest(q)
<1> DEFINE w == want[q]
<1>1. /\ step[q] = "find" /\ w \in Wanted /\ before[q] \subseteq Now
      /\ answer[q] = <<>> /\ outcome[q] = "none" /\ unread[q] \in BOOLEAN
  BY DEF Find, HandlerInv, StepInv, QueryTypeOK
<1>2. PICK s \in Found(w) \cup {<<>>} :
        /\ \/ s \in Found(w) /\ UNCHANGED <<faults, unread>>
           \/ /\ s = <<>> /\ w.kind # "user"
              /\ Fault
              /\ unread' = [unread EXCEPT ![q] = TRUE]
        /\ msgLists' = [msgLists EXCEPT ![q] = s]
        /\ IF OfMessages(w) /\ s = <<>>
           THEN Respond(q, "ok")
           ELSE /\ Goto(q, IF w.kind \in {"history", "recent"} THEN "files" ELSE "users")
                /\ UNCHANGED outcome
  BY DEF Find
<1>3. UNCHANGED <<fileVars, storeVars, want, fileData, avatarIds, userLists, answer, before>>
  BY DEF Find
<1>4. /\ s \in Seq(Item)
      /\ \A k \in DOMAIN s : ItemInv(w, s[k])
      /\ unread'[q] \/ Complete(w, before[q], s, DOMAIN FriendOf)
  <2>1. CASE s \in Found(w)
    BY <1>1, <2>1, FoundIs
  <2>2. CASE s \notin Found(w)
    <3>1. s = <<>> /\ unread' = [unread EXCEPT ![q] = TRUE]
      BY <1>2, <2>2
    <3> QED
      BY <3>1 DEF QueryTypeOK
  <2> QED
    BY <2>1, <2>2
<1>5. /\ unread' \in [Handler -> BOOLEAN]
      /\ msgLists'[q] = s
      /\ \A p \in Handler : p # q => unread'[p] = unread[p] /\ msgLists'[p] = msgLists[p]
  BY <1>2 DEF QueryTypeOK
<1>6. msgLists' \in [Handler -> Seq(Item)]
  BY <1>2, <1>4 DEF QueryTypeOK
<1>7. AnswerInv(q)'
  BY <1>1, <1>3, EmptyAnswer DEF AnswerInv, IsSequence
<1>8. CASE OfMessages(w) /\ s = <<>> /\ Respond(q, "ok")
  <2>1. step' = [step EXCEPT ![q] = "end"] /\ outcome' = [outcome EXCEPT ![q] = "ok"]
    BY <1>8 DEF Respond, Goto
  <2>2. step'[q] = "end" /\ outcome'[q] = "ok"
    BY <2>1 DEF QueryTypeOK
  <2>3. QueryTypeOK'
    BY <1>3, <1>5, <1>6, <2>1 DEF QueryTypeOK
  <2>4. OthersRest(q)
    BY <1>3, <1>5, <2>1 DEF OthersRest, Untouched, QueryTypeOK
  <2>5. StepInv(q)'
    BY <1>1, <1>3, <2>2, SameStore DEF StepInv
  <2>6. HeldInv(q)'
    BY <2>2 DEF HeldInv, Holding
  <2>7. unread'[q] \/ Complete(w, before[q], answer[q], Chat)
    BY <1>1, <1>4, <1>8 DEF Complete, OfMessages
  <2>8. CompleteInv(q)'
    BY <1>3, <2>2, <2>7 DEF CompleteInv, Holding
  <2> QED
    BY <1>7, <2>3, <2>4, <2>5, <2>6, <2>8 DEF HandlerInv
<1>9. CASE /\ Goto(q, IF w.kind \in {"history", "recent"} THEN "files" ELSE "users")
           /\ UNCHANGED outcome
  <2>1. PICK t \in {"files", "users"} :
          /\ step' = [step EXCEPT ![q] = t]
          /\ (t = "files" <=> w.kind \in {"history", "recent"})
    BY <1>9 DEF Goto
  <2>2. step'[q] = t
    BY <2>1 DEF QueryTypeOK
  <2>3. QueryTypeOK'
    BY <1>3, <1>5, <1>6, <1>9, <2>1 DEF QueryTypeOK
  <2>4. OthersRest(q)
    BY <1>3, <1>5, <1>9, <2>1 DEF OthersRest, Untouched, QueryTypeOK
  <2>5. StepInv(q)'
    BY <1>1, <1>3, <1>9, <2>1, <2>2, SameStore DEF StepInv
  <2>6. HeldInv(q)'
    <3> SUFFICES ASSUME NEW k \in DOMAIN s
                 PROVE  ItemInv(w, s[k])' /\ (t = "users" => HasFile(q, s[k])')
      BY <1>3, <1>5, <2>2 DEF HeldInv
    <3>1. ItemInv(w, s[k])
      BY <1>4
    <3>2. w.kind \notin {"history", "recent"} => s[k].msg \notin FileMessage
      BY <3>1 DEF ItemInv
    <3> QED
      BY <1>3, <2>1, <3>1, <3>2, SameStore DEF HasFile
  <2>7. CompleteInv(q)'
    BY <1>1, <1>3, <1>4, <1>5, <1>9, <2>2 DEF CompleteInv
  <2> QED
    BY <1>7, <2>3, <2>4, <2>5, <2>6, <2>7 DEF HandlerInv
<1> QED
  BY <1>2, <1>8, <1>9

LEMMA CallFailsKeeps ==
  ASSUME QueryTypeOK, NEW q \in Handler, HandlerInv(q), CallFails(q),
         step[q] \in {"files", "users", "avatars"},
         UNCHANGED <<fileVars, storeVars, want, unread, before>>
  PROVE  QueryTypeOK' /\ HandlerInv(q)' /\ OthersRest(q)
<1>1. want[q] \in Wanted /\ before[q] \subseteq Now /\ answer[q] = <<>>
  BY DEF HandlerInv, StepInv
<1>2. /\ step' = [step EXCEPT ![q] = "end"] /\ outcome' = [outcome EXCEPT ![q] = "failed"]
      /\ msgLists' = [msgLists EXCEPT ![q] = <<>>] /\ fileData' = [fileData EXCEPT ![q] = <<>>]
      /\ avatarIds' = [avatarIds EXCEPT ![q] = <<>>]
      /\ userLists' = [userLists EXCEPT ![q] = <<>>] /\ answer' = answer
  BY DEF CallFails, Respond, Goto, Forget
<1>3. step'[q] = "end" /\ outcome'[q] = "failed"
  BY <1>2 DEF QueryTypeOK
<1>4. <<>> \in Seq(Item)
  OBVIOUS
<1>5. msgLists' \in [Handler -> Seq(Item)]
  BY <1>2, <1>4 DEF QueryTypeOK
<1>6. QueryTypeOK'
  BY <1>2, <1>5 DEF QueryTypeOK
<1>7. OthersRest(q)
  BY <1>2 DEF OthersRest, Untouched, QueryTypeOK
<1>8. StepInv(q)'
  BY <1>1, <1>3, SameStore DEF StepInv
<1>9. AnswerInv(q)'
  <2>1. answer'[q] = <<>>
    BY <1>1, <1>2
  <2> QED
    BY <2>1 DEF AnswerInv, IsSequence
<1>10. HeldInv(q)' /\ CompleteInv(q)'
  BY <1>3 DEF HeldInv, CompleteInv, Holding
<1> QED
  BY <1>6, <1>7, <1>8, <1>9, <1>10 DEF HandlerInv

LEMMA GetFileKeeps ==
  ASSUME FilesInv, QueryTypeOK, NEW q \in Handler, HandlerInv(q), GetFile(q)
  PROVE  QueryTypeOK' /\ HandlerInv(q)' /\ OthersRest(q)
<1>1. /\ step[q] = "files" /\ want[q] \in Wanted /\ want[q].kind # "chats"
      /\ before[q] \subseteq Now /\ answer[q] = <<>> /\ outcome[q] = "none"
  BY DEF GetFile, HandlerInv, StepInv
<1>2. UNCHANGED <<fileVars, storeVars, want, unread, before>>
  BY DEF GetFile
<1>3. CASE CallFails(q)
  BY <1>1, <1>2, <1>3, CallFailsKeeps
<1>4. CASE /\ CanRead(FilesOf(q))
           /\ fileData' = [fileData EXCEPT ![q] = [f \in FilesOf(q) |-> files[f]]]
           /\ Goto(q, "users")
           /\ UNCHANGED <<faults, msgLists, avatarIds, userLists, answer, outcome>>
  <2>1. step' = [step EXCEPT ![q] = "users"]
    BY <1>4 DEF Goto
  <2>2. step'[q] = "users" /\ fileData'[q] = [f \in FilesOf(q) |-> files[f]]
    BY <1>4, <2>1 DEF QueryTypeOK
  <2>3. QueryTypeOK'
    BY <1>2, <1>4, <2>1 DEF QueryTypeOK
  <2>4. OthersRest(q)
    BY <1>2, <1>4, <2>1 DEF OthersRest, Untouched, QueryTypeOK
  <2>5. StepInv(q)'
    BY <1>1, <1>2, <1>4, <2>2, SameStore DEF StepInv
  <2>6. HeldInv(q)'
    <3> SUFFICES ASSUME NEW k \in DOMAIN msgLists[q]
                 PROVE  ItemInv(want[q], msgLists[q][k])' /\ HasFile(q, msgLists[q][k])'
      BY <1>4, <2>2 DEF HeldInv
    <3>1. ItemInv(want[q], msgLists[q][k])
      BY <1>1 DEF HandlerInv, HeldInv, Holding
    <3>2. msgLists[q][k].file # 0 => msgLists[q][k].file \in FilesOf(q)
      BY DEF FilesOf
    <3>3. ItemInv(want[q], msgLists[q][k])'
      BY <1>2, <1>4, <3>1, SameStore
    <3>4. ASSUME msgLists[q][k].msg \in FileMessage
          PROVE  /\ msgLists[q][k].file \in DOMAIN fileData'[q]
                 /\ fileData'[q][msgLists[q][k].file].call = msgLists[q][k].msg
      <4>1. IsOfMessage(msgLists[q][k].file, msgLists[q][k].msg)
        BY <3>1, <3>4 DEF ItemInv
      <4>2. msgLists[q][k].file # 0
        BY <4>1, FilesHaveIds DEF IsOfMessage
      <4> QED
        BY <2>2, <3>2, <4>1, <4>2 DEF IsOfMessage
    <3> QED
      BY <1>4, <3>3, <3>4 DEF HasFile
  <2>7. AnswerInv(q)'
    <3>1. answer'[q] = <<>>
      BY <1>1, <1>4
    <3> QED
      BY <3>1 DEF AnswerInv, IsSequence
  <2>8. ~unread[q] => Complete(want[q], before[q], msgLists[q], DOMAIN FriendOf)
    BY <1>1 DEF HandlerInv, CompleteInv, Holding
  <2>9. CompleteInv(q)'
    BY <1>1, <1>2, <1>4, <2>2, <2>8 DEF CompleteInv
  <2> QED
    BY <2>3, <2>4, <2>5, <2>6, <2>7, <2>9 DEF HandlerInv
<1> QED
  BY <1>3, <1>4 DEF GetFile

LEMMA SelectUsersKeeps ==
  ASSUME FilesInv, StoreInv, QueryTypeOK, NEW q \in Handler, HandlerInv(q), SelectUsers(q)
  PROVE  QueryTypeOK' /\ HandlerInv(q)' /\ OthersRest(q)
<1>1. /\ step[q] = "users" /\ want[q] \in Wanted
      /\ before[q] \subseteq Now /\ answer[q] = <<>> /\ outcome[q] = "none"
  BY DEF SelectUsers, HandlerInv, StepInv
<1>2. UNCHANGED <<fileVars, storeVars, want, unread, before>>
  BY DEF SelectUsers
<1>3. CASE CallFails(q)
  BY <1>1, <1>2, <1>3, CallFailsKeeps
<1>4. CASE /\ avatarIds' = [avatarIds EXCEPT ![q] = [u \in UsersOf(q) |-> avatar[u]]]
           /\ Goto(q, "avatars")
           /\ UNCHANGED <<faults, msgLists, fileData, userLists, answer, outcome>>
  <2>1. step' = [step EXCEPT ![q] = "avatars"]
    BY <1>4 DEF Goto
  <2>2. step'[q] = "avatars" /\ avatarIds'[q] = [u \in UsersOf(q) |-> avatar[u]]
    BY <1>4, <2>1 DEF QueryTypeOK
  <2>3. QueryTypeOK'
    BY <1>2, <1>4, <2>1 DEF QueryTypeOK
  <2>4. OthersRest(q)
    BY <1>2, <1>4, <2>1 DEF OthersRest, Untouched, QueryTypeOK
  <2>5. StepInv(q)'
    BY <1>1, <1>2, <1>4, <2>2, SameStore DEF StepInv
  <2>6. HeldInv(q)'
    <3> SUFFICES ASSUME NEW k \in DOMAIN msgLists[q]
                 PROVE  /\ ItemInv(want[q], msgLists[q][k])'
                        /\ HasFile(q, msgLists[q][k])' /\ HasAvatarId(q, msgLists[q][k])'
      BY <1>4, <2>2 DEF HeldInv
    <3> DEFINE e == msgLists[q][k]
    <3>1. ItemInv(want[q], e) /\ HasFile(q, e)
      BY <1>1 DEF HandlerInv, HeldInv, Holding
    <3>2. ItemInv(want[q], e)'
      BY <1>2, <1>4, <3>1, SameStore
    <3>3. HasFile(q, e)'
      BY <1>4, <3>1 DEF HasFile
    <3>4. e.user \in User \cup {None}
      <4>1. msgLists[q] \in Seq(Item)
        BY DEF QueryTypeOK
      <4>2. e \in Item
        BY <4>1
      <4> QED
        BY <4>2 DEF Item
    <3>5. e.user # None => e.user \in UsersOf(q)
      BY DEF UsersOf
    <3>6. \A u \in User : avatar[u] = 0 => u \notin before[q]
      BY <1>1, QueryAssumption DEF Now, Stored
    <3>7. \A u \in User : IsAvatarOf(avatar[u], u)'
      BY <1>2, SameStore DEF StoreInv, storeVars
    <3>8. e.user # None => /\ e.user \in DOMAIN avatarIds'[q]
                           /\ avatarIds'[q][e.user] = avatar[e.user]
                           /\ e.user \in User
      BY <2>2, <3>4, <3>5
    <3>9. HasAvatarId(q, e)'
      BY <1>2, <1>4, <3>6, <3>7, <3>8 DEF HasAvatarId, storeVars
    <3> QED
      BY <3>2, <3>3, <3>9
  <2>7. AnswerInv(q)'
    <3>1. answer'[q] = <<>>
      BY <1>1, <1>4
    <3> QED
      BY <3>1 DEF AnswerInv, IsSequence
  <2>8. ~unread[q] => Complete(want[q], before[q], msgLists[q], DOMAIN FriendOf)
    BY <1>1 DEF HandlerInv, CompleteInv, Holding
  <2>9. CompleteInv(q)'
    BY <1>1, <1>2, <1>4, <2>2, <2>8 DEF CompleteInv
  <2> QED
    BY <2>3, <2>4, <2>5, <2>6, <2>7, <2>9 DEF HandlerInv
<1> QED
  BY <1>3, <1>4 DEF SelectUsers

LEMMA GetAvatarsKeeps ==
  ASSUME QueryTypeOK, NEW q \in Handler, HandlerInv(q), GetAvatars(q)
  PROVE  QueryTypeOK' /\ HandlerInv(q)' /\ OthersRest(q)
<1>1. /\ step[q] = "avatars" /\ want[q] \in Wanted
      /\ before[q] \subseteq Now /\ answer[q] = <<>> /\ outcome[q] = "none"
  BY DEF GetAvatars, HandlerInv, StepInv
<1>2. UNCHANGED <<fileVars, storeVars, want, unread, before>>
  BY DEF GetAvatars
<1>3. CASE CallFails(q)
  BY <1>1, <1>2, <1>3, CallFailsKeeps
<1>4. CASE /\ CanRead(AvatarFiles(q))
           /\ userLists' = [userLists EXCEPT ![q] =
                [u \in DOMAIN avatarIds[q] |->
                   IF avatarIds[q][u] = 0 THEN NoContent ELSE files[avatarIds[q][u]]]]
           /\ Goto(q, IF want[q].kind = "chats" THEN "groups" ELSE "respond")
           /\ UNCHANGED <<faults, msgLists, fileData, avatarIds, answer, outcome>>
  <2>1. PICK t \in {"groups", "respond"} :
          step' = [step EXCEPT ![q] = t] /\ (t = "groups" <=> want[q].kind = "chats")
    BY <1>4 DEF Goto
  <2>2. /\ step'[q] = t
        /\ userLists'[q] = [u \in DOMAIN avatarIds[q] |->
             IF avatarIds[q][u] = 0 THEN NoContent ELSE files[avatarIds[q][u]]]
    BY <1>4, <2>1 DEF QueryTypeOK
  <2>3. QueryTypeOK'
    BY <1>2, <1>4, <2>1 DEF QueryTypeOK
  <2>4. OthersRest(q)
    BY <1>2, <1>4, <2>1 DEF OthersRest, Untouched, QueryTypeOK
  <2>5. StepInv(q)'
    BY <1>1, <1>2, <1>4, <2>1, <2>2, SameStore DEF StepInv
  <2>6. HeldInv(q)'
    <3> SUFFICES ASSUME NEW k \in DOMAIN msgLists[q]
                 PROVE  /\ ItemInv(want[q], msgLists[q][k])'
                        /\ HasFile(q, msgLists[q][k])' /\ HasAvatar(q, msgLists[q][k])'
      BY <1>4, <2>1, <2>2 DEF HeldInv
    <3> DEFINE e == msgLists[q][k]
               a == avatarIds[q][e.user]
    <3>1. ItemInv(want[q], e) /\ HasFile(q, e) /\ HasAvatarId(q, e)
      BY <1>1 DEF HandlerInv, HeldInv, Holding
    <3>2. ItemInv(want[q], e)'
      BY <1>2, <1>4, <3>1, SameStore
    <3>3. HasFile(q, e)'
      BY <1>4, <3>1 DEF HasFile
    <3>4. ASSUME e.user # None
          PROVE  /\ e.user \in DOMAIN userLists'[q]
                 /\ \/ userLists'[q][e.user].call \in Avatars(e.user)
                    \/ userLists'[q][e.user].call = None /\ e.user \notin before[q]
      <4>1. /\ e.user \in DOMAIN avatarIds[q] /\ IsAvatarOf(a, e.user)
            /\ a = 0 => e.user \notin before[q]
        BY <3>1, <3>4 DEF HasAvatarId
      <4>2. userLists'[q][e.user] = IF a = 0 THEN NoContent ELSE files[a]
        BY <2>2, <4>1
      <4> QED
        BY <2>2, <4>1, <4>2 DEF IsAvatarOf, NoContent
    <3>5. HasAvatar(q, e)'
      BY <1>2, <1>4, <3>4 DEF HasAvatar, Avatars
    <3> QED
      BY <3>2, <3>3, <3>5
  <2>7. AnswerInv(q)'
    <3>1. answer'[q] = <<>> /\ step'[q] \in {"groups", "respond"}
      BY <1>1, <1>4, <2>2
    <3> QED
      BY <3>1 DEF AnswerInv, IsSequence
  <2>8. ~unread[q] => Complete(want[q], before[q], msgLists[q], DOMAIN FriendOf)
    BY <1>1 DEF HandlerInv, CompleteInv, Holding
  <2>9. CompleteInv(q)'
    BY <1>1, <1>2, <1>4, <2>1, <2>2, <2>8 DEF CompleteInv
  <2> QED
    BY <2>3, <2>4, <2>5, <2>6, <2>7, <2>9 DEF HandlerInv
<1> QED
  BY <1>3, <1>4 DEF GetAvatars

(* An entry of the response, made of what the handler holds. *)
LEMMA EntryIsWhole ==
  ASSUME FilesInv, QueryTypeOK, NEW q \in Handler, NEW k \in DOMAIN msgLists[q],
         NEW e, e = msgLists[q][k],
         ItemInv(want[q], e), HasFile(q, e), HasAvatar(q, e), NEW prev, NEW missed
  PROVE  /\ IsItself(Entry(q, e, prev, missed), before[q])
         /\ Entry(q, e, prev, missed).chat = e.chat /\ Entry(q, e, prev, missed).msg = e.msg
         /\ Entry(q, e, prev, missed).user = e.user /\ Entry(q, e, prev, missed).prev = prev
<1> DEFINE x == Entry(q, e, prev, missed)
<1>1. /\ x.chat = e.chat /\ x.msg = e.msg /\ x.user = e.user /\ x.prev = prev
      /\ x.body = IF e.file = 0 THEN NoContent ELSE At(fileData[q], e.file)
      /\ x.avatar = IF e.user = None THEN NoContent ELSE At(userLists[q], e.user)
  BY DEF Entry
<1>2. x.body.call = IF e.msg \in FileMessage THEN e.msg ELSE None
  <2>1. CASE e.msg \in FileMessage
    <3>1. IsOfMessage(e.file, e.msg) /\ e.file # 0
      BY <2>1, FilesHaveIds DEF ItemInv, IsOfMessage
    <3> QED
      BY <1>1, <2>1, <3>1 DEF HasFile, At
  <2>2. CASE e.msg \notin FileMessage
    BY <1>1, <2>2 DEF ItemInv, NoContent
  <2> QED
    BY <2>1, <2>2
<1>3. \/ x.user # None /\ x.avatar.call \in Avatars(x.user)
      \/ x.avatar.call = None /\ x.user \notin before[q]
  <2>1. CASE e.user # None
    BY <1>1, <2>1 DEF HasAvatar, At
  <2>2. CASE e.user = None
    <3>1. None \notin before[q]
      BY QueryAssumption DEF QueryTypeOK
    <3> QED
      BY <1>1, <2>2, <3>1 DEF NoContent
  <2> QED
    BY <2>1, <2>2
<1> QED
  BY <1>1, <1>2, <1>3 DEF IsItself

LEMMA AssembleKeeps ==
  ASSUME FilesInv, QueryTypeOK, NEW q \in Handler, HandlerInv(q), Assemble(q)
  PROVE  QueryTypeOK' /\ HandlerInv(q)' /\ OthersRest(q)
<1> DEFINE list == msgLists[q]
           rsp == [k \in DOMAIN list |-> Entry(q, list[k], <<>>, FALSE)]
<1>1. /\ step[q] = "respond" /\ want[q] \in Wanted /\ want[q].kind # "chats"
      /\ before[q] \subseteq Now
  BY DEF Assemble, HandlerInv, StepInv
<1>2. /\ step' = [step EXCEPT ![q] = "end"] /\ outcome' = [outcome EXCEPT ![q] = "ok"]
      /\ msgLists' = [msgLists EXCEPT ![q] = <<>>] /\ fileData' = [fileData EXCEPT ![q] = <<>>]
      /\ avatarIds' = [avatarIds EXCEPT ![q] = <<>>]
      /\ userLists' = [userLists EXCEPT ![q] = <<>>]
      /\ answer' = [answer EXCEPT ![q] = rsp]
      /\ UNCHANGED <<fileVars, storeVars, want, unread, before>>
  BY DEF Assemble, Respond, Goto, Forget
<1>3. list \in Seq(Item) /\ Len(list) \in Nat /\ DOMAIN list = 1..Len(list)
  BY DEF QueryTypeOK
<1>4. ASSUME NEW k \in DOMAIN list
      PROVE  /\ IsItself(rsp[k], before[q]) /\ rsp[k].prev = <<>>
             /\ rsp[k].chat = list[k].chat /\ rsp[k].msg = list[k].msg
             /\ rsp[k].user = list[k].user
             /\ ItemInv(want[q], list[k])
  <2>1. ItemInv(want[q], list[k]) /\ HasFile(q, list[k]) /\ HasAvatar(q, list[k])
    BY <1>1 DEF HandlerInv, HeldInv, Holding
  <2> DEFINE e == list[k]
             no == FALSE
  <2>2. rsp[k] = Entry(q, e, <<>>, no)
    OBVIOUS
  <2> HIDE DEF no
  <2>3. /\ IsItself(Entry(q, e, <<>>, no), before[q])
        /\ Entry(q, e, <<>>, no).chat = e.chat /\ Entry(q, e, <<>>, no).msg = e.msg
        /\ Entry(q, e, <<>>, no).user = e.user /\ Entry(q, e, <<>>, no).prev = <<>>
    BY <2>1, EntryIsWhole
  <2> QED
    BY <2>1, <2>2, <2>3
<1> HIDE DEF rsp
<1>5. DOMAIN rsp = 1..Len(list) /\ rsp \in Seq({rsp[k] : k \in DOMAIN rsp}) /\ Len(rsp) = Len(list)
  <2>1. rsp = [k \in 1..Len(list) |-> Entry(q, list[k], <<>>, FALSE)]
    BY <1>3 DEF rsp
  <2>2. DOMAIN rsp = 1..Len(list)
    BY <2>1
  <2>3. rsp \in [1..Len(list) -> {rsp[k] : k \in DOMAIN rsp}]
    BY <2>1, <2>2
  <2> QED
    BY <1>3, <2>2, <2>3
<1>6. step'[q] = "end" /\ outcome'[q] = "ok" /\ answer'[q] = rsp
  BY <1>2 DEF QueryTypeOK
<1>7. <<>> \in Seq(Item)
  OBVIOUS
<1>8. msgLists' \in [Handler -> Seq(Item)]
  BY <1>2, <1>7 DEF QueryTypeOK
<1>9. QueryTypeOK'
  BY <1>2, <1>8 DEF QueryTypeOK
<1>10. OthersRest(q)
  BY <1>2 DEF OthersRest, Untouched, QueryTypeOK
<1>11. StepInv(q)'
  BY <1>1, <1>2, <1>6, SameStore DEF StepInv
<1>12. HeldInv(q)'
  BY <1>6 DEF HeldInv, Holding
<1>13. AnswerInv(q)'
  <2>1. ASSUME NEW k \in DOMAIN rsp
        PROVE  /\ IsWhole(rsp[k], before[q])
               /\ OfMessages(want[q]) => rsp[k].chat = want[q].chat
    <3>1. k \in DOMAIN list
      BY <1>3, <1>5
    <3> QED
      BY <1>4, <3>1 DEF IsWhole, ItemInv
  <2> QED
    BY <1>1, <1>2, <1>5, <1>6, <2>1 DEF AnswerInv, IsSequence
<1>14. ~unread[q] => Complete(want[q], before[q], rsp, Chat)
  <2>1. SUFFICES ASSUME Complete(want[q], before[q], list, DOMAIN FriendOf)
                 PROVE  Complete(want[q], before[q], rsp, Chat)
    BY <1>1 DEF HandlerInv, CompleteInv, Holding
  <2>2. DOMAIN rsp = DOMAIN list /\ Len(rsp) = Len(list)
        /\ \A k \in DOMAIN list : rsp[k].msg = list[k].msg /\ rsp[k].user = list[k].user
    BY <1>3, <1>4, <1>5
  <2>3. want[q].kind = "history" =>
          \A m \in before[q] \cap Message :
            ChatOf[m] = want[q].chat /\ want[q].from <= Time[m] /\ Time[m] <= want[q].to =>
              \E k \in DOMAIN rsp : rsp[k].msg = m
    BY <2>1, <2>2 DEF Complete
  <2>4. want[q].kind = "recent" =>
          /\ \A j, k \in DOMAIN rsp : j < k => Time[rsp[j].msg] <= Time[rsp[k].msg]
          /\ \A m \in before[q] \cap Message :
               ChatOf[m] = want[q].chat /\ (\A k \in DOMAIN rsp : rsp[k].msg # m) =>
                 /\ Len(rsp) = want[q].count
                 /\ \A k \in DOMAIN rsp : Time[m] <= Time[rsp[k].msg]
    BY <2>1, <2>2 DEF Complete
  <2>5. want[q].kind \in {"people", "user"} => {rsp[k].user : k \in DOMAIN rsp} = want[q].who
    <3>1. {rsp[k].user : k \in DOMAIN rsp} = {list[k].user : k \in DOMAIN list}
      BY <2>2
    <3> QED
      BY <2>1, <3>1 DEF Complete
  <2> QED
    BY <1>1, <2>3, <2>4, <2>5 DEF Complete
<1>15. CompleteInv(q)'
  BY <1>2, <1>6, <1>14 DEF CompleteInv, Holding
<1> QED
  BY <1>9, <1>10, <1>11, <1>12, <1>13, <1>15 DEF HandlerInv

LEMMA HandleKeeps ==
  ASSUME FilesInv, StoreInv, QueryTypeOK, NEW q \in Handler, HandlerInv(q), Handle(q)
  PROVE  /\ QueryTypeOK' /\ HandlerInv(q)' /\ OthersRest(q)
         /\ UNCHANGED <<fileVars, storeVars, want, before>>
         /\ UNCHANGED faults \/ Fault
         /\ step[q] \in {"find", "files", "users", "avatars", "respond"}
         /\ step'[q] \notin {"none", "recent"}
<1>1. QueryTypeOK' /\ HandlerInv(q)' /\ OthersRest(q)
  BY FindKeeps, GetFileKeeps, SelectUsersKeeps, GetAvatarsKeeps, AssembleKeeps DEF Handle
<1>2. \A t : step' = [step EXCEPT ![q] = t] => step'[q] = t
  BY DEF QueryTypeOK
<1>3. CASE Find(q)
  <2>1. step[q] = "find" /\ UNCHANGED <<fileVars, storeVars, want, before>>
    BY <1>3 DEF Find
  <2>2. UNCHANGED faults \/ Fault
    BY <1>3 DEF Find
  <2>3. \E t \in {"end", "files", "users"} : step' = [step EXCEPT ![q] = t]
    BY <1>3 DEF Find, Respond, Goto
  <2> QED
    BY <1>1, <1>2, <2>1, <2>2, <2>3
<1>4. ASSUME GetFile(q) \/ SelectUsers(q) \/ GetAvatars(q)
      PROVE  /\ step[q] \in {"files", "users", "avatars"}
             /\ UNCHANGED <<fileVars, storeVars, want, before>>
             /\ UNCHANGED faults \/ Fault
             /\ \E t \in {"end", "users", "avatars", "groups", "respond"} :
                  step' = [step EXCEPT ![q] = t]
  BY <1>4 DEF GetFile, SelectUsers, GetAvatars, CallFails, Respond, Goto
<1>5. CASE GetFile(q) \/ SelectUsers(q) \/ GetAvatars(q)
  BY <1>1, <1>2, <1>4, <1>5
<1>6. CASE Assemble(q)
  <2>1. /\ step[q] = "respond" /\ UNCHANGED <<fileVars, faults, storeVars, want, before>>
        /\ step' = [step EXCEPT ![q] = "end"]
    BY <1>6 DEF Assemble, Respond, Goto
  <2> QED
    BY <1>1, <1>2, <2>1
<1> QED
  BY <1>3, <1>5, <1>6 DEF Handle

-----------------------------------------------------------------------------
(* The rest of GetChatSessionList, which is two handlers' work.            *)

LEMMA InnerIs ==
  ASSUME NEW q \in Query
  PROVE  /\ q \in Handler /\ Inner(q) \in Handler /\ Inner(q) \notin Query
         /\ \A p \in Query : Inner(p) = Inner(q) => p = q
BY QueryAssumption DEF Handler, Inner

LEMMA ReadGroupsKeeps ==
  ASSUME QueryTypeOK, NEW q \in Query, HandlerInv(q), ReadGroups(q)
  PROVE  QueryTypeOK' /\ HandlerInv(q)' /\ OthersRest(q)
<1> DEFINE list == msgLists[q]
           groups == Each(Group, Chat \ DOMAIN FriendOf)
<1>1. /\ step[q] = "groups" /\ want[q] \in Wanted /\ want[q].kind = "chats"
      /\ before[q] \subseteq Now /\ answer[q] = <<>> /\ outcome[q] = "none" /\ q \in Handler
  BY InnerIs DEF ReadGroups, HandlerInv, StepInv
<1>2. /\ UNCHANGED <<fileVars, storeVars, want, fileData, avatarIds, userLists, answer,
                     outcome, before>>
      /\ step' = [step EXCEPT ![q] = "chat"]
      /\ \/ msgLists' = [msgLists EXCEPT ![q] = list \o groups] /\ UNCHANGED unread
         \/ unread' = [unread EXCEPT ![q] = TRUE] /\ UNCHANGED msgLists
  BY DEF ReadGroups, Goto
<1>3. /\ groups \in Seq(Item)
      /\ \A k \in DOMAIN groups : \E c \in Chat \ DOMAIN FriendOf : groups[k] = Group(c)
      /\ \A c \in Chat \ DOMAIN FriendOf : \E k \in DOMAIN groups : groups[k] = Group(c)
  BY GroupsAre
<1>4. list \in Seq(Item)
  BY <1>1 DEF QueryTypeOK
<1> HIDE DEF groups
<1>5. /\ list \o groups \in Seq(Item)
      /\ DOMAIN list = 1..Len(list) /\ DOMAIN groups = 1..Len(groups)
      /\ Len(list) \in Nat /\ Len(groups) \in Nat
      /\ DOMAIN (list \o groups) = 1..(Len(list) + Len(groups))
      /\ \A k \in DOMAIN list : (list \o groups)[k] = list[k]
      /\ \A k \in DOMAIN groups : (list \o groups)[Len(list) + k] = groups[k]
  BY <1>3, <1>4
<1>6. PICK new \in Seq(Item) :
        /\ msgLists' = [msgLists EXCEPT ![q] = new]
        /\ \/ new = list \o groups /\ UNCHANGED unread
           \/ new = list /\ unread' = [unread EXCEPT ![q] = TRUE]
  <2>1. msgLists = [msgLists EXCEPT ![q] = list]
    BY <1>1 DEF QueryTypeOK
  <2> QED
    BY <1>2, <1>4, <1>5, <2>1
<1>7. step'[q] = "chat" /\ msgLists'[q] = new
  BY <1>1, <1>2, <1>6 DEF QueryTypeOK
<1>8. QueryTypeOK'
  BY <1>2, <1>6 DEF QueryTypeOK
<1>9. OthersRest(q)
  BY <1>2, <1>6 DEF OthersRest, Untouched, QueryTypeOK
<1>10. StepInv(q)'
  BY <1>1, <1>2, <1>7, SameStore DEF StepInv
<1>11. ASSUME NEW k \in DOMAIN new
       PROVE  \/ \E j \in DOMAIN list : new[k] = list[j]
              \/ \E c \in Chat : new[k] = Group(c)
  <2>1. CASE k \in DOMAIN list
    BY <1>5, <1>6, <2>1
  <2>2. CASE k \notin DOMAIN list
    <3>1. new = list \o groups /\ k - Len(list) \in DOMAIN groups
      BY <1>5, <1>6, <2>2
    <3>2. new[k] = groups[k - Len(list)]
      BY <1>5, <3>1
    <3> QED
      BY <1>3, <3>1, <3>2
  <2> QED
    BY <2>1, <2>2
<1>12. HeldInv(q)'
  <2> SUFFICES ASSUME NEW k \in DOMAIN new
               PROVE  /\ ItemInv(want[q], new[k])'
                      /\ HasFile(q, new[k])' /\ HasAvatar(q, new[k])'
    BY <1>7 DEF HeldInv
  <2>1. ItemInv(want[q], new[k]) /\ HasFile(q, new[k]) /\ HasAvatar(q, new[k])
    <3>1. CASE \E j \in DOMAIN list : new[k] = list[j]
      BY <1>1, <3>1 DEF HandlerInv, HeldInv, Holding
    <3>2. CASE \E c \in Chat : new[k] = Group(c)
      BY <1>1, <3>2, QueryAssumption
      DEF Group, ItemInv, HasFile, HasAvatar, FileMessage, OfMessages
    <3> QED
      BY <1>11, <3>1, <3>2
  <2>2. ItemInv(want[q], new[k])'
    BY <1>2, <2>1, SameStore
  <2> QED
    BY <1>2, <2>1, <2>2 DEF HasFile, HasAvatar
<1>13. AnswerInv(q)'
  <2>1. answer'[q] = <<>>
    BY <1>1, <1>2
  <2>2. Len(msgLists'[q]) \in Nat
    BY <1>7
  <2> QED
    BY <2>1, <2>2 DEF AnswerInv, IsSequence
<1>14. ~unread'[q] => {new[k].chat : k \in DOMAIN new} = Chat
  <2> SUFFICES ASSUME ~unread'[q]
               PROVE  {new[k].chat : k \in DOMAIN new} = Chat
    OBVIOUS
  <2>1. new = list \o groups /\ ~unread[q]
    BY <1>1, <1>6 DEF QueryTypeOK
  <2>2. {list[k].chat : k \in DOMAIN list} = DOMAIN FriendOf
    BY <1>1, <2>1 DEF HandlerInv, CompleteInv, Complete, Holding
  <2>3. \A k \in DOMAIN new : new[k].chat \in Chat
    BY <1>11, <2>2, QueryAssumption DEF Group
  <2>4. ASSUME NEW c \in Chat
        PROVE  \E k \in DOMAIN new : new[k].chat = c
    <3>1. CASE c \in DOMAIN FriendOf
      <4>1. PICK k \in DOMAIN list : list[k].chat = c
        BY <2>2, <3>1
      <4> QED
        BY <1>5, <2>1, <4>1
    <3>2. CASE c \notin DOMAIN FriendOf
      <4>1. PICK k \in DOMAIN groups : groups[k] = Group(c)
        BY <1>3, <3>2
      <4>2. Len(list) + k \in DOMAIN new /\ new[Len(list) + k] = Group(c)
        BY <1>5, <2>1, <4>1
      <4> QED
        BY <4>2 DEF Group
    <3> QED
      BY <3>1, <3>2
  <2> QED
    BY <2>3, <2>4
<1>15. CompleteInv(q)'
  BY <1>1, <1>2, <1>7, <1>14 DEF CompleteInv, Complete
<1> QED
  BY <1>8, <1>9, <1>10, <1>12, <1>13, <1>15 DEF HandlerInv

LEMMA AskRecentKeeps ==
  ASSUME QueryTypeOK, NEW q \in Query, HandlerInv(q), HandlerInv(Inner(q)), CallInv(q),
         AskRecent(q)
  PROVE  /\ QueryTypeOK' /\ HandlerInv(q)' /\ HandlerInv(Inner(q))' /\ CallInv(q)'
         /\ \A p \in Handler : p # q /\ p # Inner(q) => Untouched(p)
<1> DEFINE i == Inner(q)
           w == [kind |-> "recent", chat |-> NextChat(q).chat, count |-> 1]
<1>1. q \in Handler /\ i \in Handler /\ i # q
  BY InnerIs
<1>2. /\ step[q] = "chat" /\ Len(answer[q]) < Len(msgLists[q])
      /\ want[q] \in Wanted /\ want[q].kind = "chats"
      /\ before[q] \subseteq Now /\ outcome[q] = "none"
      /\ step[i] = "none" /\ answer[i] = <<>> /\ outcome[i] = "none"
  BY DEF AskRecent, HandlerInv, StepInv, CallInv
<1>3. /\ step' = [step EXCEPT ![q] = "recent", ![i] = "find"]
      /\ want' = [want EXCEPT ![i] = w]
      /\ before' = [before EXCEPT ![i] = Now]
      /\ UNCHANGED <<fileVars, faults, storeVars, msgLists, fileData, avatarIds, userLists,
                     answer, outcome, unread>>
  BY DEF AskRecent
<1>4. w \in Wanted
  <2>1. msgLists[q] \in Seq(Item) /\ Len(answer[q]) \in Nat
    BY <1>1 DEF QueryTypeOK, HandlerInv, AnswerInv, IsSequence
  <2>2. Len(answer[q]) + 1 \in DOMAIN msgLists[q]
    BY <1>2, <2>1
  <2>3. NextChat(q).chat \in Chat
    BY <1>2, <2>2 DEF HandlerInv, HeldInv, Holding, ItemInv, NextChat
  <2> QED
    BY <2>3 DEF Wanted
<1>5. Now \in SUBSET (Message \cup User)
  BY DEF Now, Stored
<1> HIDE DEF i, w
<1>6. /\ step'[q] = "recent" /\ want'[q] = want[q] /\ before'[q] = before[q]
      /\ step'[i] = "find" /\ want'[i] = w /\ before'[i] = Now
  BY <1>1, <1>3 DEF QueryTypeOK
<1>7. QueryTypeOK'
  BY <1>3, <1>4, <1>5 DEF QueryTypeOK
<1>8. HandlerInv(q)'
  <2>1. StepInv(q)'
    BY <1>2, <1>3, <1>6, SameStore DEF StepInv
  <2>2. HeldInv(q)'
    <3> SUFFICES ASSUME NEW k \in DOMAIN msgLists[q]
                 PROVE  /\ ItemInv(want[q], msgLists[q][k])'
                        /\ HasFile(q, msgLists[q][k])' /\ HasAvatar(q, msgLists[q][k])'
      BY <1>3, <1>6 DEF HeldInv
    <3> DEFINE e == msgLists[q][k]
    <3>1. ItemInv(want[q], e) /\ HasFile(q, e) /\ HasAvatar(q, e)
      BY <1>2 DEF HandlerInv, HeldInv, Holding
    <3>2. ItemInv(want[q], e)'
      BY <1>3, <1>6, <3>1, SameStore
    <3> QED
      BY <1>3, <1>6, <3>1, <3>2 DEF HasFile, HasAvatar
  <2>3. AnswerInv(q)'
    BY <1>2, <1>3, <1>6 DEF HandlerInv, AnswerInv
  <2>4. CompleteInv(q)'
    BY <1>2, <1>3, <1>6 DEF HandlerInv, CompleteInv, Holding
  <2> QED
    BY <2>1, <2>2, <2>3, <2>4 DEF HandlerInv
<1>9. HandlerInv(i)'
  <2>1. StepInv(i)'
    BY <1>2, <1>3, <1>4, <1>6, SameStore DEF StepInv
  <2>2. HeldInv(i)' /\ CompleteInv(i)'
    BY <1>2, <1>3, <1>6 DEF HeldInv, CompleteInv, Holding
  <2>3. AnswerInv(i)'
    <3>1. answer'[i] = <<>>
      BY <1>2, <1>3
    <3> QED
      BY <1>6, <3>1 DEF AnswerInv, IsSequence
  <2> QED
    BY <2>1, <2>2, <2>3 DEF HandlerInv
<1>10. CallInv(q)'
  <2>1. NextChat(q)' = NextChat(q)
    BY <1>3 DEF NextChat
  <2>2. /\ step'[i] # "none" /\ want'[i].kind = "recent" /\ want'[i].chat = NextChat(q).chat
        /\ want'[i].count = 1
        /\ before'[q] \subseteq before'[i]
    BY <1>2, <1>6 DEF w
  <2> QED
    BY <1>2, <1>3, <1>6, <2>1, <2>2 DEF CallInv, i
<1>11. \A p \in Handler : p # q /\ p # i => Untouched(p)
  BY <1>3 DEF Untouched, QueryTypeOK
<1> QED
  BY <1>7, <1>8, <1>9, <1>10, <1>11 DEF i

LEMMA AppendIs ==
  ASSUME NEW s, IsSequence(s), NEW x
  PROVE  /\ IsSequence(Append(s, x))
         /\ Len(s) \in Nat /\ DOMAIN s = 1..Len(s)
         /\ Len(Append(s, x)) = Len(s) + 1
         /\ DOMAIN Append(s, x) = 1..(Len(s) + 1)
         /\ \A k \in 1..Len(s) : Append(s, x)[k] = s[k]
         /\ Append(s, x)[Len(s) + 1] = x
<1> DEFINE S == {s[k] : k \in DOMAIN s} \cup {x}
           t == Append(s, x)
<1>1. s \in Seq(S)
  <2>1. s \in Seq({s[k] : k \in DOMAIN s})
    BY DEF IsSequence
  <2>2. {s[k] : k \in DOMAIN s} \subseteq S
    OBVIOUS
  <2> HIDE DEF S
  <2> QED
    BY <2>1, <2>2, SeqInWider
<1>2. x \in S
  OBVIOUS
<1> HIDE DEF S
<1>3. /\ t \in Seq(S) /\ Len(s) \in Nat /\ DOMAIN s = 1..Len(s)
      /\ Len(t) = Len(s) + 1 /\ DOMAIN t = 1..(Len(s) + 1)
      /\ \A k \in 1..Len(s) : t[k] = s[k]
      /\ t[Len(s) + 1] = x
  BY <1>1, <1>2
<1> HIDE DEF t
<1>4. t \in [1..(Len(s) + 1) -> {t[k] : k \in DOMAIN t}]
  <2>1. t \in [1..(Len(s) + 1) -> S]
    BY <1>3
  <2> QED
    BY <1>3, <2>1
<1>5. IsSequence(t)
  BY <1>3, <1>4 DEF IsSequence
<1> QED
  BY <1>3, <1>5 DEF t

LEMMA TakeRecentKeeps ==
  ASSUME FilesInv, QueryTypeOK, NEW q \in Query, HandlerInv(q), HandlerInv(Inner(q)), CallInv(q),
         TakeRecent(q)
  PROVE  /\ QueryTypeOK' /\ HandlerInv(q)' /\ HandlerInv(Inner(q))' /\ CallInv(q)'
         /\ \A p \in Handler : p # q /\ p # Inner(q) => Untouched(p)
<1> DEFINE i == Inner(q)
           n == Len(answer[q]) + 1
           e == Entry(q, NextChat(q), answer[i], Missed(q))
<1>1. q \in Handler /\ i \in Handler /\ i # q
  BY InnerIs
<1>2. /\ step[q] = "recent" /\ step[i] = "end"
      /\ want[q] \in Wanted /\ want[q].kind = "chats"
      /\ before[q] \subseteq Now /\ outcome[q] = "none"
      /\ want[i] \in Wanted /\ want[i].kind = "recent" /\ want[i].chat = NextChat(q).chat
      /\ before[q] \subseteq before[i] /\ Len(answer[q]) < Len(msgLists[q])
      /\ outcome[i] # "none" /\ want[i].count = 1
  BY DEF TakeRecent, HandlerInv, StepInv, CallInv
<1>3. /\ step' = [step EXCEPT ![q] = "chat", ![i] = "none"]
      /\ answer' = [answer EXCEPT ![q] = Append(@, e), ![i] = <<>>]
      /\ outcome' = [outcome EXCEPT ![i] = "none"]
      /\ unread' = [unread EXCEPT ![i] = FALSE]
      /\ UNCHANGED <<fileVars, faults, storeVars, want, msgLists, fileData, avatarIds,
                     userLists, before>>
  BY DEF TakeRecent
<1>4. /\ msgLists[q] \in Seq(Item) /\ DOMAIN msgLists[q] = 1..Len(msgLists[q])
      /\ IsSequence(answer[q])
  BY <1>1 DEF QueryTypeOK, HandlerInv, AnswerInv
<1>5. /\ IsSequence(Append(answer[q], e))
      /\ Len(answer[q]) \in Nat /\ DOMAIN answer[q] = 1..Len(answer[q])
      /\ Len(Append(answer[q], e)) = n
      /\ DOMAIN Append(answer[q], e) = 1..n
      /\ \A k \in 1..Len(answer[q]) : Append(answer[q], e)[k] = answer[q][k]
      /\ Append(answer[q], e)[n] = e
  BY <1>4, AppendIs
<1>6. n \in DOMAIN msgLists[q] /\ NextChat(q) = msgLists[q][n]
  BY <1>2, <1>4, <1>5 DEF NextChat
<1>7. IsWhole(e, before[q]) /\ e.chat = NextChat(q).chat /\ ShowsLast(e, before[q])
  <2>1. /\ ItemInv(want[q], NextChat(q)) /\ HasFile(q, NextChat(q))
        /\ HasAvatar(q, NextChat(q))
    BY <1>2, <1>6 DEF HandlerInv, HeldInv, Holding
  <2>2. IsItself(e, before[q]) /\ e.chat = NextChat(q).chat /\ e.prev = answer[i]
    <3> DEFINE x == NextChat(q)
               prev == answer[i]
    <3>1. x = msgLists[q][n] /\ ItemInv(want[q], x) /\ HasFile(q, x) /\ HasAvatar(q, x)
      BY <1>6, <2>1
    <3> HIDE DEF x, n, prev
    <3>2. IsItself(Entry(q, x, prev, Missed(q)), before[q]) /\ Entry(q, x, prev, Missed(q)).chat = x.chat
          /\ Entry(q, x, prev, Missed(q)).prev = prev
      BY <1>1, <1>6, <3>1, EntryIsWhole
    <3> QED
      BY <3>2 DEF x, prev
  <2>3. ASSUME NEW k \in DOMAIN answer[i]
        PROVE  IsItself(answer[i][k], before[q]) /\ answer[i][k].chat = e.chat
    <3>1. IsItself(answer[i][k], before[i]) /\ answer[i][k].chat = want[i].chat
      BY <1>2 DEF HandlerInv, AnswerInv, IsWhole, OfMessages
    <3> QED
      BY <1>2, <2>2, <3>1 DEF IsItself
  <2>4. ASSUME NEW m \in before[q] \cap Message, ChatOf[m] = e.chat, e.prev = <<>>, ~e.missed
        PROVE  FALSE
    <3>1. outcome[i] = "ok" /\ ~unread[i]
      <4>1. e.missed = (outcome[i] = "failed" \/ unread[i])
        BY DEF Entry, Missed
      <4> QED
        BY <1>1, <1>2, <2>4, <4>1 DEF QueryTypeOK
    <3>2. Complete(want[i], before[i], answer[i], Chat)
      BY <3>1 DEF HandlerInv, CompleteInv
    <3>3. answer[i] = <<>> /\ m \in before[i] \cap Message /\ ChatOf[m] = want[i].chat
      BY <1>2, <2>2, <2>4
    <3>4. Len(answer[i]) = 1
      BY <1>2, <3>2, <3>3 DEF Complete
    <3> QED
      BY <3>3, <3>4
  <2> QED
    BY <2>2, <2>3, <2>4 DEF IsWhole, ShowsLast
<1> HIDE DEF i, n, e
<1>8. /\ step'[q] = "chat" /\ answer'[q] = Append(answer[q], e)
      /\ outcome'[q] = outcome[q] /\ unread'[q] = unread[q]
      /\ step'[i] = "none" /\ answer'[i] = <<>> /\ outcome'[i] = "none"
  BY <1>1, <1>3 DEF QueryTypeOK
<1>9. QueryTypeOK'
  BY <1>3 DEF QueryTypeOK
<1>10. HandlerInv(q)'
  <2>1. StepInv(q)'
    BY <1>2, <1>3, <1>8, SameStore DEF StepInv
  <2>2. HeldInv(q)'
    <3> SUFFICES ASSUME NEW k \in DOMAIN msgLists[q]
                 PROVE  /\ ItemInv(want[q], msgLists[q][k])'
                        /\ HasFile(q, msgLists[q][k])' /\ HasAvatar(q, msgLists[q][k])'
      BY <1>3, <1>8 DEF HeldInv
    <3> DEFINE x == msgLists[q][k]
    <3>1. ItemInv(want[q], x) /\ HasFile(q, x) /\ HasAvatar(q, x)
      BY <1>2 DEF HandlerInv, HeldInv, Holding
    <3>2. ItemInv(want[q], x)'
      BY <1>3, <3>1, SameStore
    <3> QED
      BY <1>3, <3>1, <3>2 DEF HasFile, HasAvatar
  <2>3. AnswerInv(q)'
    <3>1. ASSUME NEW k \in 1..n
          PROVE  /\ IsWhole(Append(answer[q], e)[k], before[q])
                 /\ ShowsLast(Append(answer[q], e)[k], before[q])
                 /\ Append(answer[q], e)[k].chat = msgLists[q][k].chat
      <4>1. CASE k = n
        BY <1>5, <1>6, <1>7, <4>1
      <4>2. CASE k # n
        <5>1. k \in 1..Len(answer[q])
          BY <1>5, <4>2 DEF n
        <5> QED
          BY <1>2, <1>5, <5>1 DEF HandlerInv, AnswerInv
      <4> QED
        BY <4>1, <4>2
    <3>2. n <= Len(msgLists[q])
      BY <1>4, <1>6
    <3> QED
      BY <1>2, <1>3, <1>5, <1>8, <3>1, <3>2 DEF AnswerInv, OfMessages
  <2>4. CompleteInv(q)'
    BY <1>2, <1>3, <1>8 DEF HandlerInv, CompleteInv, Holding
  <2> QED
    BY <2>1, <2>2, <2>3, <2>4 DEF HandlerInv
<1>11. HandlerInv(i)'
  <2>1. StepInv(i)' /\ HeldInv(i)' /\ CompleteInv(i)'
    BY <1>8 DEF StepInv, HeldInv, CompleteInv, Holding
  <2>2. AnswerInv(i)'
    BY <1>8 DEF AnswerInv, IsSequence
  <2> QED
    BY <2>1, <2>2 DEF HandlerInv
<1>12. CallInv(q)'
  BY <1>8 DEF CallInv, i
<1>13. \A p \in Handler : p # q /\ p # i => Untouched(p)
  BY <1>3 DEF Untouched, QueryTypeOK
<1> QED
  BY <1>9, <1>10, <1>11, <1>12, <1>13 DEF i

LEMMA AllChatsKeeps ==
  ASSUME QueryTypeOK, NEW q \in Query, HandlerInv(q), AllChats(q)
  PROVE  QueryTypeOK' /\ HandlerInv(q)' /\ OthersRest(q)
<1>1. /\ step[q] = "chat" /\ Len(answer[q]) = Len(msgLists[q])
      /\ want[q] \in Wanted /\ want[q].kind = "chats" /\ before[q] \subseteq Now
      /\ q \in Handler
  BY InnerIs DEF AllChats, HandlerInv, StepInv
<1>2. /\ step' = [step EXCEPT ![q] = "end"] /\ outcome' = [outcome EXCEPT ![q] = "ok"]
      /\ msgLists' = [msgLists EXCEPT ![q] = <<>>] /\ fileData' = [fileData EXCEPT ![q] = <<>>]
      /\ avatarIds' = [avatarIds EXCEPT ![q] = <<>>]
      /\ userLists' = [userLists EXCEPT ![q] = <<>>]
      /\ UNCHANGED <<fileVars, faults, storeVars, want, answer, unread, before>>
  BY DEF AllChats, Respond, Goto, Forget
<1>3. step'[q] = "end" /\ outcome'[q] = "ok"
  BY <1>1, <1>2 DEF QueryTypeOK
<1>4. <<>> \in Seq(Item)
  OBVIOUS
<1>5. msgLists' \in [Handler -> Seq(Item)]
  BY <1>2, <1>4 DEF QueryTypeOK
<1>6. QueryTypeOK'
  BY <1>2, <1>5 DEF QueryTypeOK
<1>7. OthersRest(q)
  BY <1>2 DEF OthersRest, Untouched, QueryTypeOK
<1>8. StepInv(q)'
  BY <1>1, <1>2, <1>3, SameStore DEF StepInv
<1>9. HeldInv(q)'
  BY <1>3 DEF HeldInv, Holding
<1>10. AnswerInv(q)'
  BY <1>2, <1>3 DEF HandlerInv, AnswerInv
<1>11. ~unread[q] => {answer[q][k].chat : k \in DOMAIN answer[q]} = Chat
  <2> SUFFICES ASSUME ~unread[q]
               PROVE  {answer[q][k].chat : k \in DOMAIN answer[q]} = Chat
    OBVIOUS
  <2>1. {msgLists[q][k].chat : k \in DOMAIN msgLists[q]} = Chat
    BY <1>1 DEF HandlerInv, CompleteInv, Complete, Holding
  <2>2. IsSequence(answer[q]) /\ msgLists[q] \in Seq(Item)
    BY <1>1 DEF HandlerInv, AnswerInv, QueryTypeOK
  <2>3. DOMAIN answer[q] = 1..Len(answer[q]) /\ DOMAIN msgLists[q] = 1..Len(answer[q])
    BY <1>1, <2>2, AppendIs
  <2>4. \A k \in 1..Len(answer[q]) : answer[q][k].chat = msgLists[q][k].chat
    BY <1>1 DEF HandlerInv, AnswerInv
  <2> QED
    BY <2>1, <2>3, <2>4
<1>12. CompleteInv(q)'
  BY <1>1, <1>2, <1>3, <1>11 DEF CompleteInv, Complete, Holding
<1> QED
  BY <1>6, <1>7, <1>8, <1>9, <1>10, <1>12 DEF HandlerInv

LEMMA AskKeeps ==
  ASSUME QueryTypeOK, NEW q \in Query, HandlerInv(q), NEW w \in Asked, Ask(q, w)
  PROVE  QueryTypeOK' /\ HandlerInv(q)' /\ OthersRest(q)
<1>1. q \in Handler /\ w \in Wanted /\ Now \in SUBSET (Message \cup User)
  BY InnerIs, QueryAssumption DEF Now, Stored
<1>2. step[q] = "none" /\ answer[q] = <<>> /\ outcome[q] = "none"
  BY DEF Ask, Begin, HandlerInv, StepInv
<1>3. /\ step' = [step EXCEPT ![q] = "find"] /\ want' = [want EXCEPT ![q] = w]
      /\ before' = [before EXCEPT ![q] = Now]
      /\ UNCHANGED <<fileVars, faults, storeVars, msgLists, fileData, avatarIds,
                     userLists, answer, outcome, unread>>
  BY DEF Ask, Begin, Goto
<1>4. step'[q] = "find" /\ want'[q] = w /\ before'[q] = Now /\ answer'[q] = <<>>
      /\ outcome'[q] = "none"
  BY <1>1, <1>2, <1>3 DEF QueryTypeOK
<1>5. QueryTypeOK'
  BY <1>1, <1>3 DEF QueryTypeOK
<1>6. OthersRest(q)
  BY <1>3 DEF OthersRest, Untouched, QueryTypeOK
<1>7. StepInv(q)'
  BY <1>1, <1>3, <1>4, SameStore DEF StepInv
<1>8. AnswerInv(q)'
  BY <1>4 DEF AnswerInv, IsSequence
<1>9. HeldInv(q)' /\ CompleteInv(q)'
  BY <1>4 DEF HeldInv, CompleteInv, Holding
<1> QED
  BY <1>5, <1>6, <1>7, <1>8, <1>9 DEF HandlerInv
-----------------------------------------------------------------------------
(* The invariant holds at the start, and each step keeps it.               *)

LEMMA InitInv == Init => Inv
<1> SUFFICES ASSUME Init
             PROVE  Inv
  OBVIOUS
<1>1. FilesInv
  BY FilesInitOK DEF Init
<1>2. StoreInv
  BY DEF Init, StoreInv, IsAvatarOf
<1>3. QueryTypeOK
  BY DEF Init, QueryTypeOK
<1>4. ASSUME NEW q \in Handler
      PROVE  HandlerInv(q)
  <2>1. /\ step[q] = "none" /\ outcome[q] = "none" /\ answer[q] = <<>>
        /\ DOMAIN answer[q] = {}
    BY DEF Init
  <2>2. IsSequence(answer[q])
    BY <2>1 DEF IsSequence
  <2> QED
    BY <2>1, <2>2 DEF HandlerInv, StepInv, HeldInv, Holding, AnswerInv, CompleteInv
<1>5. ASSUME NEW q \in Query
      PROVE  CallInv(q)
  BY InnerIs DEF Init, CallInv
<1> QED
  BY <1>1, <1>2, <1>3, <1>4, <1>5 DEF Inv

(* CallInv speaks of a caller and its inner call: it stays while neither   *)
(* does anything, ...                                                      *)
LEMMA CallRests ==
  ASSUME NEW q \in Query, CallInv(q), Untouched(q), Untouched(Inner(q))
  PROVE  CallInv(q)'
BY DEF CallInv, Untouched, NextChat

(* ... and while one of them goes on as any handler does.                  *)
LEMMA CallsOnHandle ==
  ASSUME NEW p \in Handler, OthersRest(p), UNCHANGED <<want, before>>,
         step[p] \in {"find", "files", "users", "avatars", "respond"},
         step'[p] \notin {"none", "recent"},
         NEW q \in Query, CallInv(q)
  PROVE  CallInv(q)'
<1>1. q \in Handler /\ Inner(q) \in Handler /\ q # Inner(q)
  BY InnerIs
<1>2. CASE p = q
  BY <1>1, <1>2 DEF CallInv, OthersRest, Untouched
<1>3. CASE p = Inner(q)
  <2>1. step[q] = "recent" /\ Untouched(q)
    BY <1>1, <1>3 DEF CallInv, OthersRest
  <2> QED
    BY <1>3, <2>1 DEF CallInv, Untouched, NextChat
<1>4. CASE p # q /\ p # Inner(q)
  BY <1>1, <1>4, CallRests DEF OthersRest
<1> QED
  BY <1>2, <1>3, <1>4

(* A step of a query that is not about its inner call.                     *)
LEMMA CallsOnQuery ==
  ASSUME NEW p \in Query, OthersRest(p), step[p] # "recent", step'[p] # "recent",
         NEW q \in Query, CallInv(q)
  PROVE  CallInv(q)'
<1>1. /\ q \in Handler /\ Inner(q) \in Handler /\ q # Inner(q) /\ p # Inner(q)
  BY InnerIs
<1>2. CASE p = q
  BY <1>1, <1>2 DEF CallInv, OthersRest, Untouched
<1>3. CASE p # q
  BY <1>1, <1>3, CallRests DEF OthersRest
<1> QED
  BY <1>2, <1>3

(* A step in which a query calls, or takes the answer.                     *)
LEMMA CallsOnInner ==
  ASSUME NEW p \in Query, \A r \in Handler : r # p /\ r # Inner(p) => Untouched(r),
         CallInv(p)',
         NEW q \in Query, CallInv(q)
  PROVE  CallInv(q)'
<1>1. CASE p # q
  <2>1. /\ q \in Handler /\ q # p /\ q # Inner(p)
        /\ Inner(q) \in Handler /\ Inner(q) # p /\ Inner(q) # Inner(p)
    BY <1>1, InnerIs
  <2>2. Untouched(q) /\ Untouched(Inner(q))
    BY <2>1
  <2> QED
    BY <2>2, CallRests
<1> QED
  BY <1>1

(* Files and messages are stored while no handler does anything.           *)
LEMMA WritersKeep ==
  ASSUME Inv, FilesInv', FilesGrow, StoreInv', Now \subseteq Now', UNCHANGED queryVars
  PROVE  Inv'
<1>1. ASSUME NEW q \in Handler
      PROVE  Untouched(q)
  BY DEF queryVars, handlerVars, Untouched
<1>2. QueryTypeOK'
  BY DEF Inv, QueryTypeOK, queryVars, handlerVars
<1>3. ASSUME NEW q \in Handler
      PROVE  HandlerInv(q)'
  BY <1>1, HandlerRests DEF Inv
<1>4. ASSUME NEW q \in Query
      PROVE  CallInv(q)'
  BY <1>1, InnerIs, CallRests DEF Inv
<1> QED
  BY <1>2, <1>3, <1>4 DEF Inv

(* A handler does something, and files and messages stay as they are.      *)
LEMMA ReadersKeep ==
  ASSUME Inv, UNCHANGED <<fileVars, storeVars>>, UNCHANGED faults \/ Fault,
         QueryTypeOK', \A q \in Query : CallInv(q)',
         \A q \in Handler : HandlerInv(q)' \/ Untouched(q)
  PROVE  Inv'
<1>1. FilesInv' /\ FilesGrow
  BY FilesRest DEF Inv
<1>2. StoreInv' /\ Now \subseteq Now'
  BY <1>1, StoreRests DEF Inv
<1>3. ASSUME NEW q \in Handler
      PROVE  HandlerInv(q)'
  BY <1>1, <1>2, HandlerRests DEF Inv
<1> QED
  BY <1>1, <1>2, <1>3 DEF Inv

LEMMA StepKeeps == Inv /\ [Next]_vars => Inv'
<1> SUFFICES ASSUME Inv, [Next]_vars
             PROVE  Inv'
  OBVIOUS
<1>0. /\ FilesInv /\ StoreInv /\ QueryTypeOK
      /\ \A q \in Handler : HandlerInv(q)
      /\ \A q \in Query : CallInv(q)
  BY DEF Inv
<1>1. CASE FileNext /\ UNCHANGED <<storeVars, queryVars>>
  <2>1. FilesInv' /\ FilesGrow
    BY <1>0, <1>1, FileStep
  <2>2. StoreInv' /\ Now \subseteq Now'
    BY <1>0, <1>1, <2>1, StoreRests
  <2> QED
    BY <1>1, <2>1, <2>2, WritersKeep
<1>2. ASSUME NEW m \in Message, AppendData(m) \/ Insert(m)
      PROVE  Inv'
  <2>1. UNCHANGED <<fileVars, faults, queryVars>>
    BY <1>2 DEF AppendData, Insert
  <2>2. FilesInv' /\ FilesGrow
    BY <1>0, <2>1, FilesRest
  <2>3. StoreInv' /\ Now \subseteq Now'
    BY <1>0, <1>2, AppendDataKeeps, InsertKeeps
  <2> QED
    BY <2>1, <2>2, <2>3, WritersKeep
<1>3. ASSUME NEW c \in DOMAIN AvatarOf, SetUserAvatar(c)
      PROVE  Inv'
  <2>1. UNCHANGED <<fileVars, faults, queryVars>>
    BY <1>3 DEF SetUserAvatar
  <2>2. FilesInv' /\ FilesGrow
    BY <1>0, <2>1, FilesRest
  <2>3. StoreInv' /\ Now \subseteq Now'
    BY <1>0, <1>3, SetUserAvatarKeeps
  <2> QED
    BY <2>1, <2>2, <2>3, WritersKeep
<1>4. ASSUME NEW q \in Query, NEW w \in Asked, Ask(q, w)
      PROVE  Inv'
  <2>1. QueryTypeOK' /\ HandlerInv(q)' /\ OthersRest(q) /\ q \in Handler
    BY <1>0, <1>4, AskKeeps, InnerIs
  <2>2. UNCHANGED <<fileVars, storeVars>> /\ UNCHANGED faults
    BY <1>4 DEF Ask
  <2>3. step[q] = "none" /\ step' = [step EXCEPT ![q] = "find"]
    BY <1>4 DEF Ask, Begin, Goto
  <2>4. step'[q] = "find"
    BY <1>0, <2>1, <2>3 DEF QueryTypeOK
  <2>5. ASSUME NEW p \in Query
        PROVE  CallInv(p)'
    BY <1>0, <2>1, <2>3, <2>4, CallsOnQuery
  <2> QED
    BY <2>1, <2>2, <2>5, ReadersKeep DEF OthersRest
<1>5. ASSUME NEW q \in Handler, Handle(q)
      PROVE  Inv'
  <2>1. /\ QueryTypeOK' /\ HandlerInv(q)' /\ OthersRest(q)
        /\ UNCHANGED <<fileVars, storeVars, want, before>>
        /\ UNCHANGED faults \/ Fault
        /\ step[q] \in {"find", "files", "users", "avatars", "respond"}
        /\ step'[q] \notin {"none", "recent"}
    BY <1>0, <1>5, HandleKeeps
  <2>2. ASSUME NEW p \in Query
        PROVE  CallInv(p)'
    BY <1>0, <2>1, CallsOnHandle
  <2> QED
    BY <2>1, <2>2, ReadersKeep DEF OthersRest
<1>6. ASSUME NEW q \in Query, ListChats(q)
      PROVE  Inv'
  <2>0. q \in Handler /\ Inner(q) \in Handler
    BY InnerIs
  <2>1. UNCHANGED <<fileVars, storeVars>> /\ (UNCHANGED faults \/ Fault)
    BY <1>6 DEF ListChats, ReadGroups, AskRecent, TakeRecent, AllChats
  <2>2. CASE ReadGroups(q) \/ AllChats(q)
    <3>1. QueryTypeOK' /\ HandlerInv(q)' /\ OthersRest(q)
      BY <1>0, <2>0, <2>2, ReadGroupsKeeps, AllChatsKeeps
    <3>2. \/ step[q] = "groups" /\ step' = [step EXCEPT ![q] = "chat"]
          \/ step[q] = "chat" /\ step' = [step EXCEPT ![q] = "end"]
      BY <2>2 DEF ReadGroups, AllChats, Respond, Goto
    <3>3. step[q] # "recent" /\ step'[q] # "recent"
      BY <1>0, <2>0, <3>2 DEF QueryTypeOK
    <3>4. ASSUME NEW p \in Query
          PROVE  CallInv(p)'
      BY <1>0, <3>1, <3>3, CallsOnQuery
    <3> QED
      BY <2>1, <3>1, <3>4, ReadersKeep DEF OthersRest
  <2>3. CASE AskRecent(q) \/ TakeRecent(q)
    <3>1. /\ QueryTypeOK' /\ HandlerInv(q)' /\ HandlerInv(Inner(q))' /\ CallInv(q)'
          /\ \A p \in Handler : p # q /\ p # Inner(q) => Untouched(p)
      BY <1>0, <2>0, <2>3, AskRecentKeeps, TakeRecentKeeps
    <3>2. ASSUME NEW p \in Query
          PROVE  CallInv(p)'
      BY <1>0, <3>1, CallsOnInner
    <3> QED
      BY <2>1, <3>1, <3>2, ReadersKeep
  <2> QED
    BY <1>6, <2>2, <2>3 DEF ListChats
<1>7. CASE UNCHANGED vars
  <2>1. UNCHANGED <<fileVars, faults, storeVars, queryVars>>
    BY <1>7 DEF vars
  <2>2. ASSUME NEW q \in Handler
        PROVE  Untouched(q)
    BY <2>1 DEF queryVars, handlerVars, Untouched
  <2>3. QueryTypeOK'
    BY <1>0, <2>1 DEF QueryTypeOK, queryVars, handlerVars
  <2>4. ASSUME NEW q \in Query
        PROVE  CallInv(q)'
    BY <1>0, <2>2, InnerIs, CallRests
  <2> QED
    BY <2>1, <2>2, <2>3, <2>4, ReadersKeep
<1> QED
  BY <1>1, <1>2, <1>3, <1>4, <1>5, <1>6, <1>7 DEF Next

LEMMA InvHolds == Spec => []Inv
BY InitInv, StepKeeps, PTL DEF Spec

-----------------------------------------------------------------------------
(* What the invariant says. *)

(* The types of every variable of the queries and of the file service, and *)
(* that a handler is through exactly when it has answered.                 *)
THEOREM QueriesTypeCorrect == Spec => []TypeOK
<1>1. Inv => TypeOK
  BY DEF Inv, FilesInv, StoreInv, QueryTypeOK, HandlerInv, StepInv, TypeOK
<1> QED
  BY <1>1, InvHolds, PTL

(* A put that has answered names files that are its own, in the order they *)
(* were uploaded in and with all of their data, whatever other puts,       *)
(* failed writes and deaths of the file service came in between - but for  *)
(* what close() lost.  (PutSingleFile, PutMultiFile, writeFile)            *)
THEOREM PutsAreWhole == Spec => []AnsweredFilesAreWhole
<1>1. ASSUME Inv
      PROVE  AnsweredFilesAreWhole
  <2> SUFFICES ASSUME NEW c \in Call, put[c] = "ok"
               PROVE  /\ Len(fileInfo[c]) = Size[c]
                      /\ \A n \in 1..Size[c] : fileInfo[c][n] \notin truncated =>
                           IsWritten(fileInfo[c][n], c, n)
    BY DEF AnsweredFilesAreWhole
  <2>1. PutInv(c) /\ files \in Seq(Content)
    BY <1>1 DEF Inv, FilesInv, FileTypeOK
  <2>2. Len(fileInfo[c]) = Size[c]
    BY <2>1 DEF PutInv
  <2>3. ASSUME NEW n \in 1..Size[c], fileInfo[c][n] \notin truncated
        PROVE  IsWritten(fileInfo[c][n], c, n)
    <3>1. IsFileOf(fileInfo[c][n], c, n) /\ files[fileInfo[c][n]].whole
      BY <2>1, <2>2, <2>3 DEF PutInv
    <3>2. files[fileInfo[c][n]] \in Content
      BY <2>1, <3>1 DEF IsFileOf
    <3> QED
      BY <3>1, <3>2 DEF IsFileOf, IsWritten, Content, Body
  <2> QED
    BY <2>2, <2>3
<1> QED
  BY <1>1, InvHolds, PTL

(* Every entry of every answer shows the message with the file put for it  *)
(* and the user with an avatar put for them, and every chat of a list a    *)
(* last message of its own, whatever is stored and whatever fails while    *)
(* the handlers run.  (GetHistoryMsg, GetRecentMsg, MsgSearch,             *)
(* GetMultiUserInfo, GetUserInfo, the lists of the friend service)         *)
THEOREM AnswersWhole == Spec => []AnswersAreWhole
<1>1. ASSUME Inv
      PROVE  AnswersAreWhole
  <2> SUFFICES ASSUME NEW q \in Handler, NEW k \in DOMAIN answer[q]
               PROVE  IsWhole(answer[q][k], before[q])
    BY DEF AnswersAreWhole, Entries, IsWhole
  <2> QED
    BY <1>1 DEF Inv, HandlerInv, AnswerInv
<1> QED
  BY <1>1, InvHolds, PTL

LEMMA AnsweredIsComplete ==
  ASSUME Inv, NEW q \in Handler, Answered(q)
  PROVE  want[q] \in Wanted /\ Complete(want[q], before[q], answer[q], Chat)
BY DEF Inv, HandlerInv, StepInv, CompleteInv, QueryTypeOK, Answered

(* A history has every message of its time that was stored when it was     *)
(* asked for, a list of users every user that was asked for, and a list of *)
(* chats every chat, unless a database read failed, and with each chat a   *)
(* last message, unless the call for that one failed.  (GetHistoryMsg,     *)
(* GetChatSessionList, GetMultiUserInfo, GetUserInfo)                      *)
THEOREM NothingOmitted == Spec => []NothingLeftOut
<1>1. ASSUME Inv
      PROVE  NothingLeftOut
  <2>1. ASSUME NEW q \in Handler, Answered(q)
        PROVE  LET w == want[q]
                   had == {m \in before[q] \cap Message : ChatOf[m] = w.chat} IN
               CASE w.kind = "history" ->
                      {m \in had : w.from <= Time[m] /\ Time[m] <= w.to} \subseteq Shown(q)
                 [] w.kind = "chats" ->
                      /\ {e.chat : e \in Entries(q)} = Chat
                      /\ \A e \in Entries(q), m \in before[q] \cap Message :
                           ChatOf[m] = e.chat => e.prev # <<>> \/ e.missed
                 [] w.kind \in {"people", "user"} -> {e.user : e \in Entries(q)} = w.who
                 [] OTHER -> TRUE
    <3> DEFINE w == want[q]
               list == answer[q]
    <3>1. Complete(w, before[q], list, Chat)
      BY <1>1, <2>1, AnsweredIsComplete
    <3>2. /\ {e.chat : e \in Entries(q)} = {list[k].chat : k \in DOMAIN list}
          /\ {e.user : e \in Entries(q)} = {list[k].user : k \in DOMAIN list}
          /\ \A k \in DOMAIN list : list[k].msg \in Shown(q)
      BY DEF Entries, Shown
    <3> HIDE DEF w, list
    <3>3. CASE w.kind = "history"
      <4>1. \A m \in before[q] \cap Message :
              ChatOf[m] = w.chat /\ w.from <= Time[m] /\ Time[m] <= w.to => m \in Shown(q)
        BY <3>1, <3>2, <3>3 DEF Complete
      <4> QED
        BY <3>3, <4>1 DEF w
    <3>4. CASE w.kind = "chats"
      <4>1. \A k \in DOMAIN list : ShowsLast(list[k], before[q])
        BY <1>1, <3>4 DEF Inv, HandlerInv, AnswerInv, w, list
      <4>2. \A e \in Entries(q) : ShowsLast(e, before[q])
        BY <4>1 DEF Entries, list
      <4> QED
        BY <3>1, <3>2, <3>4, <4>2 DEF Complete, ShowsLast, w
    <3>5. CASE w.kind \in {"people", "user"}
      BY <3>1, <3>2, <3>5 DEF Complete, w
    <3>6. CASE w.kind \notin {"history", "chats", "people", "user"}
      BY <3>6 DEF w
    <3> QED
      BY <3>3, <3>4, <3>5, <3>6
  <2> QED
    BY <2>1 DEF NothingLeftOut
<1> QED
  BY <1>1, InvHolds, PTL

(* Recent messages come oldest first; one that was stored when they were   *)
(* asked for is missing only if there are as many as were asked for, all   *)
(* at least as new - also of the calls GetChatSessionList makes.           *)
(* (GetRecentMsg)                                                          *)
THEOREM NewestShown == Spec => []RecentIsNewest
<1>1. ASSUME Inv
      PROVE  RecentIsNewest
  <2>1. ASSUME NEW q \in Handler, Answered(q), want[q].kind = "recent"
        PROVE  LET s == answer[q] IN
               /\ \A j, k \in DOMAIN s : j < k => Time[s[j].msg] <= Time[s[k].msg]
               /\ \A m \in before[q] \cap Message :
                    ChatOf[m] = want[q].chat /\ m \notin Shown(q) =>
                      /\ Len(s) = want[q].count
                      /\ \A k \in DOMAIN s : Time[m] <= Time[s[k].msg]
    <3>1. Complete(want[q], before[q], answer[q], Chat)
      BY <1>1, <2>1, AnsweredIsComplete
    <3>2. \A k \in DOMAIN answer[q] : answer[q][k].msg \in Shown(q)
      BY DEF Entries, Shown
    <3> QED
      BY <2>1, <3>1, <3>2 DEF Complete
  <2> QED
    BY <2>1 DEF RecentIsNewest
<1> QED
  BY <1>1, InvHolds, PTL
=============================================================================
