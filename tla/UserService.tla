---------------------------- MODULE UserService ----------------------------
(***************************************************************************)
(* The user service (src/code/server/user/source/user_server.hpp):         *)
(* registration, verification codes and the setters of a profile, over the *)
(* table of users, the index that friends are searched in, and the codes   *)
(* in Redis.                                                               *)
(*                                                                         *)
(* Handlers run concurrently; each method of the table is a transaction,   *)
(* each Redis command and each request to Elasticsearch atomic: one action *)
(* here.  A call stands for the ids and texts that come with it: the id of *)
(* the account it registers, of the code it sends, of the avatar it        *)
(* uploads; the description it gives.  Passwords never change.  Inputs     *)
(* are those that pass nickname_check, password_check and phone_check.     *)
(***************************************************************************)
EXTENDS Integers, FiniteSets

CONSTANTS
  Known,      \* accounts that are there from the start
  KnownPhone, \* their phone numbers, or None
  Nickname,   \* nicknames that users choose
  Phone,
  MaxCalls,   \* bound: the number of calls
  MaxFaults,  \* bound: requests to a store that fail, deaths of the service
  None

Call == 1..MaxCalls
Account == Known \cup Call

Registers == {"register", "phoneRegister"}
Setters == {"nickname", "phone", "description", "avatar"}
WithCode == {"phoneRegister", "phoneLogin", "phone"}

Row == [nickname : Nickname \cup Account, phone : Phone \cup {None},
        description : Account \cup {None}, avatar : Account \cup {None}]

(* A setter is named for the column it sets. *)
Requests ==
  [op : {"register", "nickname"}, uid : Known \cup {None}, value : Nickname, code : {None}]
    \cup [op : {"description", "avatar"}, uid : Known, value : {None}, code : {None}]
    \cup [op : {"getCode"}, uid : {None}, value : Phone, code : {None}]
    \cup [op : WithCode, uid : Known \cup {None}, value : Phone, code : Call]

ASSUME UserAssumption ==
  /\ MaxCalls \in Nat
  /\ MaxFaults \in Nat
  /\ Known \cap Call = {} /\ Nickname \cap Account = {}
  /\ KnownPhone \in [Known -> Phone \cup {None}]
  /\ \A u, v \in Known : u # v => (KnownPhone[u] # KnownPhone[v]) \/ (KnownPhone[u] = None)
  /\ None \notin Account \cup Nickname \cup Phone \cup Requests \cup Row

VARIABLES
  req,      \* call -> its request
  at,       \* call -> the request to a store its handler makes next, or the answer
  user,     \* call -> the row its handler has in hand
  rows,     \* the table of users: account -> row
  docs,     \* the index of users: account -> document
  codes,    \* the codes in Redis, by the call that sent them
  faults,
  tangled   \* ghost: accounts whose setters overlapped or whose calls failed

vars == <<req, at, user, rows, docs, codes, faults, tangled>>

Step ==
  {"none",                               \* not called yet
   "send", "store",                      \* GetPhoneVerifyCode
   "code", "removeCode",                 \* the check of a code
   "byNickname", "byPhone", "byId",      \* UserTable::select_by_...
   "upload",                             \* SetUserAvatar
   "insert", "update", "index",
   "ok", "failed"}                       \* answered

Called(c) == at[c] # "none"
InProgress(c) == at[c] \notin {"none", "ok", "failed"}
Uid(c) == IF req[c].op \in Setters THEN req[c].uid ELSE c

(* The accounts that are there: each with a nickname of its own. *)
KnownRow(u) ==
  [nickname |-> u, phone |-> KnownPhone[u], description |-> None, avatar |-> None]

Init ==
  /\ req = [c \in Call |-> None]
  /\ at = [c \in Call |-> "none"]
  /\ user = [c \in Call |-> None]
  /\ rows = [u \in Account |-> IF u \in Known THEN KnownRow(u) ELSE None]
  /\ docs = rows
  /\ codes = {}
  /\ faults = 0
  /\ tangled = {}

-----------------------------------------------------------------------------
Goto(c, s) == at' = [at EXCEPT ![c] = s]

Fault(c) ==
  /\ faults < MaxFaults
  /\ faults' = faults + 1
  /\ tangled' = tangled \cup {Uid(c)}

NoFault == UNCHANGED <<faults, tangled>>

Fails(c) == Fault(c) /\ Goto(c, "failed")

(* No other account has the nickname or the phone of the row: both columns *)
(* have a unique index.                                                    *)
Unique(u, row) ==
  \A v \in Account \ {u} : rows[v] # None =>
    /\ rows[v].nickname # row.nickname
    /\ (rows[v].phone # row.phone) \/ (row.phone = None)

First(op) ==
  CASE op = "register" -> "byNickname"
    [] op = "phoneRegister" -> "code"
    [] op = "getCode" -> "send"
    [] op = "phoneLogin" -> "byPhone"
    [] op = "phone" -> "code"
    [] OTHER -> "byId"

(* A request arrives, numbered in the order of arrival.  Only setters are  *)
(* about an account that is there already; a code is one that was asked    *)
(* for before, or c, which stands for one that never was.                  *)
Start(c, r) ==
  /\ ~Called(c)
  /\ \A d \in Call : d < c => Called(d)
  /\ (r.uid # None) <=> (r.op \in Setters)
  /\ r.code \in 1..c \cup {None}
  /\ req' = [req EXCEPT ![c] = r]
  /\ Goto(c, First(r.op))
  /\ tangled' = tangled \cup {Uid(d) : d \in {d \in Call : InProgress(d) /\ Uid(d) = r.uid}}
  /\ UNCHANGED <<user, rows, docs, codes, faults>>

(* GetPhoneVerifyCode: the message goes out first ... *)
SendCode(c) ==
  /\ at[c] = "send"
  /\ \/ Goto(c, "store") /\ NoFault
     \/ Fails(c)
  /\ UNCHANGED <<req, user, rows, docs, codes>>

(* ... and then the code is put into Redis ... *)
AppendCode(c) ==
  /\ at[c] = "store"
  /\ codes' = codes \cup {c}
  /\ Goto(c, "ok")
  /\ UNCHANGED <<req, user, rows, docs, faults, tangled>>

(* ... where it lives for 300 seconds. *)
ExpireCode ==
  /\ \E c \in codes : codes' = codes \ {c}
  /\ UNCHANGED <<req, at, user, rows, docs, faults, tangled>>

AfterCode(op) ==
  CASE op = "phoneRegister" -> "byPhone"
    [] op = "phoneLogin" -> "removeCode"
    [] op = "phone" -> "byId"

(* Mutant of CheckCode: a code that is gone will do. *)
CheckNoCode(c) ==
  /\ at[c] = "code"
  /\ Goto(c, AfterCode(req[c].op))
  /\ UNCHANGED <<req, user, rows, docs, codes, faults, tangled>>

(* The code the client sends is that of its id: codes->code(code_id) *)
CheckCode(c) ==
  /\ at[c] = "code"
  /\ Goto(c, IF req[c].code \in codes THEN AfterCode(req[c].op) ELSE "failed")
  /\ UNCHANGED <<req, user, rows, docs, codes, faults, tangled>>

(* Mutant of RemoveCode. *)
RemoveNoCode(c) ==
  /\ at[c] = "removeCode"
  /\ Goto(c, "ok")
  /\ UNCHANGED <<req, user, rows, docs, codes, faults, tangled>>

(* PhoneLogin uses up the code.  What follows is as in UserLogin (module   *)
(* LoginSession), which may refuse the user still.                         *)
RemoveCode(c) ==
  /\ at[c] = "removeCode"
  /\ codes' = codes \ {req[c].code}
  /\ \E answer \in {"ok", "failed"} : Goto(c, answer)
  /\ UNCHANGED <<req, user, rows, docs, faults, tangled>>

(* Is there an account with this nickname, or phone?  A query that fails   *)
(* finds none.                                                             *)
Taken(c) ==
  \E u \in Account :
    /\ rows[u] # None
    /\ req[c].value = IF req[c].op = "register" THEN rows[u].nickname ELSE rows[u].phone

(* The row a registration is about to insert. *)
NewRow(c) ==
  [nickname |-> IF req[c].op = "register" THEN req[c].value ELSE c,
   phone |-> IF req[c].op = "register" THEN None ELSE req[c].value,
   description |-> None, avatar |-> None]

(* UserRegister, step 4, and PhoneRegister, step 4 *)
SelectFree(c) ==
  /\ at[c] \in {"byNickname", "byPhone"} /\ req[c].op \in Registers
  /\ \/ Taken(c) /\ Goto(c, "failed") /\ NoFault /\ UNCHANGED user
     \/ /\ \/ ~Taken(c) /\ NoFault
           \/ Fault(c)
        /\ Goto(c, "insert")
        /\ user' = [user EXCEPT ![c] = NewRow(c)]
  /\ UNCHANGED <<req, rows, docs, codes>>

(* PhoneLogin, step 3 *)
SelectByPhone(c) ==
  /\ at[c] = "byPhone" /\ req[c].op = "phoneLogin"
  /\ \/ Goto(c, IF Taken(c) THEN "code" ELSE "failed") /\ NoFault
     \/ Fails(c)
  /\ UNCHANGED <<req, user, rows, docs, codes>>

(* Step 5 of both *)
Insert(c) ==
  /\ at[c] = "insert"
  /\ LET stored == [rows EXCEPT ![c] = user[c]] IN
       \/ /\ Unique(c, user[c])
          /\ \/ rows' = stored /\ Goto(c, "index") /\ NoFault
             \/ rows' \in {rows, stored} /\ Fails(c)
       \/ /\ ~Unique(c, user[c])
          /\ Goto(c, "failed") /\ NoFault /\ UNCHANGED rows
  /\ UNCHANGED <<req, user, docs, codes>>

(* What a setter writes. *)
Value(c) == IF req[c].op \in {"nickname", "phone"} THEN req[c].value ELSE c

(* Mutant of SelectById: a new row with the one column. *)
SelectNothing(c) ==
  /\ at[c] = "byId"
  /\ user' = [user EXCEPT ![c] = [KnownRow(Uid(c)) EXCEPT ![req[c].op] = Value(c)]]
  /\ Goto(c, IF req[c].op = "avatar" THEN "upload" ELSE "update")
  /\ UNCHANGED <<req, rows, docs, codes, faults, tangled>>

(* The setters: the row is read, and the one column changed in memory. *)
SelectById(c) ==
  /\ at[c] = "byId"
  /\ \/ /\ user' = [user EXCEPT ![c] = [rows[Uid(c)] EXCEPT ![req[c].op] = Value(c)]]
        /\ Goto(c, IF req[c].op = "avatar" THEN "upload" ELSE "update")
        /\ NoFault
     \/ Fails(c) /\ UNCHANGED user
  /\ UNCHANGED <<req, rows, docs, codes>>

(* SetUserAvatar, step 3: the file service stores the picture. *)
Upload(c) ==
  /\ at[c] = "upload"
  /\ \/ Goto(c, "update") /\ NoFault
     \/ Fails(c)
  /\ UNCHANGED <<req, user, rows, docs, codes>>

(* Step 4 of the setters: all columns are written back. *)
Update(c) ==
  /\ at[c] = "update"
  /\ LET stored == [rows EXCEPT ![Uid(c)] = user[c]] IN
       \/ /\ Unique(Uid(c), user[c])
          /\ \/ rows' = stored /\ Goto(c, "index") /\ NoFault
             \/ rows' \in {rows, stored} /\ Fails(c)
       \/ /\ ~Unique(Uid(c), user[c])
          /\ Goto(c, "failed") /\ NoFault /\ UNCHANGED rows
  /\ UNCHANGED <<req, user, docs, codes>>

(* Mutant of AppendData: what it returns is not looked at. *)
AppendDataUnchecked(c) ==
  /\ at[c] = "index"
  /\ \/ docs' = [docs EXCEPT ![Uid(c)] = user[c]] /\ NoFault
     \/ UNCHANGED docs /\ Fault(c)
  /\ Goto(c, "ok")
  /\ UNCHANGED <<req, user, rows, codes>>

(* The last step of registrations and setters: the whole document is put   *)
(* into the index, under the id of the account.                            *)
AppendData(c) ==
  /\ at[c] = "index"
  /\ LET put == [docs EXCEPT ![Uid(c)] = user[c]] IN
       \/ docs' = put /\ Goto(c, "ok") /\ NoFault
       \/ docs' \in {docs, put} /\ Fails(c)
  /\ UNCHANGED <<req, user, rows, codes>>

(* The service dies, of an exception that Redis threw for instance, and    *)
(* the calls it was serving fail.                                          *)
ServiceDies ==
  /\ \E c \in Call : InProgress(c)
  /\ faults < MaxFaults
  /\ faults' = faults + 1
  /\ at' = [d \in Call |-> IF InProgress(d) THEN "failed" ELSE at[d]]
  /\ tangled' = tangled \cup {Uid(d) : d \in {d \in Call : InProgress(d)}}
  /\ UNCHANGED <<req, user, rows, docs, codes>>

GetPhoneVerifyCode(c) == SendCode(c) \/ AppendCode(c)
Verify(c) == CheckCode(c) \/ RemoveCode(c)
Register(c) == SelectFree(c) \/ SelectByPhone(c) \/ Insert(c)
SetUser(c) == SelectById(c) \/ Upload(c) \/ Update(c)

Next ==
  \/ \E c \in Call, r \in Requests : Start(c, r)
  \/ \E c \in Call : GetPhoneVerifyCode(c)
  \/ \E c \in Call : Verify(c)
  \/ \E c \in Call : Register(c)
  \/ \E c \in Call : SetUser(c)
  \/ \E c \in Call : AppendData(c)
  \/ ExpireCode
  \/ ServiceDies

Spec == Init /\ [][Next]_vars

-----------------------------------------------------------------------------
TypeOK ==
  /\ req \in [Call -> Requests \cup {None}]
  /\ at \in [Call -> Step]
  /\ user \in [Call -> Row \cup {None}]
  /\ rows \in [Account -> Row \cup {None}]
  /\ docs \in [Account -> Row \cup {None}]
  /\ codes \subseteq Call
  /\ faults \in 0..MaxFaults
  /\ tangled \subseteq Account

(* Who was told to be registered can be found, even if the service died or *)
(* a store failed for others; and who can be found is in the table, so     *)
(* that GetMultiUserInfo, which looks up what a search found, does not     *)
(* fail.  (UserRegister, PhoneRegister)                                    *)
IndexFollowsTable ==
  /\ \A c \in Call : at[c] = "ok" /\ req[c].op \in Registers => docs[c] # None
  /\ \A u \in Account : docs[u] # None => rows[u] # None

(* Once the setters of an account have been answered, and if they came one *)
(* after another and none failed, each column has the latest value it was  *)
(* given, setters of one column undo no other, and the index agrees with   *)
(* the table - whatever goes on with other accounts, even if it wants the  *)
(* same nickname or phone.  (SetUserNickname, SetUserDescription,          *)
(* SetUserAvatar, SetUserPhoneNumber)                                      *)
Quiet(u) ==
  /\ u \notin tangled
  /\ \A c \in Call : InProgress(c) => Uid(c) # u

Latest(c) ==
  at[c] = "ok" /\ \A d \in Call : d > c /\ at[d] = "ok" /\ req[d].op = req[c].op => Uid(d) # Uid(c)

ChangesAreKept ==
  \A u \in Known : Quiet(u) =>
    /\ docs[u] = rows[u]
    /\ \A c \in Call : Called(c) /\ Uid(c) = u /\ req[c].op \in Setters /\ Latest(c) =>
         rows[u][req[c].op] = Value(c)

(* A phone number that is new in the table was put there by a call that    *)
(* came with the code of an earlier call, which had sent and stored one -  *)
(* to some phone: Codes keeps a code under its own id and not the phone it *)
(* went to, so the code of one's own phone opens any other.                *)
(* (PhoneRegister, SetUserPhoneNumber)                                     *)
PhoneCameWithCode ==
  \A u \in Account : rows[u] # None /\ rows[u].phone # None =>
    \/ u \in Known /\ rows[u].phone = KnownPhone[u]
    \/ \E c, d \in Call :
         /\ Called(c) /\ Uid(c) = u /\ req[c].value = rows[u].phone
         /\ req[c].code = d /\ d < c
         /\ at[d] = "ok" /\ req[d].op = "getCode"

(* The code of a login that was answered opens nothing more: no call gets  *)
(* past the check with it.  (PhoneLogin, which removes it)                 *)
UsedCodesOpenNothing ==
  [][\A c, d \in Call :
       at[d] = "ok" /\ req[d].op = "phoneLogin" /\ at[c] = "code" /\ req[c].code = req[d].code
         => at'[c] \in {"code", "failed"}]_vars
=============================================================================
