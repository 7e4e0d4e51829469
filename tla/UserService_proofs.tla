------------------------ MODULE UserService_proofs -------------------------
(***************************************************************************)
(* Proofs about UserService, for any accounts, nicknames and phones and    *)
(* any numbers of calls and faults.                                        *)
(***************************************************************************)
EXTENDS UserService, TLAPS

-----------------------------------------------------------------------------
(* The step of a handler fits the request it works on, and a handler that  *)
(* writes has a row in hand.                                               *)
StepFits(c) ==
  /\ req[c] \in Requests
  /\ (req[c].uid # None) <=> (req[c].op \in Setters)
  /\ req[c].code \in 1..c \cup {None}
  /\ at[c] \in {"send", "store"} => req[c].op = "getCode"
  /\ at[c] = "code" => req[c].op \in WithCode
  /\ at[c] = "removeCode" => req[c].op = "phoneLogin"
  /\ at[c] = "byNickname" => req[c].op = "register"
  /\ at[c] = "byPhone" => req[c].op \in {"phoneRegister", "phoneLogin"}
  /\ at[c] \in {"byId", "update"} => req[c].op \in Setters
  /\ at[c] = "upload" => req[c].op = "avatar"
  /\ at[c] = "insert" => req[c].op \in Registers
  /\ at[c] = "index" => req[c].op \in Registers \cup Setters
  /\ at[c] \in {"insert", "upload", "update", "index"} => user[c] \in Row

TypeInv == TypeOK /\ \A c \in Call : Called(c) => StepFits(c)

LEMMA CallFacts == \A c \in Call : c \in Nat /\ c # 0 /\ c \in Account /\ c # None
  BY UserAssumption DEF Call, Account

LEMMA KnownRowIsRow == \A u \in Known : KnownRow(u) \in Row
  BY UserAssumption DEF KnownRow, Row, Account

LEMMA TypeInit == Init => TypeInv
<1> SUFFICES ASSUME Init PROVE TypeInv
  OBVIOUS
<1>1. rows \in [Account -> Row \cup {None}]
  BY KnownRowIsRow DEF Init
<1> QED
  BY <1>1, UserAssumption DEF Init, TypeInv, TypeOK, Called, Step

(* What a request is made of. *)
LEMMA RequestFacts ==
  ASSUME NEW r \in Requests, (r.uid # None) <=> (r.op \in Setters)
  PROVE  /\ r.op \in Registers \cup Setters \cup {"getCode", "phoneLogin"}
         /\ r.op \in Setters => r.uid \in Known
         /\ r.op \in {"register", "nickname"} => r.value \in Nickname
         /\ r.op \in WithCode => r.value \in Phone /\ r.code \in Call
         /\ r.op \in {"description", "avatar"} => r.uid \in Known
  BY UserAssumption DEF Requests, Registers, Setters, WithCode

LEMMA UidIsAccount ==
  ASSUME TypeInv, NEW c \in Call, Called(c)
  PROVE  Uid(c) \in Account /\ (req[c].op \in Setters => Uid(c) \in Known)
  BY RequestFacts, CallFacts DEF TypeInv, StepFits, Uid, Account

LEMMA InProgressIsCalled == \A c \in Call : InProgress(c) => Called(c)
  BY DEF InProgress, Called

LEMMA FaultTypes ==
  ASSUME TypeInv, NEW c \in Call, Called(c), Fault(c) \/ NoFault
  PROVE  faults' \in 0..MaxFaults /\ tangled' \subseteq Account
  BY UidIsAccount, UserAssumption DEF TypeInv, TypeOK, Fault, NoFault

LEMMA NewRowIsRow ==
  ASSUME TypeInv, NEW c \in Call, Called(c), req[c].op \in Registers
  PROVE  NewRow(c) \in Row
<1>1. /\ req[c].op = "register" => req[c].value \in Nickname
      /\ req[c].op # "register" => req[c].value \in Phone
  BY RequestFacts DEF TypeInv, StepFits, Registers, WithCode
<1> QED
  BY <1>1, CallFacts DEF NewRow, Row

(* The row a setter is about to write: one column changed. *)
LEMMA SetColumn ==
  ASSUME TypeInv, NEW c \in Call, Called(c), req[c].op \in Setters, NEW row \in Row
  PROVE  /\ [row EXCEPT ![req[c].op] = Value(c)] \in Row
         /\ [row EXCEPT ![req[c].op] = Value(c)].phone =
              IF req[c].op = "phone" THEN req[c].value ELSE row.phone
<1>1. CASE req[c].op = "nickname"
  BY <1>1, RequestFacts DEF TypeInv, StepFits, Value, Row, Setters
<1>2. CASE req[c].op = "phone"
  BY <1>2, RequestFacts DEF TypeInv, StepFits, Value, Row, Setters, WithCode
<1>3. CASE req[c].op = "description"
  BY <1>3, CallFacts DEF Value, Row
<1>4. CASE req[c].op = "avatar"
  BY <1>4, CallFacts DEF Value, Row
<1> QED
  BY <1>1, <1>2, <1>3, <1>4 DEF Setters

-----------------------------------------------------------------------------
(* A step of one call leaves the others as they fit. *)
LEMMA OthersFit ==
  ASSUME TypeInv, NEW c \in Call, StepFits(c)',
         \A d \in Call \ {c} : req'[d] = req[d] /\ at'[d] = at[d] /\ user'[d] = user[d]
  PROVE  \A d \in Call : Called(d)' => StepFits(d)'
  BY DEF TypeInv, Called, StepFits

LEMMA StartTypes ==
  ASSUME TypeInv, NEW c \in Call, NEW r \in Requests, Start(c, r)
  PROVE  TypeInv'
<1>1. req' \in [Call -> Requests \cup {None}] /\ at' \in [Call -> Step]
  BY RequestFacts DEF Start, Goto, First, TypeInv, TypeOK, Step, Registers, Setters
<1>2. tangled' \subseteq Account
  BY UidIsAccount, InProgressIsCalled DEF Start, TypeInv, TypeOK
<1>3. StepFits(c)'
  <2>1. req'[c] = r /\ at'[c] = First(r.op)
    BY DEF Start, Goto, TypeInv, TypeOK
  <2>2. r.op \in Registers \cup Setters \cup {"getCode", "phoneLogin"}
    BY RequestFacts DEF Start
  <2> QED
    BY <2>1, <2>2 DEF StepFits, Start, First, Registers, Setters, WithCode
<1>4. \A d \in Call : Called(d)' => StepFits(d)'
  BY <1>3, OthersFit DEF Start, Goto, TypeInv, TypeOK
<1> QED
  BY <1>1, <1>2, <1>4 DEF Start, TypeInv, TypeOK

(* The steps that touch neither rows nor documents. *)
LEMMA CodeTypes ==
  ASSUME TypeInv, NEW c \in Call, GetPhoneVerifyCode(c) \/ Verify(c)
  PROVE  TypeInv'
<1>1. Called(c) /\ StepFits(c)
  BY DEF GetPhoneVerifyCode, SendCode, AppendCode, Verify, CheckCode, RemoveCode, Called, TypeInv
<1>2. faults' \in 0..MaxFaults /\ tangled' \subseteq Account
  BY <1>1, FaultTypes
  DEF GetPhoneVerifyCode, SendCode, AppendCode, Verify, CheckCode, RemoveCode, Fails, NoFault
<1>3. codes' \subseteq Call
  BY DEF GetPhoneVerifyCode, SendCode, AppendCode, Verify, CheckCode, RemoveCode, TypeInv, TypeOK
<1>4. /\ \E s \in Step : at' = [at EXCEPT ![c] = s]
      /\ UNCHANGED <<req, user, rows, docs>>
  BY <1>1
  DEF GetPhoneVerifyCode, SendCode, AppendCode, Verify, CheckCode, RemoveCode, Fails, Goto, Step,
      AfterCode, StepFits, WithCode
<1>5. StepFits(c)'
  BY <1>1
  DEF GetPhoneVerifyCode, SendCode, AppendCode, Verify, CheckCode, RemoveCode, Fails, Goto,
      AfterCode, StepFits, WithCode, Setters, TypeInv, TypeOK
<1>6. \A d \in Call : Called(d)' => StepFits(d)'
  BY <1>4, <1>5, OthersFit DEF TypeInv, TypeOK
<1> QED
  BY <1>2, <1>3, <1>4, <1>6 DEF TypeInv, TypeOK

LEMMA SelectFreeTypes ==
  ASSUME TypeInv, NEW c \in Call, SelectFree(c)
  PROVE  TypeInv'
<1>1. Called(c) /\ StepFits(c) /\ NewRow(c) \in Row
  BY NewRowIsRow DEF SelectFree, Called, TypeInv
<1>2. faults' \in 0..MaxFaults /\ tangled' \subseteq Account
  BY <1>1, FaultTypes DEF SelectFree
<1>3. \/ at' = [at EXCEPT ![c] = "failed"] /\ user' = user
      \/ at' = [at EXCEPT ![c] = "insert"] /\ user' = [user EXCEPT ![c] = NewRow(c)]
  BY DEF SelectFree, Goto
<1>4. StepFits(c)'
  BY <1>1, <1>3 DEF SelectFree, StepFits, TypeInv, TypeOK
<1>5. \A d \in Call : Called(d)' => StepFits(d)'
  BY <1>3, <1>4, OthersFit DEF SelectFree, TypeInv, TypeOK
<1>6. at' \in [Call -> Step] /\ user' \in [Call -> Row \cup {None}]
  BY <1>1, <1>3 DEF TypeInv, TypeOK, Step
<1> QED
  BY <1>2, <1>5, <1>6 DEF SelectFree, TypeInv, TypeOK

(* The steps that write nothing but the answer or the next step. *)
LEMMA SkipTypes ==
  ASSUME TypeInv, NEW c \in Call, SelectByPhone(c) \/ Upload(c)
  PROVE  TypeInv'
<1>1. Called(c) /\ StepFits(c)
  BY DEF SelectByPhone, Upload, Called, TypeInv
<1>2. faults' \in 0..MaxFaults /\ tangled' \subseteq Account
  BY <1>1, FaultTypes DEF SelectByPhone, Upload, Fails
<1>3. /\ \E s \in Step : at' = [at EXCEPT ![c] = s]
      /\ UNCHANGED <<req, user, rows, docs, codes>>
  BY DEF SelectByPhone, Upload, Fails, Goto, Step
<1>4. StepFits(c)'
  BY <1>1 DEF SelectByPhone, Upload, Fails, Goto, StepFits, WithCode, Setters, TypeInv, TypeOK
<1>5. \A d \in Call : Called(d)' => StepFits(d)'
  BY <1>3, <1>4, OthersFit DEF TypeInv, TypeOK
<1> QED
  BY <1>2, <1>3, <1>5 DEF TypeInv, TypeOK

LEMMA SelectByIdTypes ==
  ASSUME TypeInv, NEW c \in Call, SelectById(c), rows[Uid(c)] \in Row
  PROVE  TypeInv'
<1> DEFINE new == [rows[Uid(c)] EXCEPT ![req[c].op] = Value(c)]
<1>1. Called(c) /\ StepFits(c) /\ req[c].op \in Setters
  BY DEF SelectById, Called, TypeInv, StepFits
<1>2. new \in Row
  BY <1>1, SetColumn
<1>3. faults' \in 0..MaxFaults /\ tangled' \subseteq Account
  BY <1>1, FaultTypes DEF SelectById, Fails
<1>4. \/ at' = [at EXCEPT ![c] = "failed"] /\ user' = user
      \/ /\ at' = [at EXCEPT ![c] = IF req[c].op = "avatar" THEN "upload" ELSE "update"]
         /\ user' = [user EXCEPT ![c] = new]
  BY DEF SelectById, Goto, Fails
<1> HIDE DEF new
<1>5. StepFits(c)'
  BY <1>1, <1>2, <1>4 DEF SelectById, StepFits, TypeInv, TypeOK
<1>6. \A d \in Call : Called(d)' => StepFits(d)'
  BY <1>4, <1>5, OthersFit DEF SelectById, TypeInv, TypeOK
<1>7. at' \in [Call -> Step] /\ user' \in [Call -> Row \cup {None}]
  BY <1>2, <1>4 DEF TypeInv, TypeOK, Step
<1> QED
  BY <1>3, <1>6, <1>7 DEF SelectById, TypeInv, TypeOK

(* The steps that write a row or a document. *)
LEMMA WriteTypes ==
  ASSUME TypeInv, NEW c \in Call, Insert(c) \/ Update(c) \/ AppendData(c)
  PROVE  TypeInv'
<1>1. Called(c) /\ StepFits(c) /\ user[c] \in Row
  BY DEF Insert, Update, AppendData, Called, TypeInv, StepFits
<1>2. c \in Account /\ Uid(c) \in Account
  BY <1>1, CallFacts, UidIsAccount
<1>3. faults' \in 0..MaxFaults /\ tangled' \subseteq Account
  BY <1>1, FaultTypes DEF Insert, Update, AppendData, Fails
<1>4. rows' \in [Account -> Row \cup {None}] /\ docs' \in [Account -> Row \cup {None}]
  BY <1>1, <1>2 DEF Insert, Update, AppendData, TypeInv, TypeOK
<1>5. /\ \E s \in Step : at' = [at EXCEPT ![c] = s]
      /\ UNCHANGED <<req, user, codes>>
  BY DEF Insert, Update, AppendData, Fails, Goto, Step
<1>6. StepFits(c)'
  BY <1>1 DEF Insert, Update, AppendData, Fails, Goto, StepFits, TypeInv, TypeOK
<1>7. \A d \in Call : Called(d)' => StepFits(d)'
  BY <1>5, <1>6, OthersFit DEF TypeInv, TypeOK
<1> QED
  BY <1>3, <1>4, <1>5, <1>7 DEF TypeInv, TypeOK

LEMMA DeathTypes ==
  ASSUME TypeInv, ServiceDies
  PROVE  TypeInv'
<1>1. at' \in [Call -> Step] /\ faults' \in 0..MaxFaults
  BY UserAssumption DEF ServiceDies, TypeInv, TypeOK, Step
<1>2. tangled' \subseteq Account
  BY UidIsAccount, InProgressIsCalled DEF ServiceDies, TypeInv, TypeOK
<1>3. ASSUME NEW d \in Call, Called(d)' PROVE StepFits(d)'
  <2>1. Called(d) /\ at'[d] \in {at[d], "failed"}
    BY <1>3, InProgressIsCalled DEF ServiceDies, Called
  <2> QED
    BY <2>1 DEF ServiceDies, TypeInv, StepFits
<1> QED
  BY <1>1, <1>2, <1>3 DEF ServiceDies, TypeInv, TypeOK

-----------------------------------------------------------------------------
(* The table comes before the index: the account a setter is about is      *)
(* there, and who is about to be put into the index is in the table.       *)
IndexInv ==
  /\ \A u \in Known : rows[u] # None
  /\ \A c \in Call : at[c] = "index" => rows[Uid(c)] # None
  /\ IndexFollowsTable

StoreInv == TypeInv /\ IndexInv

LEMMA StoreInit == Init => StoreInv
<1> SUFFICES ASSUME Init PROVE IndexInv
  BY TypeInit DEF StoreInv
<1>1. \A u \in Known : rows[u] = KnownRow(u) /\ u \in Account
  BY DEF Init, Account
<1>2. \A u \in Known : rows[u] # None
  BY <1>1, KnownRowIsRow, UserAssumption
<1> QED
  BY <1>2 DEF Init, IndexInv, IndexFollowsTable

(* Requests and answers do not change, and no row or document goes. *)
Kept ==
  /\ \A c \in Call : Called(c) => Called(c)' /\ req'[c] = req[c]
  /\ \A c \in Call : at[c] \in {"ok", "failed"} => at'[c] = at[c]
  /\ \A u \in Account : rows[u] # None => rows'[u] # None
  /\ \A u \in Account : docs[u] # None => docs'[u] # None

LEMMA NothingGoes ==
  ASSUME StoreInv, [Next]_vars
  PROVE  Kept
<1>1. TypeInv /\ None \notin Row
  BY UserAssumption DEF StoreInv
<1>2. ASSUME NEW c \in Call, NEW r \in Requests, Start(c, r) PROVE Kept
  BY <1>1, <1>2 DEF Start, Goto, TypeInv, TypeOK, Called, Kept, First
<1>3. ASSUME NEW c \in Call, GetPhoneVerifyCode(c) \/ Verify(c) PROVE Kept
  BY <1>1, <1>3
  DEF GetPhoneVerifyCode, SendCode, AppendCode, Verify, CheckCode, RemoveCode, Fails, Goto,
      AfterCode, TypeInv, TypeOK, StepFits, WithCode, Called, Kept
<1>4. ASSUME NEW c \in Call, SelectFree(c) \/ SelectByPhone(c) \/ SelectById(c) \/ Upload(c)
      PROVE  Kept
  BY <1>1, <1>4
  DEF SelectFree, SelectByPhone, SelectById, Upload, Fails, Goto, TypeInv, TypeOK, Called, Kept
<1>5. ASSUME NEW c \in Call, Insert(c) \/ Update(c) \/ AppendData(c) PROVE Kept
  <2>1. user[c] \in Row
    BY <1>1, <1>5 DEF Insert, Update, AppendData, TypeInv, StepFits, Called
  <2> QED
    BY <1>1, <1>5, <2>1 DEF Insert, Update, AppendData, Fails, Goto, TypeInv, TypeOK, Called, Kept
<1>6. CASE ExpireCode
  BY <1>6 DEF ExpireCode, Called, Kept
<1>7. CASE ServiceDies
  BY <1>1, <1>7 DEF ServiceDies, InProgress, TypeInv, TypeOK, Called, Kept
<1>8. CASE UNCHANGED vars
  BY <1>8 DEF vars, Called, Kept
<1> QED
  BY <1>2, <1>3, <1>4, <1>5, <1>6, <1>7, <1>8 DEF Next, Register, SetUser

LEMMA TypeStep ==
  ASSUME StoreInv, [Next]_vars
  PROVE  TypeInv'
<1>1. TypeInv
  BY DEF StoreInv
<1>2. ASSUME NEW c \in Call, SelectById(c) PROVE TypeInv'
  <2>1. Called(c) /\ req[c].op \in Setters
    BY <1>1, <1>2 DEF SelectById, Called, TypeInv, StepFits
  <2>2. rows[Uid(c)] \in Row
    BY <1>1, <2>1, UidIsAccount DEF StoreInv, IndexInv, TypeInv, TypeOK
  <2> QED
    BY <1>1, <1>2, <2>2, SelectByIdTypes
<1>3. CASE ExpireCode
  BY <1>1, <1>3 DEF ExpireCode, TypeInv, TypeOK, Called, StepFits
<1>4. CASE UNCHANGED vars
  BY <1>1, <1>4 DEF vars, TypeInv, TypeOK, Called, StepFits
<1> QED
  BY <1>1, <1>2, <1>3, <1>4, StartTypes, CodeTypes, SelectFreeTypes, SkipTypes, WriteTypes,
     DeathTypes
  DEF Next, Register, SetUser

LEMMA UidStays ==
  ASSUME StoreInv, [Next]_vars, NEW c \in Call, Called(c)
  PROVE  Uid(c)' = Uid(c)
  BY NothingGoes DEF Kept, Uid

(* Who comes to the index step, who is answered after a registration, and  *)
(* where a new document is from.                                           *)
Arrivals ==
  /\ \A c \in Call : at'[c] = "index" =>
       at[c] = "index" \/ (Called(c) /\ rows'[Uid(c)] # None)
  /\ \A c \in Call : at'[c] = "ok" /\ req'[c].op \in Registers =>
       at[c] = "ok" \/ (at[c] = "index" /\ docs'[c] # None)
  /\ \A u \in Account : docs'[u] # None =>
       docs[u] # None \/ (\E c \in Call : at[c] = "index" /\ Uid(c) = u)

LEMMA ArrivalsOfStep ==
  ASSUME StoreInv, [Next]_vars
  PROVE  Arrivals
<1>1. TypeInv /\ None \notin Row
  BY UserAssumption DEF StoreInv
<1>2. ASSUME NEW c \in Call, NEW r \in Requests, Start(c, r) PROVE Arrivals
  BY <1>1, <1>2 DEF Start, Goto, First, TypeInv, TypeOK, Called, Arrivals
<1>3. ASSUME NEW c \in Call, GetPhoneVerifyCode(c) \/ Verify(c) PROVE Arrivals
  BY <1>1, <1>3
  DEF GetPhoneVerifyCode, SendCode, AppendCode, Verify, CheckCode, RemoveCode, Fails, Goto,
      AfterCode, TypeInv, TypeOK, StepFits, WithCode, Registers, Called, Arrivals
<1>4. ASSUME NEW c \in Call, SelectFree(c) \/ SelectByPhone(c) \/ SelectById(c) \/ Upload(c)
      PROVE  Arrivals
  BY <1>1, <1>4
  DEF SelectFree, SelectByPhone, SelectById, Upload, Fails, Goto, TypeInv, TypeOK, Called, Arrivals
<1>5. ASSUME NEW c \in Call, Insert(c) \/ Update(c) \/ AppendData(c) PROVE Arrivals
  <2>1. user[c] \in Row /\ Called(c) /\ Uid(c) \in Account /\ c \in Account
    BY <1>1, <1>5, UidIsAccount, CallFacts DEF Insert, Update, AppendData, TypeInv, StepFits, Called
  <2>2. CASE Insert(c)
    <3>1. Uid(c) = c
      BY <1>1, <2>1, <2>2 DEF Insert, TypeInv, StepFits, Uid, Registers, Setters
    <3> QED
      BY <1>1, <2>1, <2>2, <3>1 DEF Insert, Fails, Goto, TypeInv, TypeOK, Arrivals
  <2>3. CASE Update(c)
    BY <1>1, <2>1, <2>3 DEF Update, Fails, Goto, TypeInv, TypeOK, Arrivals
  <2>4. CASE AppendData(c)
    <3>1. req[c].op \in Registers => Uid(c) = c
      BY DEF Uid, Registers, Setters
    <3>2. at[c] = "index"
      BY <2>4 DEF AppendData
    <3> QED
      BY <1>1, <2>1, <2>4, <3>1, <3>2 DEF AppendData, Fails, Goto, TypeInv, TypeOK, Arrivals
  <2> QED
    BY <1>5, <2>2, <2>3, <2>4
<1>6. CASE ExpireCode
  BY <1>6 DEF ExpireCode, Arrivals
<1>7. CASE ServiceDies
  BY <1>1, <1>7 DEF ServiceDies, InProgress, TypeInv, TypeOK, Arrivals
<1>8. CASE UNCHANGED vars
  BY <1>8 DEF vars, Arrivals
<1> QED
  BY <1>2, <1>3, <1>4, <1>5, <1>6, <1>7, <1>8 DEF Next, Register, SetUser

LEMMA StoreStep ==
  ASSUME StoreInv, [Next]_vars
  PROVE  StoreInv'
<1>1. TypeInv /\ TypeInv' /\ IndexInv /\ Kept /\ Arrivals
  BY TypeStep, NothingGoes, ArrivalsOfStep DEF StoreInv
<1>2. \A u \in Known : rows'[u] # None
  BY <1>1 DEF IndexInv, Kept, Account
<1>3. ASSUME NEW c \in Call, at'[c] = "index" PROVE rows'[Uid(c)'] # None
  <2>1. Called(c)
    BY <1>1, <1>3 DEF Arrivals, Called
  <2>2. Uid(c)' = Uid(c) /\ Uid(c) \in Account
    BY <1>1, <2>1, UidStays, UidIsAccount
  <2> QED
    BY <1>1, <1>3, <2>2 DEF Arrivals, IndexInv, Kept
<1>4. ASSUME NEW u \in Account, docs'[u] # None PROVE rows'[u] # None
  BY <1>1, <1>4 DEF Arrivals, IndexInv, Kept, IndexFollowsTable
<1>5. ASSUME NEW c \in Call, at'[c] = "ok", req'[c].op \in Registers
      PROVE  docs'[c] # None
  <2>1. CASE at[c] = "ok"
    <3>1. c \in Account /\ req'[c] = req[c]
      BY <1>1, <2>1, CallFacts DEF Kept, Called
    <3> QED
      BY <1>1, <1>5, <2>1, <3>1 DEF IndexInv, IndexFollowsTable, Kept
  <2> QED
    BY <1>1, <1>5, <2>1 DEF Arrivals
<1> QED
  BY <1>1, <1>2, <1>3, <1>4, <1>5 DEF StoreInv, IndexInv, IndexFollowsTable

(* At every moment the variables hold values of their types.  (UserService *)
(* handlers)                                                               *)
THEOREM UserTypeCorrect == Spec => []TypeOK
<1>1. StoreInv => TypeOK
  BY DEF StoreInv, TypeInv
<1> QED
  BY StoreInit, StoreStep, <1>1, PTL DEF Spec

(* Who was told to be registered can be found for good, and who can be     *)
(* found is in the table.  (UserRegister, PhoneRegister)                   *)
THEOREM RegisteredAreFound == Spec => []IndexFollowsTable
<1>1. StoreInv => IndexFollowsTable
  BY DEF StoreInv, IndexInv
<1> QED
  BY StoreInit, StoreStep, <1>1, PTL DEF Spec

-----------------------------------------------------------------------------
(* A call that got past the check of its code: the code is that of an      *)
(* earlier call, which was answered.                                       *)
GoodCode(c) ==
  LET d == req[c].code IN
    /\ d \in Call /\ d < c
    /\ at[d] = "ok" /\ req[d].op = "getCode"

Passed(c) ==
  \/ req[c].op = "phoneLogin" /\ at[c] \in {"removeCode", "ok"}
  \/ /\ req[c].op \in {"phoneRegister", "phone"}
     /\ at[c] \in {"byPhone", "byId", "insert", "update", "index", "ok"}

(* A phone number that may stand in the row of u. *)
Verified(u, phone) ==
  \/ u \in Known /\ phone = KnownPhone[u]
  \/ \E c \in Call : Called(c) /\ Uid(c) = u /\ req[c].value = phone /\ GoodCode(c)

CodeInv ==
  /\ \A d \in codes : at[d] = "ok" /\ req[d].op = "getCode"
  /\ \A c \in Call : Called(c) /\ Passed(c) => GoodCode(c)
  /\ \A c \in Call : at[c] \in {"insert", "upload", "update"} /\ user[c].phone # None
       => Verified(Uid(c), user[c].phone)
  /\ \A u \in Account : rows[u] # None /\ rows[u].phone # None => Verified(u, rows[u].phone)
  /\ \A c \in Call : at[c] = "ok" /\ req[c].op = "phoneLogin" => req[c].code \notin codes

LEMMA CodeInit == Init => CodeInv
<1> SUFFICES ASSUME Init PROVE CodeInv
  OBVIOUS
<1>1. \A u \in Account : rows[u] # None => u \in Known /\ rows[u] = KnownRow(u)
  BY DEF Init
<1> QED
  BY <1>1 DEF Init, CodeInv, Called, Verified, KnownRow

(* What is good stays good. *)
LEMMA GoodStays ==
  ASSUME StoreInv, [Next]_vars, NEW c \in Call, Called(c), GoodCode(c)
  PROVE  GoodCode(c)'
  BY NothingGoes DEF Kept, GoodCode, Called

LEMMA VerifiedStays ==
  ASSUME StoreInv, [Next]_vars, NEW u, NEW p, Verified(u, p)
  PROVE  Verified(u, p)'
<1>1. CASE u \in Known /\ p = KnownPhone[u]
  BY <1>1 DEF Verified
<1>2. ASSUME NEW c \in Call, Called(c), Uid(c) = u, req[c].value = p, GoodCode(c)
      PROVE  Verified(u, p)'
  BY <1>2, NothingGoes, UidStays, GoodStays DEF Kept, Verified
<1> QED
  BY <1>1, <1>2 DEF Verified

(* How codes, steps, rows in hand and rows in the table come about.        *)
CodeSources ==
  /\ \A d \in codes' : d \in codes \/ (at[d] = "store" /\ at'[d] = "ok")
  /\ \A c \in Call : Passed(c)' =>
       Called(c) /\ (Passed(c) \/ (at[c] = "code" /\ req[c].code \in codes))
  /\ \A c \in Call : at'[c] = "ok" /\ req'[c].op = "phoneLogin" =>
       at[c] = "ok" \/ req[c].code \notin codes'

LEMMA CodeSourcesOfStep ==
  ASSUME StoreInv, [Next]_vars
  PROVE  CodeSources
<1>1. TypeInv
  BY DEF StoreInv
<1>2. ASSUME NEW c \in Call, NEW r \in Requests, Start(c, r) PROVE CodeSources
  <2>1. \A d \in Call \ {c} : at'[d] = at[d] /\ req'[d] = req[d]
    BY <1>1, <1>2 DEF Start, Goto, TypeInv, TypeOK
  <2>2. at'[c] = First(r.op) /\ req'[c] = r /\ codes' = codes
    BY <1>1, <1>2 DEF Start, Goto, TypeInv, TypeOK
  <2>3. ~Passed(c)' /\ at'[c] # "ok"
    <3>1. r.op \in Registers \cup Setters \cup {"getCode", "phoneLogin"}
      BY <1>2, RequestFacts DEF Start
    <3> QED
      BY <2>2, <3>1 DEF First, Passed, Registers, Setters
  <2>4. \A d \in Call \ {c} : Passed(d)' = Passed(d)
    BY <2>1 DEF Passed
  <2> QED
    BY <2>1, <2>2, <2>3, <2>4 DEF CodeSources, Passed, Called
<1>3. ASSUME NEW c \in Call, GetPhoneVerifyCode(c) \/ Verify(c) PROVE CodeSources
  BY <1>1, <1>3
  DEF GetPhoneVerifyCode, SendCode, AppendCode, Verify, CheckCode, RemoveCode, Fails, Goto,
      AfterCode, TypeInv, TypeOK, StepFits, WithCode, Called, Passed, CodeSources
<1>4. ASSUME NEW c \in Call, SelectFree(c) \/ SelectByPhone(c) \/ SelectById(c) \/ Upload(c)
      PROVE  CodeSources
  BY <1>1, <1>4
  DEF SelectFree, SelectByPhone, SelectById, Upload, Fails, Goto, TypeInv, TypeOK, StepFits,
      Registers, Setters, Called, Passed, CodeSources
<1>5. ASSUME NEW c \in Call, Insert(c) \/ Update(c) \/ AppendData(c) PROVE CodeSources
  BY <1>1, <1>5
  DEF Insert, Update, AppendData, Fails, Goto, TypeInv, TypeOK, StepFits,
      Registers, Setters, Called, Passed, CodeSources
<1>6. CASE ExpireCode
  BY <1>6 DEF ExpireCode, CodeSources, Passed, Called
<1>7. CASE ServiceDies
  BY <1>1, <1>7 DEF ServiceDies, InProgress, TypeInv, TypeOK, CodeSources, Passed, Called
<1>8. CASE UNCHANGED vars
  BY <1>8 DEF vars, CodeSources, Passed, Called
<1> QED
  BY <1>2, <1>3, <1>4, <1>5, <1>6, <1>7, <1>8 DEF Next, Register, SetUser

(* The check lets a call through with the code of an earlier call only.    *)
LEMMA CheckedIsGood ==
  ASSUME TypeInv, CodeInv, NEW c \in Call, at[c] = "code", req[c].code \in codes
  PROVE  GoodCode(c)
<1>1. Called(c) /\ req[c].op \in WithCode /\ req[c].code \in 1..c \cup {None}
  BY DEF Called, TypeInv, StepFits
<1>2. req[c].code \in Call
  BY DEF TypeInv, TypeOK
<1>3. req[c].code \in 1..c /\ req[c].code # c
  BY <1>1, <1>2, CallFacts DEF CodeInv, WithCode
<1> QED
  BY <1>2, <1>3, CallFacts DEF GoodCode, CodeInv

(* The row in hand and the rows of the table: every phone is verified.     *)
PhoneSources ==
  /\ \A c \in Call : at'[c] \in {"insert", "upload", "update"} =>
       \/ at[c] \in {"insert", "upload", "update"} /\ user'[c] = user[c]
       \/ user'[c].phone = None
       \/ Called(c) /\ Passed(c) /\ user'[c].phone = req[c].value
       \/ /\ Called(c) /\ Uid(c) \in Account /\ rows[Uid(c)] # None
          /\ user'[c].phone = rows[Uid(c)].phone
  /\ \A u \in Account : rows'[u] # rows[u] =>
       \E c \in Call : at[c] \in {"insert", "update"} /\ Uid(c) = u /\ rows'[u] = user[c]

LEMMA PhoneSourcesOfStep ==
  ASSUME StoreInv, [Next]_vars
  PROVE  PhoneSources
<1>1. TypeInv
  BY DEF StoreInv
<1>2. ASSUME NEW c \in Call, NEW r \in Requests, Start(c, r) PROVE PhoneSources
  BY <1>1, <1>2 DEF Start, Goto, First, TypeInv, TypeOK, PhoneSources
<1>3. ASSUME NEW c \in Call, GetPhoneVerifyCode(c) \/ Verify(c) PROVE PhoneSources
  BY <1>1, <1>3
  DEF GetPhoneVerifyCode, SendCode, AppendCode, Verify, CheckCode, RemoveCode, Fails, Goto,
      AfterCode, TypeInv, TypeOK, StepFits, WithCode, Called, PhoneSources
<1>4. ASSUME NEW c \in Call, SelectFree(c) PROVE PhoneSources
  <2>1. Called(c) /\ req[c].op \in Registers /\ (req[c].op = "phoneRegister" => Passed(c))
    BY <1>1, <1>4 DEF SelectFree, Called, TypeInv, StepFits, Passed, Registers
  <2>2. NewRow(c).phone = None \/ (Passed(c) /\ NewRow(c).phone = req[c].value)
    BY <2>1 DEF NewRow, Registers
  <2>3. \/ at' = [at EXCEPT ![c] = "failed"] /\ user' = user
        \/ at' = [at EXCEPT ![c] = "insert"] /\ user' = [user EXCEPT ![c] = NewRow(c)]
    BY <1>4 DEF SelectFree, Goto
  <2>4. UNCHANGED rows
    BY <1>4 DEF SelectFree
  <2> HIDE DEF NewRow
  <2> QED
    BY <1>1, <2>1, <2>2, <2>3, <2>4 DEF TypeInv, TypeOK, PhoneSources
<1>5. ASSUME NEW c \in Call, SelectById(c) PROVE PhoneSources
  <2> DEFINE new == [rows[Uid(c)] EXCEPT ![req[c].op] = Value(c)]
  <2>1. Called(c) /\ req[c].op \in Setters /\ (req[c].op = "phone" => Passed(c))
    BY <1>1, <1>5 DEF SelectById, Called, TypeInv, StepFits, Passed
  <2>2. Uid(c) \in Account /\ rows[Uid(c)] \in Row /\ rows[Uid(c)] # None
    BY <1>1, <2>1, UidIsAccount DEF StoreInv, IndexInv, TypeInv, TypeOK
  <2>3. new.phone = IF req[c].op = "phone" THEN req[c].value ELSE rows[Uid(c)].phone
    BY <1>1, <2>1, <2>2, SetColumn
  <2>4. \/ at' = [at EXCEPT ![c] = "failed"] /\ user' = user
        \/ /\ at' = [at EXCEPT ![c] = IF req[c].op = "avatar" THEN "upload" ELSE "update"]
           /\ user' = [user EXCEPT ![c] = new]
    BY <1>5 DEF SelectById, Goto, Fails
  <2>5. UNCHANGED rows
    BY <1>5 DEF SelectById
  <2> HIDE DEF new
  <2> QED
    BY <1>1, <2>1, <2>2, <2>3, <2>4, <2>5 DEF TypeInv, TypeOK, PhoneSources
<1>6. ASSUME NEW c \in Call, SelectByPhone(c) \/ Upload(c) PROVE PhoneSources
  BY <1>1, <1>6 DEF SelectByPhone, Upload, Fails, Goto, TypeInv, TypeOK, PhoneSources
<1>7. ASSUME NEW c \in Call, Insert(c) PROVE PhoneSources
  <2>1. Uid(c) = c
    BY <1>1, <1>7 DEF Insert, TypeInv, StepFits, Called, Uid, Registers, Setters
  <2> QED
    BY <1>1, <1>7, <2>1 DEF Insert, Fails, Goto, TypeInv, TypeOK, PhoneSources
<1>8. ASSUME NEW c \in Call, Update(c) \/ AppendData(c) PROVE PhoneSources
  BY <1>1, <1>8 DEF Update, AppendData, Fails, Goto, TypeInv, TypeOK, PhoneSources
<1>9. CASE ExpireCode
  BY <1>9 DEF ExpireCode, PhoneSources
<1>10. CASE ServiceDies
  BY <1>1, <1>10 DEF ServiceDies, TypeInv, TypeOK, PhoneSources
<1>11. CASE UNCHANGED vars
  BY <1>11 DEF vars, PhoneSources
<1> QED
  BY <1>2, <1>3, <1>4, <1>5, <1>6, <1>7, <1>8, <1>9, <1>10, <1>11 DEF Next, Register, SetUser

LEMMA CodeStep ==
  ASSUME StoreInv, CodeInv, [Next]_vars
  PROVE  CodeInv'
<1>1. TypeInv /\ TypeInv' /\ Kept /\ CodeSources /\ PhoneSources
  BY TypeStep, NothingGoes, CodeSourcesOfStep, PhoneSourcesOfStep DEF StoreInv
<1>2. ASSUME NEW d \in codes' PROVE at'[d] = "ok" /\ req'[d].op = "getCode"
  <2>1. d \in Call
    BY <1>1 DEF TypeInv, TypeOK
  <2> QED
    BY <1>1, <2>1 DEF CodeSources, CodeInv, Kept, TypeInv, StepFits, Called
<1>3. ASSUME NEW c \in Call, Passed(c)' PROVE GoodCode(c)'
  <2>1. Called(c) /\ GoodCode(c)
    BY <1>1, <1>3, CheckedIsGood DEF CodeSources, CodeInv
  <2> QED
    BY <2>1, GoodStays
<1>4. ASSUME NEW c \in Call, Called(c), Passed(c) PROVE Verified(Uid(c), req[c].value)
  BY <1>4 DEF CodeInv, Verified
<1>5. ASSUME NEW c \in Call, NEW p, at'[c] \in {"insert", "upload", "update"},
             p = user'[c].phone, p # None, NEW u, u = Uid(c)
      PROVE  Verified(u, p)'
  <2>1. Verified(u, p)
    BY <1>1, <1>4, <1>5 DEF PhoneSources, CodeInv
  <2> QED
    BY <2>1, VerifiedStays
<1>6. ASSUME NEW c \in Call, at'[c] \in {"insert", "upload", "update"}, user'[c].phone # None
      PROVE  Verified(Uid(c), user[c].phone)'
  <2>1. Called(c)
    BY <1>1, <1>6 DEF PhoneSources, Called
  <2>2. Uid(c)' = Uid(c)
    BY <2>1, UidStays
  <2>3. PICK u, p : u = Uid(c) /\ p = user'[c].phone
    OBVIOUS
  <2>4. Verified(u, p)'
    BY <1>5, <1>6, <2>3
  <2> QED
    BY <2>2, <2>3, <2>4
<1>7. ASSUME NEW u \in Account, rows'[u] # None, rows'[u].phone # None
      PROVE  Verified(u, rows[u].phone)'
  <2>1. PICK p : p = rows'[u].phone
    OBVIOUS
  <2>2. Verified(u, p)
    BY <1>1, <1>7, <2>1 DEF PhoneSources, CodeInv
  <2>3. Verified(u, p)'
    BY <2>2, VerifiedStays
  <2> QED
    BY <2>1, <2>3
<1>8. ASSUME NEW c \in Call, at'[c] = "ok", req'[c].op = "phoneLogin"
      PROVE  req'[c].code \notin codes'
  <2>1. CASE at[c] = "ok"
    <3>1. Called(c) /\ req'[c] = req[c]
      BY <1>1, <2>1 DEF Called, Kept
    <3>2. GoodCode(c) /\ req[c].code \notin codes
      BY <1>8, <2>1, <3>1 DEF CodeInv, Passed
    <3> QED
      BY <1>1, <3>1, <3>2 DEF CodeSources, GoodCode
  <2>2. CASE at[c] # "ok"
    <3>1. Passed(c)'
      BY <1>8 DEF Passed
    <3>2. req'[c] = req[c]
      BY <1>1, <3>1 DEF CodeSources, Kept
    <3> QED
      BY <1>1, <1>8, <2>2, <3>2 DEF CodeSources
  <2> QED
    BY <2>1, <2>2
<1> QED
  BY <1>2, <1>3, <1>6, <1>7, <1>8 DEF CodeInv

(* Every phone number that is new in the table was put there by a call     *)
(* with a code that was sent and stored before.  (PhoneRegister,           *)
(* SetUserPhoneNumber)                                                     *)
THEOREM PhonesNeedCodes == Spec => []PhoneCameWithCode
<1>1. CodeInv => PhoneCameWithCode
  BY DEF CodeInv, PhoneCameWithCode, Verified, GoodCode
<1> QED
  BY StoreInit, StoreStep, CodeInit, CodeStep, <1>1, PTL DEF Spec

(* The code of a login that was answered lets no later call through.       *)
(* (PhoneLogin)                                                            *)
THEOREM CodesAreUsedUp == Spec => UsedCodesOpenNothing
<1> DEFINE Opens ==
      \A c, d \in Call :
        at[d] = "ok" /\ req[d].op = "phoneLogin" /\ at[c] = "code" /\ req[c].code = req[d].code
          => at'[c] \in {"code", "failed"}
<1>1. ASSUME StoreInv, CodeInv, [Next]_vars PROVE [Opens]_vars
  <2>1. ASSUME NEW c \in Call, at[c] = "code", at'[c] \notin {"code", "failed"}
        PROVE  req[c].code \in codes
    <3>1. TypeInv
      BY <1>1 DEF StoreInv
    <3>2. CheckCode(c)
      BY <1>1, <2>1, <3>1
      DEF Next, Start, GetPhoneVerifyCode, SendCode, AppendCode, Verify, CheckCode, RemoveCode,
          Register, SetUser, SelectFree, SelectByPhone, SelectById, Insert, Update, Upload,
          AppendData, ExpireCode, ServiceDies, vars, Goto, Fails, Called, InProgress,
          TypeInv, TypeOK
    <3> QED
      BY <2>1, <3>1, <3>2 DEF CheckCode, Goto, TypeInv, TypeOK
  <2> QED
    BY <1>1, <2>1 DEF CodeInv
<1>2. QED
  BY StoreInit, StoreStep, CodeInit, CodeStep, <1>1, PTL DEF Spec, UsedCodesOpenNothing

-----------------------------------------------------------------------------
(* The calls of one setter on an account that are at a step.               *)
Setting(u, op, step) ==
  {c \in Call : Called(c) /\ Uid(c) = u /\ req[c].op = op /\ at[c] = step}

(* Calls come in the order of their numbers. *)
InOrder == \A c, d \in Call : d < c /\ Called(c) => Called(d)

(* None but the latest call on an account is in progress ... *)
OneAtATime(u) ==
  \A c, d \in Call : InProgress(c) /\ Uid(c) = u /\ Called(d) /\ Uid(d) = u => d <= c

(* ... and what it has in hand is the row but for its column, or the row   *)
(* itself once that is written.                                            *)
HandIsFresh(u) ==
  \A c \in Call : Called(c) /\ Uid(c) = u =>
    /\ at[c] \in {"upload", "update"} => user[c] = [rows[u] EXCEPT ![req[c].op] = Value(c)]
    /\ at[c] = "index" => user[c] = rows[u] /\ rows[u][req[c].op] = Value(c)

(* The index is behind by no more than the call that is about to write it. *)
IndexIsFresh(u) ==
  (\A op \in Setters : Setting(u, op, "index") = {}) => docs[u] = rows[u]

LatestIsKept(u) ==
  \A op \in Setters : \A c \in Setting(u, op, "ok") :
    Setting(u, op, "index") = {} /\ (\A d \in Setting(u, op, "ok") : d <= c)
      => rows[u][op] = Value(c)

AccountInv(u) == OneAtATime(u) /\ HandIsFresh(u) /\ IndexIsFresh(u) /\ LatestIsKept(u)

ChangeInv == InOrder /\ \A u \in Known \ tangled : AccountInv(u)

LEMMA ChangeInit == Init => ChangeInv
<1> SUFFICES ASSUME Init PROVE ChangeInv
  OBVIOUS
<1>1. \A c \in Call : ~Called(c) /\ ~InProgress(c)
  BY DEF Init, Called, InProgress
<1> QED
  BY <1>1 DEF Init, ChangeInv, InOrder, AccountInv, OneAtATime, HandIsFresh, IndexIsFresh,
     LatestIsKept, Setting

(* Whose calls do no step, and whose row and document stay, is left alone. *)
LEMMA Untouched ==
  ASSUME NEW u \in Known, AccountInv(u), rows'[u] = rows[u], docs'[u] = docs[u],
         \A c \in Call : Called(c) /\ Uid(c) = u =>
           at'[c] = at[c] /\ user'[c] = user[c] /\ req'[c] = req[c],
         \A c \in Call : Called(c)' /\ Uid(c)' = u => Called(c) /\ Uid(c) = u
  PROVE  AccountInv(u)'
<1>1. \A c \in Call : Called(c)' /\ Uid(c)' = u =>
        /\ Called(c) /\ Uid(c) = u /\ Value(c)' = Value(c)
        /\ at'[c] = at[c] /\ user'[c] = user[c] /\ req'[c] = req[c]
  BY DEF Value
<1>2. \A c \in Call : Called(c) /\ Uid(c) = u => Called(c)' /\ Uid(c)' = u
  BY DEF Called, Uid
<1>3. \A op, step : Setting(u, op, step)' = Setting(u, op, step)
  BY <1>1, <1>2 DEF Setting
<1>4. \A c \in Call : InProgress(c)' => Called(c)'
  BY DEF InProgress, Called
<1>5. OneAtATime(u)'
  BY <1>1, <1>4 DEF AccountInv, OneAtATime, InProgress
<1>6. HandIsFresh(u)'
  BY <1>1 DEF AccountInv, HandIsFresh
<1>7. IndexIsFresh(u)'
  BY <1>3 DEF AccountInv, IndexIsFresh
<1>8. LatestIsKept(u)'
  <2>1. \A op : \A c \in Setting(u, op, "ok") : Value(c)' = Value(c)
    BY <1>1, <1>2 DEF Setting
  <2> QED
    BY <1>3, <2>1 DEF AccountInv, LatestIsKept
<1> QED
  BY <1>5, <1>6, <1>7, <1>8 DEF AccountInv

(* A step of the call on an account that is in progress.                   *)
LEMMA OwnStep ==
  ASSUME TypeInv, NEW u \in Known, AccountInv(u),
         NEW c \in Call, InProgress(c), Uid(c) = u,
         NEW s \in Step \ {"none"}, at' = [at EXCEPT ![c] = s], req' = req
  PROVE  /\ OneAtATime(u)'
         /\ \A d \in Call : /\ Called(d)' <=> Called(d)
                            /\ Uid(d)' = Uid(d) /\ Value(d)' = Value(d)
         /\ \A d \in Call \ {c} : Called(d) /\ Uid(d) = u => ~InProgress(d) /\ d < c
<1>1. at'[c] = s /\ \A d \in Call \ {c} : at'[d] = at[d]
  BY DEF TypeInv, TypeOK
<1>2. \A d \in Call : Called(d)' <=> Called(d)
  BY <1>1, InProgressIsCalled DEF Called
<1>3. \A d \in Call : Uid(d)' = Uid(d) /\ Value(d)' = Value(d)
  BY DEF Uid, Value
<1>4. \A d \in Call \ {c} : InProgress(d)' <=> InProgress(d)
  BY <1>1 DEF InProgress
<1>5. \A d \in Call : Called(d) /\ Uid(d) = u => d <= c /\ (InProgress(d) => c <= d)
  BY InProgressIsCalled DEF AccountInv, OneAtATime
<1>6. \A d \in Call \ {c} : Called(d) /\ Uid(d) = u => ~InProgress(d) /\ d < c
  BY <1>5, CallFacts
<1>7. OneAtATime(u)'
  BY <1>2, <1>3, <1>4, <1>5 DEF AccountInv, OneAtATime
<1> QED
  BY <1>2, <1>3, <1>6, <1>7

(* The steps before the row is written. *)
LEMMA PreparesFresh ==
  ASSUME TypeInv, NEW u \in Known, AccountInv(u),
         NEW c \in Call, InProgress(c), Uid(c) = u, at[c] # "index",
         NEW s \in Step \ {"none", "index", "ok"}, at' = [at EXCEPT ![c] = s], req' = req,
         s \in {"upload", "update"} => user'[c] = [rows[u] EXCEPT ![req[c].op] = Value(c)],
         \A d \in Call \ {c} : user'[d] = user[d],
         rows'[u] = rows[u], docs'[u] = docs[u]
  PROVE  AccountInv(u)'
<1>1. at'[c] = s /\ \A d \in Call \ {c} : at'[d] = at[d]
  BY DEF TypeInv, TypeOK
<1>2. \A d \in Call : /\ Called(d)' <=> Called(d)
                      /\ Uid(d)' = Uid(d) /\ Value(d)' = Value(d)
  BY OwnStep
<1>3. HandIsFresh(u)'
  <2> SUFFICES ASSUME NEW d \in Call, Called(d), Uid(d) = u
               PROVE  /\ at'[d] \in {"upload", "update"} =>
                           user'[d] = [rows[u] EXCEPT ![req[d].op] = Value(d)]
                      /\ at'[d] = "index" =>
                           user'[d] = rows[u] /\ rows[u][req[d].op] = Value(d)
    BY <1>2 DEF HandIsFresh
  <2>1. CASE d = c
    BY <1>1, <2>1
  <2>2. CASE d # c
    BY <1>1, <2>2 DEF AccountInv, HandIsFresh
  <2> QED
    BY <2>1, <2>2
<1>4. \A op, step : step \in {"ok", "index"} => Setting(u, op, step)' = Setting(u, op, step)
  BY <1>1, <1>2 DEF Setting, InProgress
<1>5. IndexIsFresh(u)'
  BY <1>4 DEF AccountInv, IndexIsFresh
<1>6. LatestIsKept(u)'
  <2>1. \A op : \A d \in Setting(u, op, "ok") : Value(d)' = Value(d)
    BY <1>2 DEF Setting
  <2> QED
    BY <1>4, <2>1 DEF AccountInv, LatestIsKept
<1> QED
  BY <1>3, <1>5, <1>6, OwnStep DEF AccountInv

(* The row is written: one column is new, and the others are as they were. *)
LEMMA UpdateKeeps ==
  ASSUME TypeInv, NEW u \in Known, AccountInv(u),
         NEW c \in Call, at[c] = "update", Uid(c) = u, rows[u] \in Row,
         at' = [at EXCEPT ![c] = "index"], rows' = [rows EXCEPT ![u] = user[c]],
         UNCHANGED <<req, user, docs>>
  PROVE  AccountInv(u)'
<1>1. Called(c) /\ InProgress(c) /\ req[c].op \in Setters
  BY DEF Called, InProgress, TypeInv, StepFits
<1>2. at'[c] = "index" /\ \A d \in Call \ {c} : at'[d] = at[d]
  BY DEF TypeInv, TypeOK
<1>3. rows'[u] = [rows[u] EXCEPT ![req[c].op] = Value(c)] /\ rows'[u] = user[c]
  BY <1>1 DEF TypeInv, TypeOK, AccountInv, HandIsFresh, Account
<1>4. /\ rows'[u][req[c].op] = Value(c)
      /\ \A op \in Setters \ {req[c].op} : rows'[u][op] = rows[u][op]
  BY <1>1, <1>3 DEF Row, Setters
<1>5. "index" \in Step \ {"none"}
  BY DEF Step
<1>6. HandIsFresh(u)'
  <2>1. ASSUME NEW d \in Call \ {c}, Called(d)', Uid(d)' = u PROVE ~InProgress(d)
    BY <1>1, <1>5, <2>1, OwnStep
  <2> QED
    BY <1>1, <1>2, <1>3, <1>4, <1>5, <2>1, OwnStep DEF HandIsFresh, InProgress
<1>7. c \in Setting(u, req[c].op, "index")'
  BY <1>1, <1>2, <1>5, OwnStep DEF Setting
<1>8. IndexIsFresh(u)'
  BY <1>1, <1>7 DEF IndexIsFresh
<1>9. LatestIsKept(u)'
  <2> SUFFICES ASSUME NEW op \in Setters, NEW d \in Setting(u, op, "ok")',
                      Setting(u, op, "index")' = {},
                      \A e \in Setting(u, op, "ok")' : e <= d
               PROVE  rows'[u][op] = Value(d)'
    BY DEF LatestIsKept
  <2>1. op # req[c].op
    BY <1>7
  <2>2. Setting(u, op, "ok") = Setting(u, op, "ok")'
    BY <1>1, <1>2, <1>5, OwnStep DEF Setting, InProgress
  <2>3. Setting(u, op, "index") = {}
    BY <1>1, <1>2, <1>5, OwnStep DEF Setting, InProgress
  <2>4. rows[u][op] = Value(d)
    BY <2>2, <2>3 DEF AccountInv, LatestIsKept
  <2> QED
    BY <1>1, <1>4, <1>5, <2>1, <2>2, <2>4, OwnStep DEF Setting
<1> QED
  BY <1>1, <1>5, <1>6, <1>8, <1>9, OwnStep DEF AccountInv

(* The document is written as well, and the call is answered. *)
LEMMA AppendKeeps ==
  ASSUME TypeInv, NEW u \in Known, AccountInv(u),
         NEW c \in Call, at[c] = "index", Uid(c) = u, req[c].op \in Setters,
         at' = [at EXCEPT ![c] = "ok"], docs' = [docs EXCEPT ![u] = user[c]],
         UNCHANGED <<req, user, rows>>
  PROVE  AccountInv(u)'
<1>1. Called(c) /\ InProgress(c) /\ "ok" \in Step \ {"none"}
  BY DEF Called, InProgress, Step
<1>2. at'[c] = "ok" /\ \A d \in Call \ {c} : at'[d] = at[d]
  BY DEF TypeInv, TypeOK
<1>3. user[c] = rows[u] /\ rows[u][req[c].op] = Value(c)
  BY <1>1 DEF AccountInv, HandIsFresh
<1>4. docs'[u] = rows'[u]
  BY <1>3 DEF TypeInv, TypeOK, Account
<1>5. \A d \in Call \ {c} : Called(d) /\ Uid(d) = u => ~InProgress(d) /\ d < c
  BY <1>1, OwnStep
<1>6. HandIsFresh(u)'
  BY <1>1, <1>2, <1>5, OwnStep DEF HandIsFresh, InProgress
<1>7. IndexIsFresh(u)'
  BY <1>4 DEF IndexIsFresh
<1>8. LatestIsKept(u)'
  <2> SUFFICES ASSUME NEW op \in Setters, NEW d \in Setting(u, op, "ok")',
                      \A e \in Setting(u, op, "ok")' : e <= d
               PROVE  rows'[u][op] = Value(d)'
    BY DEF LatestIsKept
  <2>1. Value(d)' = Value(d) /\ d \in Call
    BY DEF Setting, Value
  <2>2. \A e \in Call : (Called(e)' <=> Called(e)) /\ Uid(e)' = Uid(e)
    BY <1>1, OwnStep
  <2>3. CASE op = req[c].op
    <3>1. c \in Setting(u, op, "ok")'
      BY <1>1, <1>2, <2>2, <2>3 DEF Setting
    <3>2. Called(d) /\ Uid(d) = u
      BY <2>2 DEF Setting
    <3>3. d = c
      BY <1>5, <2>1, <3>1, <3>2, CallFacts
    <3> QED
      BY <1>3, <2>1, <2>3, <3>3
  <2>4. CASE op # req[c].op
    <3>1. Setting(u, op, "ok")' = Setting(u, op, "ok") /\ Setting(u, op, "index") = {}
      BY <1>1, <1>2, <1>5, <2>4, OwnStep DEF Setting, InProgress
    <3> QED
      BY <2>1, <3>1 DEF AccountInv, LatestIsKept
  <2> QED
    BY <2>3, <2>4
<1> QED
  BY <1>1, <1>6, <1>7, <1>8, OwnStep DEF AccountInv

(* A request comes: nothing is in progress on an account that stays        *)
(* untangled.                                                              *)
LEMMA StartKeeps ==
  ASSUME TypeInv, InOrder, NEW c \in Call, NEW r \in Requests, Start(c, r),
         NEW u \in Known \ tangled', AccountInv(u)
  PROVE  AccountInv(u)'
<1>1. /\ at'[c] = First(r.op) /\ req'[c] = r
      /\ \A d \in Call \ {c} : at'[d] = at[d] /\ req'[d] = req[d]
  BY DEF Start, Goto, TypeInv, TypeOK
<1>2. /\ \A d \in Call \ {c} : /\ Called(d)' <=> Called(d)
                               /\ Uid(d)' = Uid(d) /\ Value(d)' = Value(d)
      /\ ~Called(c) /\ c \notin Known
  BY <1>1, CallFacts, UserAssumption DEF Called, Uid, Value, Start
<1>3. at'[c] \notin {"upload", "update", "index", "ok"}
  BY <1>1, RequestFacts DEF First, Start, Registers, Setters
<1>4. CASE Uid(c)' # u
  BY <1>1, <1>2, <1>4, Untouched DEF Start
<1>5. CASE Uid(c)' = u
  <2>1. r.uid = u
    BY <1>1, <1>2, <1>5 DEF Uid
  <2>2. \A d \in Call : InProgress(d) => Uid(d) # u
    BY <2>1 DEF Start
  <2>3. \A d \in Call \ {c} : Called(d) => d < c
    BY <1>2, CallFacts DEF InOrder
  <2>4. OneAtATime(u)'
    BY <1>1, <1>2, <2>2, <2>3, CallFacts DEF OneAtATime, InProgress
  <2>5. \A op, step : step \in {"index", "ok"} => Setting(u, op, step)' = Setting(u, op, step)
    BY <1>1, <1>2, <1>3 DEF Setting
  <2>6. HandIsFresh(u)'
    BY <1>1, <1>2, <1>3 DEF Start, AccountInv, HandIsFresh
  <2>7. IndexIsFresh(u)'
    BY <2>5 DEF Start, AccountInv, IndexIsFresh
  <2>8. LatestIsKept(u)'
    BY <1>2, <2>5 DEF Start, AccountInv, LatestIsKept, Setting
  <2> QED
    BY <2>4, <2>6, <2>7, <2>8 DEF AccountInv
<1> QED
  BY <1>4, <1>5

(* A step of a call that is about another account. *)
LEMMA OtherAccountKeeps ==
  ASSUME TypeInv, NEW c \in Call, InProgress(c), NEW u \in Known, AccountInv(u), Uid(c) # u,
         \A d \in Call \ {c} : at'[d] = at[d] /\ user'[d] = user[d],
         req' = req, at'[c] # "none", rows'[u] = rows[u], docs'[u] = docs[u]
  PROVE  AccountInv(u)'
<1>1. \A d \in Call : Called(d)' => Called(d)
  BY InProgressIsCalled DEF Called
<1>2. \A d \in Call : Uid(d)' = Uid(d)
  BY DEF Uid
<1> QED
  BY <1>1, <1>2, Untouched

LEMMA CodeKeeps ==
  ASSUME TypeInv, NEW c \in Call, GetPhoneVerifyCode(c) \/ Verify(c),
         NEW u \in Known \ tangled', AccountInv(u)
  PROVE  AccountInv(u)'
<1>1. /\ InProgress(c) /\ StepFits(c) /\ UNCHANGED <<req, user, rows, docs>>
      /\ u \notin tangled
  BY DEF GetPhoneVerifyCode, SendCode, AppendCode, Verify, CheckCode, RemoveCode, Fails, Fault,
     NoFault, InProgress, Called, TypeInv
<1>2. PICK s \in Step \ {"none"} : at' = [at EXCEPT ![c] = s]
  BY <1>1
  DEF GetPhoneVerifyCode, SendCode, AppendCode, Verify, CheckCode, RemoveCode, Fails, Goto, Step,
      AfterCode, StepFits, WithCode
<1>3. at'[c] = s /\ \A d \in Call \ {c} : at'[d] = at[d]
  BY <1>2 DEF TypeInv, TypeOK
<1>4. CASE Uid(c) # u
  BY <1>1, <1>3, <1>4, OtherAccountKeeps
<1>5. CASE Uid(c) = u
  <2>1. req[c].op \in Setters
    BY <1>5, CallFacts, UserAssumption DEF Uid
  <2>2. at[c] = "code" /\ s \in {"byId", "failed"}
    BY <1>1, <1>2, <1>3, <2>1
    DEF GetPhoneVerifyCode, SendCode, AppendCode, Verify, CheckCode, RemoveCode, Fails, Goto,
        AfterCode, StepFits, WithCode, Setters, TypeInv, TypeOK
  <2> QED
    BY <1>1, <1>2, <1>5, <2>2, PreparesFresh
<1> QED
  BY <1>4, <1>5

LEMMA RegisterKeeps ==
  ASSUME TypeInv, NEW c \in Call, Register(c),
         NEW u \in Known \ tangled', AccountInv(u)
  PROVE  AccountInv(u)'
<1>1. /\ InProgress(c) /\ Called(c) /\ StepFits(c) /\ req' = req /\ docs' = docs
      /\ req[c].op \notin Setters
  BY DEF Register, SelectFree, SelectByPhone, Insert, InProgress, Called, TypeInv, StepFits,
     Registers, Setters
<1>2. Uid(c) = c /\ c # u
  BY <1>1, CallFacts, UserAssumption DEF Uid
<1>3. rows'[u] = rows[u]
  BY <1>2 DEF Register, SelectFree, SelectByPhone, Insert, TypeInv, TypeOK, Account
<1>4. at'[c] # "none" /\ \A d \in Call \ {c} : at'[d] = at[d] /\ user'[d] = user[d]
  BY DEF Register, SelectFree, SelectByPhone, Insert, Fails, Goto, TypeInv, TypeOK
<1> QED
  BY <1>1, <1>2, <1>3, <1>4, OtherAccountKeeps

LEMMA SetUserKeeps ==
  ASSUME StoreInv, NEW c \in Call, SetUser(c),
         NEW u \in Known \ tangled', AccountInv(u)
  PROVE  AccountInv(u)'
<1>1. TypeInv /\ InProgress(c) /\ Called(c) /\ StepFits(c) /\ req' = req /\ docs' = docs
  BY DEF StoreInv, SetUser, SelectById, Upload, Update, InProgress, Called, TypeInv
<1>2. Uid(c) \in Known /\ req[c].op \in Setters
  BY <1>1, UidIsAccount DEF SetUser, SelectById, Upload, Update, StepFits, Setters
<1>3. at'[c] # "none" /\ \A d \in Call \ {c} : at'[d] = at[d] /\ user'[d] = user[d]
  BY <1>1 DEF SetUser, SelectById, Upload, Update, Fails, Goto, TypeInv, TypeOK
<1>4. CASE Uid(c) # u
  <2>1. rows'[u] = rows[u]
    BY <1>1, <1>2, <1>4 DEF SetUser, SelectById, Upload, Update, TypeInv, TypeOK, Account
  <2> QED
    BY <1>1, <1>3, <1>4, <2>1, OtherAccountKeeps
<1>5. CASE Uid(c) = u
  <2>1. ~Fault(c)
    BY <1>5 DEF Fault
  <2>2. rows[u] \in Row
    BY <1>1 DEF StoreInv, IndexInv, TypeInv, TypeOK, Account
  <2>3. CASE SelectById(c)
    <3> DEFINE s == IF req[c].op = "avatar" THEN "upload" ELSE "update"
    <3>1. at' = [at EXCEPT ![c] = s] /\ at[c] = "byId" /\ rows' = rows
      BY <2>1, <2>3 DEF SelectById, Fails, Goto
    <3>2. user'[c] = [rows[u] EXCEPT ![req[c].op] = Value(c)]
      BY <1>1, <1>5, <2>1, <2>3 DEF SelectById, Fails, TypeInv, TypeOK
    <3>3. s \in Step \ {"none", "index", "ok"}
      BY DEF Step
    <3> HIDE DEF s
    <3> QED
      BY <1>1, <1>3, <1>5, <3>1, <3>2, <3>3, PreparesFresh
  <2>4. CASE Upload(c)
    <3>1. /\ at' = [at EXCEPT ![c] = "update"] /\ at[c] = "upload"
          /\ rows' = rows /\ user' = user /\ "update" \in Step \ {"none", "index", "ok"}
      BY <2>1, <2>4 DEF Upload, Fails, Goto, Step
    <3>2. user'[c] = [rows[u] EXCEPT ![req[c].op] = Value(c)]
      BY <1>1, <1>5, <3>1 DEF AccountInv, HandIsFresh
    <3> QED
      BY <1>1, <1>3, <1>5, <3>1, <3>2, PreparesFresh
  <2>5. CASE Update(c)
    <3>1. CASE at' = [at EXCEPT ![c] = "failed"] /\ rows' = rows
      <4>1. "failed" \in Step \ {"none", "index", "ok"} /\ at[c] = "update"
        BY <2>5 DEF Update, Step
      <4> QED
        BY <1>1, <1>3, <1>5, <3>1, <4>1, PreparesFresh
    <3>2. CASE at' = [at EXCEPT ![c] = "index"] /\ rows' = [rows EXCEPT ![u] = user[c]]
      BY <1>1, <1>5, <2>2, <2>5, <3>2, UpdateKeeps DEF Update
    <3> QED
      BY <1>5, <2>1, <2>5, <3>1, <3>2 DEF Update, Fails, Goto
  <2> QED
    BY <2>3, <2>4, <2>5 DEF SetUser
<1> QED
  BY <1>4, <1>5

LEMMA AppendDataKeeps ==
  ASSUME TypeInv, NEW c \in Call, AppendData(c),
         NEW u \in Known \ tangled', AccountInv(u)
  PROVE  AccountInv(u)'
<1>1. InProgress(c) /\ Called(c) /\ UNCHANGED <<req, user, rows>>
  BY DEF AppendData, InProgress, Called
<1>2. Uid(c) \in Account /\ u \in Account
  BY <1>1, UidIsAccount DEF Account
<1>3. CASE Uid(c) # u
  <2>1. docs'[u] = docs[u]
    BY <1>2, <1>3 DEF AppendData, TypeInv, TypeOK
  <2>2. at'[c] # "none" /\ \A d \in Call \ {c} : at'[d] = at[d] /\ user'[d] = user[d]
    BY <1>1 DEF AppendData, Fails, Goto, TypeInv, TypeOK
  <2> QED
    BY <1>1, <1>3, <2>1, <2>2, OtherAccountKeeps
<1>4. CASE Uid(c) = u
  <2>1. req[c].op \in Setters
    BY <1>4, CallFacts, UserAssumption DEF Uid
  <2>2. docs' = [docs EXCEPT ![u] = user[c]] /\ at' = [at EXCEPT ![c] = "ok"] /\ at[c] = "index"
    BY <1>4 DEF AppendData, Fails, Fault, Goto
  <2> QED
    BY <1>1, <1>4, <2>1, <2>2, AppendKeeps
<1> QED
  BY <1>3, <1>4

LEMMA DeathKeeps ==
  ASSUME TypeInv, ServiceDies, NEW u \in Known \ tangled', AccountInv(u)
  PROVE  AccountInv(u)'
<1>1. \A d \in Call : InProgress(d) => Uid(d) # u
  BY DEF ServiceDies
<1>2. \A d \in Call : at'[d] = IF InProgress(d) THEN "failed" ELSE at[d]
  BY DEF ServiceDies
<1>3. \A d \in Call : (Called(d)' => Called(d)) /\ Uid(d)' = Uid(d)
  BY <1>2, InProgressIsCalled DEF Called, Uid, ServiceDies
<1> QED
  BY <1>1, <1>2, <1>3, Untouched DEF ServiceDies

LEMMA TangledStays ==
  ASSUME [Next]_vars
  PROVE  tangled \subseteq tangled'
  BY DEF Next, Start, GetPhoneVerifyCode, SendCode, AppendCode, Verify, CheckCode, RemoveCode,
     Register, SetUser, SelectFree, SelectByPhone, SelectById, Insert, Update, Upload,
     AppendData, ExpireCode, ServiceDies, vars, Fails, Fault, NoFault

LEMMA ChangeStep ==
  ASSUME StoreInv, ChangeInv, [Next]_vars
  PROVE  ChangeInv'
<1>1. TypeInv /\ TypeInv' /\ Kept
  BY TypeStep, NothingGoes DEF StoreInv
<1>2. InOrder'
  <2> SUFFICES ASSUME NEW c \in Call, NEW d \in Call, d < c, Called(c)'
               PROVE  Called(d)'
    BY DEF InOrder
  <2>1. CASE Called(c)
    BY <1>1, <2>1 DEF ChangeInv, InOrder, Kept
  <2>2. CASE ~Called(c)
    <3>1. \E r \in Requests : Start(c, r)
      BY <1>1, <2>2
      DEF Next, Start, GetPhoneVerifyCode, SendCode, AppendCode, Verify, CheckCode, RemoveCode,
          Register, SetUser, SelectFree, SelectByPhone, SelectById, Insert, Update, Upload,
          AppendData, ExpireCode, ServiceDies, vars, Goto, Fails, Called, InProgress,
          TypeInv, TypeOK
    <3> QED
      BY <1>1, <3>1 DEF Start, Kept
  <2> QED
    BY <2>1, <2>2
<1>3. ASSUME NEW u \in Known \ tangled' PROVE AccountInv(u)'
  <2>1. AccountInv(u) /\ InOrder
    BY TangledStays DEF ChangeInv
  <2>2. CASE ExpireCode \/ UNCHANGED vars
    <3>1. UNCHANGED <<req, at, user, rows, docs>>
      BY <2>2 DEF ExpireCode, vars
    <3>2. \A c \in Call : (Called(c)' => Called(c)) /\ Uid(c)' = Uid(c)
      BY <3>1 DEF Called, Uid
    <3> QED
      BY <2>1, <3>1, <3>2, Untouched
  <2> QED
    BY <1>1, <2>1, <2>2, StartKeeps, CodeKeeps, RegisterKeeps, SetUserKeeps, AppendDataKeeps,
       DeathKeeps
    DEF Next
<1> QED
  BY <1>2, <1>3 DEF ChangeInv

(* Once the setters of an account are answered that came one after another *)
(* and did not fail, each column has the latest value it was given, and    *)
(* the index agrees.  (SetUserNickname, SetUserDescription, SetUserAvatar, *)
(* SetUserPhoneNumber)                                                     *)
THEOREM ChangesStay == Spec => []ChangesAreKept
<1>1. ASSUME StoreInv, ChangeInv PROVE ChangesAreKept
  <2> SUFFICES ASSUME NEW u \in Known, Quiet(u)
               PROVE  /\ docs[u] = rows[u]
                      /\ \A c \in Call :
                           Called(c) /\ Uid(c) = u /\ req[c].op \in Setters /\ Latest(c)
                             => rows[u][req[c].op] = Value(c)
    BY DEF ChangesAreKept
  <2>1. AccountInv(u)
    BY <1>1 DEF ChangeInv, Quiet
  <2>2. \A op : Setting(u, op, "index") = {}
    BY DEF Quiet, Setting, InProgress
  <2>3. docs[u] = rows[u]
    BY <2>1, <2>2 DEF AccountInv, IndexIsFresh
  <2>4. ASSUME NEW c \in Call, Called(c), Uid(c) = u, req[c].op \in Setters, Latest(c)
        PROVE  rows[u][req[c].op] = Value(c)
    <3>1. c \in Setting(u, req[c].op, "ok")
      BY <2>4 DEF Setting, Latest
    <3>2. \A d \in Setting(u, req[c].op, "ok") : d <= c
      BY <2>4, CallFacts DEF Setting, Latest
    <3> QED
      BY <2>1, <2>2, <2>4, <3>1, <3>2 DEF AccountInv, LatestIsKept
  <2> QED
    BY <2>3, <2>4
<1> QED
  BY StoreInit, StoreStep, ChangeInit, ChangeStep, <1>1, PTL DEF Spec
=============================================================================
