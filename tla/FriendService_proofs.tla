------------------------ MODULE FriendService_proofs ------------------------
(***************************************************************************)
(* Proofs about FriendService, for any users and numbers of calls and      *)
(* faults: the types; that it implements Friendship; that no chat is ever  *)
(* half there; that what was answered with success stays done; and that    *)
(* friends share one chat, which a removal finds.                          *)
(***************************************************************************)
EXTENDS FriendService, FiniteSetTheorems, TLAPS

-----------------------------------------------------------------------------
(* The step of a handler fits the request it works on. *)
StepFitsRequest ==
  \A c \in Call : Called(c) =>
    /\ req[c] \in Requests
    /\ req[c].uid # req[c].pid
    /\ at[c] \in {"isFriend", "isApplied", "apply"} => req[c].op = "add"
    /\ at[c] \in {"isPending", "unapply"} => req[c].op \in {"accept", "reject"}
    /\ at[c] = "relate" => req[c].op = "accept"
    /\ at[c] \in {"session", "members"} => req[c].op \in {"accept", "create"}
    /\ at[c] \in {"unrelate", "find", "unsession"} => req[c].op = "remove"

TypeInv == TypeOK /\ StepFitsRequest

LEMMA TypeInit == Init => TypeInv
  BY FriendAssumption DEF Init, TypeInv, TypeOK, StepFitsRequest, Step, Called

LEMMA CallIsNat == \A c \in Call : c \in Nat /\ c # 0
  BY FriendAssumption DEF Call

LEMMA PairOfCalled ==
  ASSUME TypeInv, NEW c \in Call, Called(c)
  PROVE  /\ req[c] \in Requests
         /\ req[c].uid \in User /\ req[c].pid \in User
         /\ Pair(c) \in SUBSET User
  BY DEF TypeInv, StepFitsRequest, Requests, Pair

(* What a failing transaction and a crash leave well typed. *)
LEMMA FaultTypes ==
  ASSUME TypeInv, NEW c \in Call, Called(c), Fault(c)
  PROVE  faults' \in 0..MaxFaults /\ tangled' \subseteq SUBSET User
<1>1. faults' \in 0..MaxFaults
  BY FriendAssumption DEF TypeInv, TypeOK, Fault
<1>2. tangled' \subseteq SUBSET User
  BY PairOfCalled DEF TypeInv, TypeOK, Fault
<1> QED
  BY <1>1, <1>2

LEMMA DeathTypes ==
  ASSUME TypeInv, Dies
  PROVE  /\ at' \in [Call -> Step]
         /\ cssid' \in [Call -> Call \cup {0}]
         /\ tangled' \subseteq SUBSET User
         /\ StepFitsRequest'
         /\ \A c \in Call : Called(c)' => req'[c] # NoRequest
<1>1. at' \in [Call -> Step] /\ cssid' \in [Call -> Call \cup {0}]
  BY DEF TypeInv, TypeOK, Dies, Step
<1>2. \A d \in Call : InProgress(d) => Pair(d) \in SUBSET User
  BY PairOfCalled DEF InProgress, Called
<1>3. tangled' \subseteq SUBSET User
  BY <1>2 DEF TypeInv, TypeOK, Dies
<1>4. \A d \in Call : at'[d] = IF InProgress(d) THEN "failed" ELSE at[d]
  BY DEF Dies
<1>5. StepFitsRequest' /\ \A c \in Call : Called(c)' => req'[c] # NoRequest
  BY <1>4 DEF TypeInv, TypeOK, StepFitsRequest, Dies, Called, InProgress
<1> QED
  BY <1>1, <1>3, <1>5

LEMMA TypeStep == TypeInv /\ [Next]_vars => TypeInv'
<1> SUFFICES ASSUME TypeInv, [Next]_vars
             PROVE  TypeInv'
  OBVIOUS
<1> USE DEF NoFault, tables
<1>1. ASSUME NEW c \in Call, NEW r \in Requests, Start(c, r)
      PROVE  TypeInv'
  <2>1. First(r.op) \in Step \ {"none"}
    BY DEF First, Step, Requests
  <2>2. {r.uid, r.pid} \in SUBSET User
    BY DEF Requests
  <2>3. tangled' \subseteq SUBSET User
    BY <1>1, <2>2 DEF Start, TypeInv, TypeOK
  <2>4. at' = [at EXCEPT ![c] = First(r.op)] /\ req' = [req EXCEPT ![c] = r]
    BY <1>1 DEF Start, Goto
  <2>5. at' \in [Call -> Step] /\ req' \in [Call -> Requests \cup {NoRequest}]
    BY <2>1, <2>4 DEF TypeInv, TypeOK
  <2>6. \A d \in Call : Called(d)' => req'[d] # NoRequest
    BY <2>4, FriendAssumption DEF TypeInv, TypeOK, Called
  <2>7. StepFitsRequest'
    <3>1. /\ r.uid # r.pid
          /\ at'[c] = First(r.op) /\ req'[c] = r
      BY <1>1, <2>4 DEF Start, TypeInv, TypeOK
    <3>2. \A d \in Call \ {c} : at'[d] = at[d] /\ req'[d] = req[d]
      BY <2>4 DEF TypeInv, TypeOK
    <3> QED
      BY <3>1, <3>2 DEF TypeInv, StepFitsRequest, Called, First, Requests
  <2> QED
    BY <1>1, <2>3, <2>5, <2>6, <2>7 DEF Start, TypeInv, TypeOK
<1>2. ASSUME NEW c \in Call, FriendAdd(c)
      PROVE  TypeInv'
  <2>1. Called(c) /\ req[c].op = "add" /\ UNCHANGED <<req, cssid, relations, sessions, members>>
    BY <1>2 DEF FriendAdd, IsFriend, HasApplied, InsertApply, TypeInv, StepFitsRequest, Called
  <2>2. PICK s \in {"isApplied", "apply", "ok", "failed"} :
          at' = [at EXCEPT ![c] = s]
    BY <1>2 DEF FriendAdd, IsFriend, HasApplied, InsertApply, Fails, Goto
  <2>3. faults' \in 0..MaxFaults /\ tangled' \subseteq SUBSET User
    BY <1>2, <2>1, FaultTypes DEF FriendAdd, IsFriend, HasApplied, InsertApply, Fails,
       TypeInv, TypeOK
  <2>4. applies' \subseteq Apply
    BY <1>2, <2>1, PairOfCalled DEF FriendAdd, IsFriend, HasApplied, InsertApply,
       TypeInv, TypeOK, Apply
  <2> QED
    BY <2>1, <2>2, <2>3, <2>4 DEF TypeInv, TypeOK, StepFitsRequest, Called, Step
<1>3. ASSUME NEW c \in Call, FriendAddProcess(c)
      PROVE  TypeInv'
  <2>1. /\ Called(c) /\ req[c].op \in {"accept", "reject"}
        /\ UNCHANGED <<req, cssid, sessions, members>>
    BY <1>3 DEF FriendAddProcess, IsPending, RemoveApply, InsertRelation,
       TypeInv, StepFitsRequest, Called
  <2>2. PICK s \in {"unapply", "relate", "session", "ok", "failed"} :
          /\ at' = [at EXCEPT ![c] = s]
          /\ s \in {"relate", "session"} => req[c].op = "accept"
    BY <1>3 DEF FriendAddProcess, IsPending, RemoveApply, InsertRelation, Fails, Goto,
       TypeInv, StepFitsRequest, Called
  <2>3. faults' \in 0..MaxFaults /\ tangled' \subseteq SUBSET User
    BY <1>3, <2>1, FaultTypes DEF FriendAddProcess, IsPending, RemoveApply, InsertRelation,
       Fails, TypeInv, TypeOK
  <2>4. applies' \subseteq Apply
    BY <1>3 DEF FriendAddProcess, IsPending, RemoveApply, InsertRelation, TypeInv, TypeOK
  <2>5. relations' \subseteq Relation
    BY <1>3, <2>1, PairOfCalled DEF FriendAddProcess, IsPending, RemoveApply,
       InsertRelation, TypeInv, TypeOK, Relation
  <2> QED
    BY <2>1, <2>2, <2>3, <2>4, <2>5 DEF TypeInv, TypeOK, StepFitsRequest, Called, Step
<1>4. ASSUME NEW c \in Call, NewChat(c)
      PROVE  TypeInv'
  <2>1. /\ Called(c) /\ req[c].op \in {"accept", "create"}
        /\ UNCHANGED <<req, cssid, applies, relations>>
    BY <1>4 DEF NewChat, InsertSession, AppendMembers, TypeInv, StepFitsRequest, Called
  <2>2. PICK s \in {"members", "ok", "failed"} : at' = [at EXCEPT ![c] = s]
    BY <1>4 DEF NewChat, InsertSession, AppendMembers, Fails, Goto
  <2>3. faults' \in 0..MaxFaults /\ tangled' \subseteq SUBSET User
    BY <1>4, <2>1, FaultTypes DEF NewChat, InsertSession, AppendMembers, Fails,
       TypeInv, TypeOK
  <2>4. sessions' \subseteq ChatSession
    BY <1>4 DEF NewChat, InsertSession, AppendMembers, TypeInv, TypeOK, ChatSession
  <2>5. members' \subseteq ChatSessionMember
    <3>1. [ssid : {c}, uid : Pair(c)] \subseteq ChatSessionMember
      BY <2>1, PairOfCalled DEF ChatSessionMember
    <3> QED
      BY <1>4, <3>1 DEF NewChat, InsertSession, AppendMembers, TypeInv, TypeOK
  <2> QED
    BY <2>1, <2>2, <2>3, <2>4, <2>5 DEF TypeInv, TypeOK, StepFitsRequest, Called, Step
<1>5. ASSUME NEW c \in Call, RemoveRelation(c) \/ RemoveSession(c)
      PROVE  TypeInv'
  <2>1. Called(c) /\ req[c].op = "remove" /\ UNCHANGED <<req, applies>>
    BY <1>5 DEF RemoveRelation, RemoveSession, TypeInv, StepFitsRequest, Called
  <2>2. PICK s \in {"find", "ok", "failed"} : at' = [at EXCEPT ![c] = s]
    BY <1>5 DEF RemoveRelation, RemoveSession, Fails, Goto
  <2>3. faults' \in 0..MaxFaults /\ tangled' \subseteq SUBSET User
    BY <1>5, <2>1, FaultTypes DEF RemoveRelation, RemoveSession, Fails, TypeInv, TypeOK
  <2>4. cssid' \in [Call -> Call \cup {0}]
    BY <1>5 DEF RemoveRelation, RemoveSession, TypeInv, TypeOK
  <2>5. /\ relations' \subseteq Relation
        /\ sessions' \subseteq ChatSession
        /\ members' \subseteq ChatSessionMember
    BY <1>5 DEF RemoveRelation, RemoveSession, TypeInv, TypeOK
  <2> QED
    BY <2>1, <2>2, <2>3, <2>4, <2>5 DEF TypeInv, TypeOK, StepFitsRequest, Called, Step
<1>6. ASSUME NEW c \in Call, FindSession(c)
      PROVE  TypeInv'
  <2>1. Called(c) /\ req[c].op = "remove" /\ UNCHANGED <<req, tables>>
    BY <1>6 DEF FindSession, Dies, TypeInv, StepFitsRequest, Called
  <2>2. CASE Dies /\ UNCHANGED faults
    BY <2>1, <2>2, DeathTypes DEF TypeInv, TypeOK, Dies
  <2>3. CASE Fails(c) /\ UNCHANGED cssid
    BY <2>1, <2>3, FaultTypes DEF Fails, Goto, TypeInv, TypeOK, StepFitsRequest, Called, Step
  <2>4. ASSUME NEW e \in ChatsWith(req[c].uid, req[c].pid),
               cssid' = [cssid EXCEPT ![c] = e.ssid], Goto(c, "unsession"), NoFault
        PROVE  TypeInv'
    <3>1. e.ssid \in Call
      BY <2>4 DEF ChatsWith, SingleChats
    <3> QED
      BY <2>1, <2>4, <3>1 DEF Goto, TypeInv, TypeOK, StepFitsRequest, Called, Step
  <2> QED
    BY <1>6, <2>2, <2>3, <2>4 DEF FindSession
<1>7. CASE ServiceDies
  <2>1. faults' \in 0..MaxFaults
    BY <1>7, FriendAssumption DEF ServiceDies, TypeInv, TypeOK
  <2> QED
    BY <1>7, <2>1, DeathTypes DEF ServiceDies, Dies, TypeInv, TypeOK
<1>8. CASE UNCHANGED vars
  BY <1>8 DEF vars, TypeInv, TypeOK, StepFitsRequest, Called
<1> QED
  BY <1>1, <1>2, <1>3, <1>4, <1>5, <1>6, <1>7, <1>8 DEF Next, FriendRemove

(* Every reachable state of the friend service and its tables has its      *)
(* types.                                                                  *)
THEOREM FriendTypeCorrect == Spec => []TypeOK
<1>1. TypeInv => TypeOK
  BY DEF TypeInv
<1> QED
  BY <1>1, TypeInit, TypeStep, PTL DEF Spec

-----------------------------------------------------------------------------
(* A call that was made stays made, and its request is the one it came     *)
(* with.                                                                   *)
LEMMA CallsStay ==
  ASSUME TypeInv, [Next]_vars
  PROVE  \A c \in Call : Called(c) => Called(c)' /\ req'[c] = req[c]
<1> USE DEF TypeInv, TypeOK, Called
<1>1. ASSUME NEW c \in Call, NEW r \in Requests, Start(c, r)
      PROVE  \A d \in Call : Called(d) => Called(d)' /\ req'[d] = req[d]
  BY <1>1 DEF Start, Goto
<1>2. ASSUME NEW c \in Call, FriendAdd(c) \/ FriendAddProcess(c) \/ NewChat(c)
      PROVE  \A d \in Call : Called(d) => Called(d)' /\ req'[d] = req[d]
  BY <1>2 DEF FriendAdd, IsFriend, HasApplied, InsertApply, FriendAddProcess, IsPending,
     RemoveApply, InsertRelation, NewChat, InsertSession, AppendMembers, Fails, Goto
<1>3. ASSUME Dies
      PROVE  \A d \in Call : Called(d) => Called(d)' /\ req'[d] = req[d]
  BY <1>3 DEF Dies
<1>4. ASSUME NEW c \in Call, FriendRemove(c)
      PROVE  \A d \in Call : Called(d) => Called(d)' /\ req'[d] = req[d]
  BY <1>3, <1>4 DEF FriendRemove, RemoveRelation, FindSession, RemoveSession, Fails, Goto
<1>5. CASE UNCHANGED vars
  BY <1>5 DEF vars
<1> QED
  BY <1>1, <1>2, <1>3, <1>4, <1>5 DEF Next, ServiceDies

-----------------------------------------------------------------------------
(* Refinement of Friendship.  An application, and so its acceptance, comes *)
(* from somebody who asked.                                                *)
HasAsked(u, p) ==
  \E c \in Call : Called(c) /\ req[c].op = "add" /\ req[c].uid = u /\ req[c].pid = p

AskedInv ==
  /\ \A a \in applies : HasAsked(a.uid, a.pid)
  /\ \A c \in Call :
       at[c] \in {"unapply", "relate"} => HasAsked(req[c].pid, req[c].uid)

LEMMA AskedStays ==
  ASSUME TypeInv, [Next]_vars, NEW u, NEW p, HasAsked(u, p)
  PROVE  HasAsked(u, p)'
  BY CallsStay DEF HasAsked

LEMMA AskedStep == TypeInv /\ AskedInv /\ [Next]_vars => AskedInv'
<1> SUFFICES ASSUME TypeInv, AskedInv, [Next]_vars
             PROVE  AskedInv'
  OBVIOUS
<1>1. \A a \in applies : HasAsked(a.uid, a.pid)'
  BY AskedStays DEF AskedInv
<1>2. ASSUME NEW c \in Call, at[c] \in {"unapply", "relate"}
      PROVE  HasAsked(req[c].pid, req[c].uid)'
  <2>1. Called(c)
    BY <1>2 DEF Called
  <2> QED
    BY <1>2, <2>1, CallsStay DEF AskedInv, HasAsked
<1>3. ASSUME applies' \subseteq applies,
             \A c \in Call : at'[c] \in {"unapply", "relate"} => at[c] \in {"unapply", "relate"}
      PROVE  AskedInv'
  BY <1>1, <1>2, <1>3 DEF AskedInv, HasAsked
<1> USE DEF tables
<1>4. ASSUME NEW c \in Call, NEW r \in Requests, Start(c, r)
      PROVE  AskedInv'
  BY <1>3, <1>4 DEF Start, Goto, First, Requests, TypeInv, TypeOK
<1>5. ASSUME NEW c \in Call, FriendAdd(c)
      PROVE  AskedInv'
  <2>1. Called(c) /\ req[c].op = "add"
    BY <1>5 DEF FriendAdd, IsFriend, HasApplied, InsertApply, TypeInv, StepFitsRequest, Called
  <2>2. HasAsked(req[c].uid, req[c].pid)
    BY <2>1 DEF HasAsked
  <2>3. \A a \in applies' : a \in applies \/ (a.uid = req[c].uid /\ a.pid = req[c].pid)
    <3>1. CASE IsFriend(c) \/ HasApplied(c)
      BY <3>1 DEF IsFriend, HasApplied
    <3>2. CASE InsertApply(c)
      BY <3>2 DEF InsertApply
    <3> QED
      BY <1>5, <3>1, <3>2 DEF FriendAdd
  <2>4. \A a \in applies' : HasAsked(a.uid, a.pid)'
    BY <1>1, <2>2, <2>3, AskedStays
  <2>5. \A d \in Call : at'[d] \in {"unapply", "relate"} => at[d] \in {"unapply", "relate"}
    BY <1>5 DEF FriendAdd, IsFriend, HasApplied, InsertApply, Fails, Goto, TypeInv, TypeOK
  <2> QED
    BY <1>2, <2>4, <2>5 DEF AskedInv, HasAsked
<1>6. ASSUME NEW c \in Call, IsPending(c)
      PROVE  AskedInv'
  <2>1. applies' = applies /\ \A d \in Call \ {c} : at'[d] = at[d]
    BY <1>6 DEF IsPending, Fails, Goto, TypeInv, TypeOK
  <2>2. Called(c)
    BY <1>6 DEF IsPending, Called
  <2>3. at'[c] = "unapply" => IsApplied(req[c].pid, req[c].uid)
    BY <1>6 DEF IsPending, Fails, Goto, TypeInv, TypeOK
  <2>4. at'[c] = "unapply" => HasAsked(req[c].pid, req[c].uid)'
    BY <1>1, <2>2, <2>3, CallsStay DEF IsApplied, ApplyUsers, HasAsked
  <2>5. at'[c] \in {"unapply", "failed"}
    BY <1>6 DEF IsPending, Fails, Goto, TypeInv, TypeOK
  <2> QED
    BY <1>1, <1>2, <2>1, <2>4, <2>5 DEF AskedInv, HasAsked
<1>7. ASSUME NEW c \in Call, RemoveApply(c) \/ InsertRelation(c)
      PROVE  AskedInv'
  BY <1>3, <1>7 DEF RemoveApply, InsertRelation, Fails, Goto, TypeInv, TypeOK
<1>8. ASSUME NEW c \in Call, NewChat(c)
      PROVE  AskedInv'
  BY <1>3, <1>8 DEF NewChat, InsertSession, AppendMembers, Fails, Goto, TypeInv, TypeOK
<1>9. CASE Dies
  BY <1>3, <1>9 DEF Dies
<1>10. ASSUME NEW c \in Call, FriendRemove(c)
       PROVE  AskedInv'
  BY <1>3, <1>9, <1>10 DEF FriendRemove, RemoveRelation, FindSession, RemoveSession,
     Fails, Goto, TypeInv, TypeOK
<1>11. CASE UNCHANGED vars
  BY <1>3, <1>11 DEF vars
<1> QED
  BY <1>4, <1>5, <1>6, <1>7, <1>8, <1>9, <1>10, <1>11 DEF Next, FriendAddProcess, ServiceDies

(* What the contract sees depends on the calls and their requests only. *)
LEMMA WishesStay ==
  ASSUME UNCHANGED req, \A c \in Call : Called(c)' <=> Called(c), NEW op
  PROVE  Wishes(op)' = Wishes(op)
  BY DEF Wishes

(* Which of the steps touch what the contract sees. *)
LEMMA StepImplements ==
  TypeInv /\ AskedInv /\ [Next]_vars => [Contract!Next]_Contract!vars
<1> SUFFICES ASSUME TypeInv, AskedInv, [Next]_vars
             PROVE  [Contract!Next]_Contract!vars
  OBVIOUS
<1> DEFINE friends == {<<r.uid, r.pid>> : r \in relations}
<1> USE DEF tables
<1>1. ASSUME UNCHANGED <<req, relations>>, \A c \in Call : Called(c)' <=> Called(c)
      PROVE  UNCHANGED Contract!vars
  BY <1>1, WishesStay DEF Contract!vars
<1>2. ASSUME NEW c \in Call, NEW r \in Requests, Start(c, r)
      PROVE  [Contract!Next]_Contract!vars
  <2>1. /\ friends' = friends
        /\ r.uid \in User /\ r.pid \in User
        /\ ~Called(c) /\ Called(c)' /\ req'[c] = r
    BY <1>2 DEF Start, Goto, First, Called, Requests, TypeInv, TypeOK
  <2>2. \A d \in Call \ {c} : req'[d] = req[d] /\ (Called(d)' <=> Called(d))
    BY <1>2 DEF Start, Goto, Called, TypeInv, TypeOK
  <2>3. \A op : Wishes(op)' = IF r.op = op THEN Wishes(op) \cup {<<r.uid, r.pid>>}
                             ELSE Wishes(op)
    BY <2>1, <2>2 DEF Wishes
  <2>4. CASE r.op = "add"
    BY <2>1, <2>3, <2>4 DEF Contract!Next, Contract!Ask, Contract!vars
  <2>5. CASE r.op = "accept"
    BY <2>1, <2>3, <2>5 DEF Contract!Next, Contract!Agree, Contract!vars
  <2>6. CASE r.op \notin {"add", "accept"}
    BY <2>1, <2>3, <2>6 DEF Contract!vars
  <2> QED
    BY <2>4, <2>5, <2>6
<1>3. ASSUME NEW c \in Call,
             FriendAdd(c) \/ IsPending(c) \/ RemoveApply(c) \/ NewChat(c) \/ RemoveSession(c)
      PROVE  UNCHANGED Contract!vars
  <2>1. UNCHANGED <<req, relations>>
    BY <1>3 DEF FriendAdd, IsFriend, HasApplied, InsertApply, IsPending, RemoveApply,
       NewChat, InsertSession, AppendMembers, RemoveSession
  <2>2. \A d \in Call : Called(d)' <=> Called(d)
    BY <1>3 DEF FriendAdd, IsFriend, HasApplied, InsertApply, IsPending, RemoveApply,
       NewChat, InsertSession, AppendMembers, RemoveSession, Fails, Goto, Called,
       TypeInv, TypeOK
  <2> QED
    BY <1>1, <2>1, <2>2
<1>4. ASSUME Dies
      PROVE  UNCHANGED Contract!vars
  <2>1. \A d \in Call : Called(d)' <=> Called(d)
    BY <1>4 DEF Dies, Called, InProgress
  <2> QED
    BY <1>1, <1>4, <2>1 DEF Dies
<1>5. ASSUME NEW c \in Call, FindSession(c)
      PROVE  UNCHANGED Contract!vars
  <2>1. CASE ~Dies
    <3>1. UNCHANGED <<req, relations>> /\ \A d \in Call : Called(d)' <=> Called(d)
      BY <1>5, <2>1 DEF FindSession, Fails, Goto, Called, TypeInv, TypeOK
    <3> QED
      BY <1>1, <3>1
  <2> QED
    BY <1>4, <2>1
<1>6. ASSUME NEW c \in Call, InsertRelation(c)
      PROVE  [Contract!Next]_Contract!vars
  <2> DEFINE u == req[c].uid
             p == req[c].pid
  <2>1. /\ Called(c) /\ at[c] = "relate" /\ req[c].op = "accept"
        /\ u \in User /\ p \in User
    BY <1>6, PairOfCalled DEF InsertRelation, Called, TypeInv, StepFitsRequest
  <2>2. UNCHANGED req /\ \A d \in Call : Called(d)' <=> Called(d)
    BY <1>6 DEF InsertRelation, Fails, Goto, Called, TypeInv, TypeOK
  <2>3. \A op : Wishes(op)' = Wishes(op)
    BY <2>2, WishesStay
  <2>4. <<p, u>> \in Wishes("add")
    BY <2>1 DEF AskedInv, HasAsked, Wishes
  <2>5. <<u, p>> \in Wishes("accept")
    BY <2>1 DEF Wishes
  <2>6. CASE relations' = relations
    BY <2>3, <2>6 DEF Contract!vars
  <2>7. CASE relations' = relations \cup {[by |-> c, uid |-> u, pid |-> p],
                                         [by |-> c, uid |-> p, pid |-> u]}
    <3>1. friends' = friends \cup {<<u, p>>, <<p, u>>}
      <4> DEFINE up == [by |-> c, uid |-> u, pid |-> p]
                 pu == [by |-> c, uid |-> p, pid |-> u]
      <4>1. up.uid = u /\ up.pid = p /\ pu.uid = p /\ pu.pid = u
        OBVIOUS
      <4>2. relations' = relations \cup {up, pu}
        BY <2>7
      <4> HIDE DEF up, pu, u, p
      <4> QED
        BY <4>1, <4>2
    <3> QED
      BY <2>1, <2>3, <2>4, <2>5, <3>1 DEF Contract!Next, Contract!Befriend
  <2> QED
    BY <1>6, <2>6, <2>7 DEF InsertRelation
<1>7. ASSUME NEW c \in Call, RemoveRelation(c)
      PROVE  [Contract!Next]_Contract!vars
  <2> DEFINE u == req[c].uid
             p == req[c].pid
  <2>1. Called(c) /\ u \in User /\ p \in User
    BY <1>7, PairOfCalled DEF RemoveRelation, Called
  <2>2. UNCHANGED req /\ \A d \in Call : Called(d)' <=> Called(d)
    BY <1>7 DEF RemoveRelation, Fails, Goto, Called, TypeInv, TypeOK
  <2>3. \A op : Wishes(op)' = Wishes(op)
    BY <2>2, WishesStay
  <2>4. CASE relations' = relations
    BY <2>3, <2>4 DEF Contract!vars
  <2>5. CASE relations' = {r \in relations : {r.uid, r.pid} # Pair(c)}
    <3>1. relations' = {r \in relations : {r.uid, r.pid} # {u, p}}
      BY <2>5 DEF Pair
    <3>2. friends' = friends \ {<<u, p>>, <<p, u>>}
      <4> HIDE DEF u, p
      <4>1. \A r : {r.uid, r.pid} = {u, p} <=>
                   <<r.uid, r.pid>> = <<u, p>> \/ <<r.uid, r.pid>> = <<p, u>>
        OBVIOUS
      <4> QED
        BY <3>1, <4>1
    <3> QED
      BY <2>1, <2>3, <3>2 DEF Contract!Next, Contract!Unfriend
  <2> QED
    BY <1>7, <2>4, <2>5 DEF RemoveRelation
<1>8. CASE UNCHANGED vars
  BY <1>1, <1>8 DEF vars, Called
<1> QED
  BY <1>2, <1>3, <1>4, <1>5, <1>6, <1>7, <1>8 DEF Next, FriendAddProcess, FriendRemove,
     ServiceDies

(* Two users become friends only when one asked and the other agreed, and  *)
(* friendship is mutual in every state, whatever calls overlap, fail or    *)
(* die: at the table of relations, the service is that of Friendship.      *)
THEOREM FriendshipIsImplemented == Spec => ImplementsFriendship
<1>1. Init => Contract!Init
  BY DEF Init, Contract!Init, Wishes, Called
<1>2. Init => AskedInv
  BY DEF Init, AskedInv
<1> QED
  BY <1>1, <1>2, TypeInit, TypeStep, AskedStep, StepImplements, PTL
     DEF Spec, ImplementsFriendship, Contract!Spec

-----------------------------------------------------------------------------
(* Chats.  A chat's rows appear while its call makes them; both members    *)
(* come and go together; and a removal is of a chat that an acceptance of  *)
(* the same two users made, never of one still in the making.              *)
Finished(c) == at[c] \in {"ok", "failed"}

SessionsAreMade ==
  /\ \A s \in sessions : Finished(s.ssid) \/ at[s.ssid] = "members"
  /\ \A s \in sessions : s.type = "SINGLE" => req[s.ssid].op = "accept"
  /\ \A c \in Call : at[c] = "members" => \E s \in sessions : s.ssid = c

MembersTogether ==
  \A m \in members :
    /\ Finished(m.ssid)
    /\ m.uid \in Pair(m.ssid)
    /\ \A u \in Pair(m.ssid) : [ssid |-> m.ssid, uid |-> u] \in members
    /\ \E s \in sessions : s.ssid = m.ssid

RemovesTheirChat ==
  \A d \in Call : at[d] = "unsession" =>
    /\ cssid[d] \in Call
    /\ Finished(cssid[d])
    /\ req[cssid[d]].op = "accept"
    /\ Pair(cssid[d]) = Pair(d)

ChatInv == SessionsAreMade /\ MembersTogether /\ RemovesTheirChat

LEMMA ChatInit == Init => ChatInv
  BY DEF Init, ChatInv, SessionsAreMade, MembersTogether, RemovesTheirChat

(* A step that leaves the rows of the chats alone. *)
LEMMA ChatFrame ==
  ASSUME TypeInv, ChatInv, [Next]_vars, UNCHANGED <<sessions, members>>,
         \A c \in Call : Finished(c) => Finished(c)',
         \A c \in Call : at[c] = "members" => at'[c] = "members" \/ Finished(c)',
         \A c \in Call : at'[c] = "members" => at[c] = "members",
         \A c \in Call : at'[c] = "unsession" => at[c] = "unsession" /\ cssid'[c] = cssid[c]
  PROVE  ChatInv'
<1>1. \A c \in Call : Finished(c) \/ at[c] = "members" \/ at[c] = "unsession" =>
        req'[c] = req[c] /\ Pair(c)' = Pair(c)
  BY CallsStay DEF Finished, Called, Pair
<1>2. SessionsAreMade'
  BY <1>1 DEF ChatInv, SessionsAreMade, TypeInv, TypeOK, ChatSession
<1>3. MembersTogether'
  BY <1>1 DEF ChatInv, MembersTogether, TypeInv, TypeOK, ChatSessionMember
<1>4. RemovesTheirChat'
  BY <1>1 DEF ChatInv, RemovesTheirChat
<1> QED
  BY <1>2, <1>3, <1>4 DEF ChatInv

(* A handler that goes on to a step other than these three.                *)
LEMMA ChatGoto ==
  ASSUME TypeInv, ChatInv, [Next]_vars, UNCHANGED <<sessions, members, cssid>>,
         NEW c \in Call, ~Finished(c), at[c] # "members",
         NEW s \in Step \ {"members", "unsession"}, Goto(c, s)
  PROVE  ChatInv'
  BY ChatFrame DEF Goto, Finished, TypeInv, TypeOK

LEMMA DeathKeepsChats ==
  ASSUME TypeInv, ChatInv, [Next]_vars, Dies
  PROVE  ChatInv'
<1>1. \A d \in Call : at'[d] = IF InProgress(d) THEN "failed" ELSE at[d]
  BY DEF Dies
<1> QED
  BY <1>1, ChatFrame DEF Dies, tables, InProgress, Finished

LEMMA ChatStep == TypeInv /\ ChatInv /\ [Next]_vars => ChatInv'
<1> SUFFICES ASSUME TypeInv, ChatInv, [Next]_vars
             PROVE  ChatInv'
  OBVIOUS
<1> USE DEF tables
<1>1. ASSUME NEW c \in Call, NEW r \in Requests, Start(c, r)
      PROVE  ChatInv'
  <2>1. /\ ~Called(c)
        /\ Goto(c, First(r.op))
        /\ UNCHANGED <<sessions, members, cssid>>
    BY <1>1 DEF Start
  <2>2. First(r.op) \in Step \ {"members", "unsession"}
    BY DEF First, Step, Requests
  <2> QED
    BY <2>1, <2>2, ChatGoto DEF Called, Finished
<1>2. ASSUME NEW c \in Call, FriendAdd(c)
      PROVE  ChatInv'
  <2>1. /\ ~Finished(c) /\ at[c] # "members"
        /\ UNCHANGED <<sessions, members, cssid>>
    BY <1>2 DEF FriendAdd, IsFriend, HasApplied, InsertApply, Finished
  <2>2. \E s \in Step \ {"members", "unsession"} : Goto(c, s)
    BY <1>2 DEF FriendAdd, IsFriend, HasApplied, InsertApply, Fails, Step
  <2> QED
    BY <2>1, <2>2, ChatGoto
<1>3. ASSUME NEW c \in Call, FriendAddProcess(c)
      PROVE  ChatInv'
  <2>1. /\ ~Finished(c) /\ at[c] # "members"
        /\ UNCHANGED <<sessions, members, cssid>>
    BY <1>3 DEF FriendAddProcess, IsPending, RemoveApply, InsertRelation, Finished
  <2>2. \E s \in Step \ {"members", "unsession"} : Goto(c, s)
    BY <1>3 DEF FriendAddProcess, IsPending, RemoveApply, InsertRelation, Fails, Step
  <2> QED
    BY <2>1, <2>2, ChatGoto
<1>4. ASSUME NEW c \in Call, InsertSession(c)
      PROVE  ChatInv'
  <2> DEFINE row == [ssid |-> c, type |-> IF req[c].op = "accept" THEN "SINGLE" ELSE "GROUP"]
  <2>1. /\ at[c] = "session" /\ Called(c)
        /\ UNCHANGED <<req, cssid, members>>
    BY <1>4 DEF InsertSession, Called
  <2>2. \A d \in Call \ {c} : at'[d] = at[d]
    BY <1>4 DEF InsertSession, Fails, Goto, TypeInv, TypeOK
  <2>3. \/ sessions' = sessions \cup {row} /\ at'[c] = "members"
        \/ sessions' \in {sessions, sessions \cup {row}} /\ at'[c] = "failed"
    BY <1>4 DEF InsertSession, Fails, Goto, TypeInv, TypeOK
  <2>4. row.ssid = c /\ (row.type = "SINGLE" => req[c].op = "accept")
    OBVIOUS
  <2> HIDE DEF row
  <2>5. SessionsAreMade'
    BY <2>1, <2>2, <2>3, <2>4 DEF ChatInv, SessionsAreMade, Finished, TypeInv, TypeOK,
       ChatSession
  <2>6. MembersTogether'
    BY <2>1, <2>2, <2>3 DEF ChatInv, MembersTogether, Finished, Pair, TypeInv, TypeOK,
       ChatSessionMember
  <2>7. RemovesTheirChat'
    BY <2>1, <2>2, <2>3 DEF ChatInv, RemovesTheirChat, Finished, Pair
  <2> QED
    BY <2>5, <2>6, <2>7 DEF ChatInv
<1>5. ASSUME NEW c \in Call, AppendMembers(c)
      PROVE  ChatInv'
  <2> DEFINE rows == [ssid : {c}, uid : Pair(c)]
  <2>1. /\ at[c] = "members" /\ Called(c)
        /\ UNCHANGED <<req, cssid, sessions>>
    BY <1>5 DEF AppendMembers, Called
  <2>2. \A d \in Call \ {c} : at'[d] = at[d]
    BY <1>5 DEF AppendMembers, Fails, Goto, TypeInv, TypeOK
  <2>3. members' \in {members, members \cup rows} /\ Finished(c)'
    BY <1>5 DEF AppendMembers, Fails, Goto, Finished, TypeInv, TypeOK
  <2>4. \A m \in rows : m.ssid = c /\ m.uid \in Pair(c)
    OBVIOUS
  <2>5. \A u \in Pair(c) : [ssid |-> c, uid |-> u] \in rows
    OBVIOUS
  <2>6. \E s \in sessions : s.ssid = c
    BY <2>1 DEF ChatInv, SessionsAreMade
  <2> HIDE DEF rows
  <2>7. SessionsAreMade'
    BY <2>1, <2>2, <2>3 DEF ChatInv, SessionsAreMade, Finished, TypeInv, TypeOK, ChatSession
  <2>8. MembersTogether'
    BY <2>1, <2>2, <2>3, <2>4, <2>5, <2>6 DEF ChatInv, MembersTogether, Finished, Pair,
       TypeInv, TypeOK, ChatSessionMember
  <2>9. RemovesTheirChat'
    BY <2>1, <2>2, <2>3 DEF ChatInv, RemovesTheirChat, Finished, Pair
  <2> QED
    BY <2>7, <2>8, <2>9 DEF ChatInv
<1>6. ASSUME NEW c \in Call, RemoveRelation(c)
      PROVE  ChatInv'
  <2>1. /\ ~Finished(c) /\ at[c] # "members"
        /\ UNCHANGED <<sessions, members, cssid>>
    BY <1>6 DEF RemoveRelation, Finished
  <2>2. \E s \in Step \ {"members", "unsession"} : Goto(c, s)
    BY <1>6 DEF RemoveRelation, Fails, Step
  <2> QED
    BY <2>1, <2>2, ChatGoto
<1>7. ASSUME NEW c \in Call, FindSession(c)
      PROVE  ChatInv'
  <2>1. at[c] = "find" /\ Called(c)
    BY <1>7 DEF FindSession, Called
  <2>2. CASE Fails(c) /\ UNCHANGED <<req, cssid, tables>>
    BY <2>1, <2>2, ChatGoto DEF Fails, Finished, Step
  <2>3. ASSUME NEW e \in ChatsWith(req[c].uid, req[c].pid),
               cssid' = [cssid EXCEPT ![c] = e.ssid], Goto(c, "unsession"),
               UNCHANGED <<req, tables>>
        PROVE  ChatInv'
    <3>1. /\ e.ssid \in Call
          /\ {req[c].uid, req[c].pid} \subseteq Members(e.ssid)
          /\ [ssid |-> e.ssid, type |-> "SINGLE"] \in sessions
      BY <2>3 DEF ChatsWith, SingleChats
    <3>2. Finished(e.ssid) /\ {req[c].uid, req[c].pid} \subseteq Pair(e.ssid)
      BY <3>1 DEF Members, ChatInv, MembersTogether
    <3>3. req[c].uid # req[c].pid
      BY <2>1 DEF TypeInv, StepFitsRequest
    <3>4. Pair(e.ssid) = Pair(c)
      BY <3>2, <3>3 DEF Pair
    <3>5. req[e.ssid].op = "accept"
      BY <3>1 DEF ChatInv, SessionsAreMade
    <3>6. /\ at'[c] = "unsession" /\ cssid'[c] = e.ssid
          /\ \A d \in Call \ {c} : at'[d] = at[d] /\ cssid'[d] = cssid[d]
      BY <2>3 DEF Goto, TypeInv, TypeOK
    <3>7. SessionsAreMade'
      BY <2>1, <2>3, <3>6 DEF ChatInv, SessionsAreMade, Finished, TypeInv, TypeOK,
         ChatSession
    <3>8. MembersTogether'
      BY <2>1, <2>3, <3>6 DEF ChatInv, MembersTogether, Finished, Pair, TypeInv, TypeOK,
         ChatSessionMember
    <3>9. RemovesTheirChat'
      BY <2>1, <2>3, <3>1, <3>2, <3>4, <3>5, <3>6 DEF ChatInv, RemovesTheirChat,
         Finished, Pair
    <3> QED
      BY <3>7, <3>8, <3>9 DEF ChatInv
  <2> QED
    BY <1>7, <2>2, <2>3, DeathKeepsChats DEF FindSession
<1>8. ASSUME NEW c \in Call, RemoveSession(c)
      PROVE  ChatInv'
  <2>1. at[c] = "unsession" /\ Called(c) /\ UNCHANGED req
    BY <1>8 DEF RemoveSession, Called
  <2>2. /\ Finished(c)'
        /\ \A d \in Call \ {c} : at'[d] = at[d] /\ cssid'[d] = cssid[d]
    BY <1>8 DEF RemoveSession, Fails, Goto, Finished, TypeInv, TypeOK
  <2>3. CASE UNCHANGED <<sessions, members>>
    BY <2>1, <2>2, <2>3, ChatFrame DEF Finished
  <2>4. CASE /\ sessions' = {s \in sessions : s.ssid # cssid[c]}
             /\ members' = {m \in members : m.ssid # cssid[c]}
    <3>1. cssid[c] \in Call /\ Finished(cssid[c])
      BY <2>1 DEF ChatInv, RemovesTheirChat
    <3>2. SessionsAreMade'
      BY <2>1, <2>2, <2>4, <3>1 DEF ChatInv, SessionsAreMade, Finished, TypeInv, TypeOK,
         ChatSession
    <3>3. MembersTogether'
      BY <2>1, <2>2, <2>4 DEF ChatInv, MembersTogether, Finished, Pair, TypeInv, TypeOK,
         ChatSessionMember
    <3>4. RemovesTheirChat'
      BY <2>1, <2>2 DEF ChatInv, RemovesTheirChat, Finished, Pair
    <3> QED
      BY <3>2, <3>3, <3>4 DEF ChatInv
  <2> QED
    BY <1>8, <2>3, <2>4 DEF RemoveSession
<1>9. CASE ServiceDies
  BY <1>9, DeathKeepsChats DEF ServiceDies
<1>10. CASE UNCHANGED vars
  BY <1>10, ChatFrame DEF vars, Finished
<1> QED
  BY <1>1, <1>2, <1>3, <1>4, <1>5, <1>6, <1>7, <1>8, <1>9, <1>10
     DEF Next, NewChat, FriendRemove

(* A chat has both its users as members or none, and no member row         *)
(* outlives its session, whatever calls overlap, fail or die.              *)
THEOREM ChatsStayWhole == Spec => []ChatsAreWhole
<1>1. TypeInv /\ ChatInv => ChatsAreWhole
  <2> SUFFICES ASSUME TypeInv, ChatInv
               PROVE  ChatsAreWhole
    OBVIOUS
  <2>1. ASSUME NEW s \in sessions, Members(s.ssid) # {}
        PROVE  Members(s.ssid) = Pair(s.ssid)
    <3>1. \A u \in Members(s.ssid) : u \in Pair(s.ssid)
      BY DEF Members, ChatInv, MembersTogether
    <3>2. PICK m \in members : m.ssid = s.ssid
      BY <2>1 DEF Members
    <3>3. ASSUME NEW u \in Pair(s.ssid)
          PROVE  u \in Members(s.ssid)
      <4>1. [ssid |-> s.ssid, uid |-> u] \in members
        BY <3>2 DEF ChatInv, MembersTogether
      <4> QED
        BY <4>1 DEF Members
    <3> QED
      BY <3>1, <3>3
  <2> QED
    BY <2>1 DEF ChatsAreWhole, ChatInv, MembersTogether
<1> QED
  BY <1>1, TypeInit, TypeStep, ChatInit, ChatStep, PTL DEF Spec

-----------------------------------------------------------------------------
(* What was answered is done.  An acceptance that goes on to its chat has  *)
(* made its two users friends, unless somebody removed them since.         *)
ApplyIsThere(c) == \E a \in applies : a.uid = req[c].uid /\ a.pid = req[c].pid
RelationIsThere(c) == \E r \in relations : r.uid = req[c].uid /\ r.pid = req[c].pid
ChatIsThere(c) == \A u \in Pair(c) : [ssid |-> c, uid |-> u] \in members

AppliedInv ==
  \A c \in Call : at[c] = "ok" /\ req[c].op = "add" =>
    ApplyIsThere(c) \/ Undone(c, {"accept", "reject"})

RelatedInv ==
  \A c \in Call : at[c] \in {"session", "members", "ok"} /\ req[c].op = "accept" =>
    RelationIsThere(c) \/ Undone(c, {"remove"})

ChatMadeInv ==
  \A c \in Call : at[c] = "ok" /\ req[c].op \in {"accept", "create"} =>
    ChatIsThere(c) \/ (req[c].op = "accept" /\ Undone(c, {"remove"}))

DoneInv == AppliedInv /\ RelatedInv /\ ChatMadeInv

LEMMA DoneInit == Init => DoneInv
  BY DEF Init, DoneInv, AppliedInv, RelatedInv, ChatMadeInv

LEMMA UndoneStays ==
  ASSUME TypeInv, [Next]_vars, NEW c \in Call, Called(c), NEW ops, Undone(c, ops)
  PROVE  Undone(c, ops)'
  BY CallsStay DEF Undone, Pair

(* An application goes only with a call that processes it. *)
LEMMA AppliedStep == TypeInv /\ AppliedInv /\ [Next]_vars => AppliedInv'
<1> SUFFICES ASSUME TypeInv, AppliedInv, [Next]_vars
             PROVE  AppliedInv'
  OBVIOUS
<1> USE DEF tables
<1>1. ASSUME applies \subseteq applies',
             \A c \in Call : at'[c] = "ok" /\ req'[c].op = "add" => at[c] = "ok"
      PROVE  AppliedInv'
  BY <1>1, CallsStay, UndoneStays DEF AppliedInv, ApplyIsThere, Called
<1>2. ASSUME NEW c \in Call, NEW r \in Requests, Start(c, r)
      PROVE  AppliedInv'
  BY <1>1, <1>2 DEF Start, Goto, First, Requests, TypeInv, TypeOK
<1>3. ASSUME NEW c \in Call, IsFriend(c) \/ HasApplied(c) \/ IsPending(c) \/ RemoveRelation(c)
      PROVE  AppliedInv'
  BY <1>1, <1>3 DEF IsFriend, HasApplied, IsPending, RemoveRelation, Fails, Goto,
     TypeInv, TypeOK
<1>4. ASSUME NEW c \in Call, InsertApply(c)
      PROVE  AppliedInv'
  <2> DEFINE row == [eid |-> c, uid |-> req[c].uid, pid |-> req[c].pid]
  <2>1. UNCHANGED req /\ \A d \in Call \ {c} : at'[d] = at[d]
    BY <1>4 DEF InsertApply, Fails, Goto, TypeInv, TypeOK
  <2>2. /\ applies \subseteq applies'
        /\ at'[c] = "ok" => row \in applies'
    BY <1>4 DEF InsertApply, Fails, Goto, TypeInv, TypeOK
  <2>3. row.uid = req[c].uid /\ row.pid = req[c].pid
    OBVIOUS
  <2> HIDE DEF row
  <2>4. at'[c] = "ok" => ApplyIsThere(c)'
    BY <2>1, <2>2, <2>3 DEF ApplyIsThere
  <2> QED
    BY <2>1, <2>2, <2>4, UndoneStays DEF AppliedInv, ApplyIsThere, Called
<1>5. ASSUME NEW c \in Call, RemoveApply(c)
      PROVE  AppliedInv'
  <2>1. /\ at[c] = "unapply" /\ Called(c) /\ UNCHANGED req
        /\ req[c].op \in {"accept", "reject"}
        /\ Called(c)'
        /\ \A d \in Call \ {c} : at'[d] = at[d]
    BY <1>5, CallsStay DEF RemoveApply, Fails, Goto, Called, TypeInv, TypeOK, StepFitsRequest
  <2>2. \A a \in applies : a \in applies' \/ (a.uid = req[c].pid /\ a.pid = req[c].uid)
    BY <1>5 DEF RemoveApply, Fails
  <2>3. ASSUME NEW d \in Call, at'[d] = "ok", req'[d].op = "add"
        PROVE  ApplyIsThere(d)' \/ Undone(d, {"accept", "reject"})'
    <3>1. at[d] = "ok" /\ req[d].op = "add" /\ Called(d)
      BY <2>1, <2>3 DEF Called
    <3>2. CASE Undone(d, {"accept", "reject"})
      BY <3>1, <3>2, UndoneStays
    <3>3. ASSUME NEW a \in applies, a.uid = req[d].uid, a.pid = req[d].pid, a \notin applies'
          PROVE  Undone(d, {"accept", "reject"})'
      BY <2>1, <2>2, <3>3 DEF Undone, Pair
    <3> QED
      BY <2>1, <3>1, <3>2, <3>3 DEF AppliedInv, ApplyIsThere
  <2> QED
    BY <2>3 DEF AppliedInv
<1>6. ASSUME NEW c \in Call, InsertRelation(c) \/ NewChat(c) \/ RemoveSession(c)
      PROVE  AppliedInv'
  <2>1. Called(c) /\ req[c].op # "add" /\ UNCHANGED <<req, applies>>
    BY <1>6 DEF InsertRelation, NewChat, InsertSession, AppendMembers, RemoveSession,
       Called, TypeInv, StepFitsRequest
  <2>2. \A d \in Call \ {c} : at'[d] = at[d]
    BY <1>6 DEF InsertRelation, NewChat, InsertSession, AppendMembers, RemoveSession,
       Fails, Goto, TypeInv, TypeOK
  <2> QED
    BY <1>1, <2>1, <2>2
<1>7. CASE Dies
  BY <1>1, <1>7 DEF Dies, InProgress
<1>8. ASSUME NEW c \in Call, FindSession(c)
      PROVE  AppliedInv'
  BY <1>1, <1>7, <1>8 DEF FindSession, Fails, Goto, TypeInv, TypeOK
<1>9. CASE UNCHANGED vars
  BY <1>1, <1>9 DEF vars
<1> QED
  BY <1>2, <1>3, <1>4, <1>5, <1>6, <1>7, <1>8, <1>9 DEF Next, FriendAdd, FriendAddProcess,
     FriendRemove, ServiceDies

(* A friendship goes only with a call that removes it. *)
LEMMA RelatedStep == TypeInv /\ RelatedInv /\ [Next]_vars => RelatedInv'
<1> SUFFICES ASSUME TypeInv, RelatedInv, [Next]_vars
             PROVE  RelatedInv'
  OBVIOUS
<1> USE DEF tables
<1> DEFINE Made == {"session", "members", "ok"}
<1>1. ASSUME relations \subseteq relations',
             \A c \in Call : at'[c] \in Made /\ req'[c].op = "accept" => at[c] \in Made
      PROVE  RelatedInv'
  BY <1>1, CallsStay, UndoneStays DEF RelatedInv, RelationIsThere, Called
<1>2. ASSUME NEW c \in Call, NEW r \in Requests, Start(c, r)
      PROVE  RelatedInv'
  BY <1>1, <1>2 DEF Start, Goto, First, Requests, TypeInv, TypeOK
<1>3. ASSUME NEW c \in Call, FriendAdd(c) \/ IsPending(c) \/ RemoveApply(c)
      PROVE  RelatedInv'
  <2>1. UNCHANGED <<req, relations>> /\ Called(c)
    BY <1>3 DEF FriendAdd, IsFriend, HasApplied, InsertApply, IsPending, RemoveApply, Called
  <2>2. \A d \in Call \ {c} : at'[d] = at[d]
    BY <1>3 DEF FriendAdd, IsFriend, HasApplied, InsertApply, IsPending, RemoveApply,
       Fails, Goto, TypeInv, TypeOK
  <2>3. req[c].op = "accept" => at'[c] \notin Made
    BY <1>3, <2>1 DEF FriendAdd, IsFriend, HasApplied, InsertApply, IsPending, RemoveApply,
       Fails, Goto, TypeInv, TypeOK, StepFitsRequest
  <2> QED
    BY <1>1, <2>1, <2>2, <2>3
<1>4. ASSUME NEW c \in Call, InsertRelation(c)
      PROVE  RelatedInv'
  <2> DEFINE row == [by |-> c, uid |-> req[c].uid, pid |-> req[c].pid]
  <2>1. UNCHANGED req /\ \A d \in Call \ {c} : at'[d] = at[d]
    BY <1>4 DEF InsertRelation, Fails, Goto, TypeInv, TypeOK
  <2>2. /\ relations \subseteq relations'
        /\ at'[c] \in Made => row \in relations'
    BY <1>4 DEF InsertRelation, Fails, Goto, TypeInv, TypeOK
  <2>3. row.uid = req[c].uid /\ row.pid = req[c].pid
    OBVIOUS
  <2> HIDE DEF row
  <2>4. at'[c] \in Made => RelationIsThere(c)'
    BY <2>1, <2>2, <2>3 DEF RelationIsThere
  <2> QED
    BY <2>1, <2>2, <2>4, UndoneStays DEF RelatedInv, RelationIsThere, Called
<1>5. ASSUME NEW c \in Call, NewChat(c)
      PROVE  RelatedInv'
  BY <1>1, <1>5 DEF NewChat, InsertSession, AppendMembers, Fails, Goto, TypeInv, TypeOK
<1>6. ASSUME NEW c \in Call, RemoveRelation(c)
      PROVE  RelatedInv'
  <2>1. /\ Called(c) /\ UNCHANGED req /\ req[c].op = "remove" /\ Called(c)'
        /\ at'[c] \notin Made
        /\ \A d \in Call \ {c} : at'[d] = at[d]
    BY <1>6 DEF RemoveRelation, Fails, Goto, Called, TypeInv, TypeOK, StepFitsRequest
  <2>2. \A r \in relations : r \in relations' \/ {r.uid, r.pid} = Pair(c)
    BY <1>6 DEF RemoveRelation
  <2>3. ASSUME NEW d \in Call, at'[d] \in Made, req'[d].op = "accept"
        PROVE  RelationIsThere(d)' \/ Undone(d, {"remove"})'
    <3>1. at[d] \in Made /\ req[d].op = "accept" /\ Called(d)
      BY <2>1, <2>3 DEF Called
    <3>2. CASE Undone(d, {"remove"})
      BY <3>1, <3>2, UndoneStays
    <3>3. ASSUME NEW r \in relations, r.uid = req[d].uid, r.pid = req[d].pid, r \notin relations'
          PROVE  Undone(d, {"remove"})'
      BY <2>1, <2>2, <3>3 DEF Undone, Pair
    <3> QED
      BY <2>1, <3>1, <3>2, <3>3 DEF RelatedInv, RelationIsThere
  <2> QED
    BY <2>3 DEF RelatedInv
<1>7. CASE Dies
  BY <1>1, <1>7 DEF Dies, InProgress
<1>8. ASSUME NEW c \in Call, FindSession(c)
      PROVE  RelatedInv'
  BY <1>1, <1>7, <1>8 DEF FindSession, Fails, Goto, TypeInv, TypeOK
<1>9. ASSUME NEW c \in Call, RemoveSession(c)
      PROVE  RelatedInv'
  <2>1. Called(c) /\ req[c].op = "remove" /\ UNCHANGED <<req, relations>>
    BY <1>9 DEF RemoveSession, Called, TypeInv, StepFitsRequest
  <2>2. \A d \in Call \ {c} : at'[d] = at[d]
    BY <1>9 DEF RemoveSession, Fails, Goto, TypeInv, TypeOK
  <2> QED
    BY <1>1, <2>1, <2>2
<1>10. CASE UNCHANGED vars
  BY <1>1, <1>10 DEF vars
<1> QED
  BY <1>2, <1>3, <1>4, <1>5, <1>6, <1>7, <1>8, <1>9, <1>10 DEF Next, FriendAddProcess,
     FriendRemove, ServiceDies

(* A chat goes only with a call that removes the friendship it came from.  *)
LEMMA ChatMadeStep == TypeInv /\ ChatInv /\ ChatMadeInv /\ [Next]_vars => ChatMadeInv'
<1> SUFFICES ASSUME TypeInv, ChatInv, ChatMadeInv, [Next]_vars
             PROVE  ChatMadeInv'
  OBVIOUS
<1> USE DEF tables
<1> DEFINE Makes(c) == req[c].op \in {"accept", "create"}
<1>1. ASSUME members \subseteq members',
             \A c \in Call : at'[c] = "ok" /\ Makes(c)' => at[c] = "ok"
      PROVE  ChatMadeInv'
  <2>1. \A c \in Call : at[c] = "ok" => req'[c] = req[c] /\ Pair(c)' = Pair(c)
    BY CallsStay DEF Called, Pair
  <2> QED
    BY <1>1, <2>1, UndoneStays DEF ChatMadeInv, ChatIsThere, Called
<1>2. ASSUME NEW c \in Call, NEW r \in Requests, Start(c, r)
      PROVE  ChatMadeInv'
  BY <1>1, <1>2 DEF Start, Goto, First, Requests, TypeInv, TypeOK
<1>3. ASSUME NEW c \in Call, FriendAdd(c) \/ RemoveRelation(c)
      PROVE  ChatMadeInv'
  <2>1. Called(c) /\ ~Makes(c) /\ UNCHANGED <<req, members>>
    BY <1>3 DEF FriendAdd, IsFriend, HasApplied, InsertApply, RemoveRelation, Called,
       TypeInv, StepFitsRequest
  <2>2. \A d \in Call \ {c} : at'[d] = at[d]
    BY <1>3 DEF FriendAdd, IsFriend, HasApplied, InsertApply, RemoveRelation,
       Fails, Goto, TypeInv, TypeOK
  <2> QED
    BY <1>1, <2>1, <2>2
<1>4. ASSUME NEW c \in Call, FriendAddProcess(c) \/ InsertSession(c)
      PROVE  ChatMadeInv'
  <2>1. UNCHANGED <<req, members>> /\ Called(c)
    BY <1>4 DEF FriendAddProcess, IsPending, RemoveApply, InsertRelation, InsertSession, Called
  <2>2. \A d \in Call \ {c} : at'[d] = at[d]
    BY <1>4 DEF FriendAddProcess, IsPending, RemoveApply, InsertRelation, InsertSession,
       Fails, Goto, TypeInv, TypeOK
  <2>3. Makes(c) => at'[c] # "ok"
    BY <1>4, <2>1 DEF FriendAddProcess, IsPending, RemoveApply, InsertRelation,
       InsertSession, Fails, Goto, TypeInv, TypeOK, StepFitsRequest
  <2> QED
    BY <1>1, <2>1, <2>2, <2>3
<1>5. ASSUME NEW c \in Call, AppendMembers(c)
      PROVE  ChatMadeInv'
  <2> DEFINE rows == [ssid : {c}, uid : Pair(c)]
  <2>1. UNCHANGED req /\ \A d \in Call \ {c} : at'[d] = at[d]
    BY <1>5 DEF AppendMembers, Fails, Goto, TypeInv, TypeOK
  <2>2. members \subseteq members' /\ (at'[c] = "ok" => rows \subseteq members')
    BY <1>5 DEF AppendMembers, Fails, Goto, TypeInv, TypeOK
  <2>3. \A u \in Pair(c) : [ssid |-> c, uid |-> u] \in rows
    OBVIOUS
  <2> HIDE DEF rows
  <2>4. at'[c] = "ok" => ChatIsThere(c)'
    BY <2>1, <2>2, <2>3 DEF ChatIsThere, Pair
  <2> QED
    BY <2>1, <2>2, <2>4, UndoneStays DEF ChatMadeInv, ChatIsThere, Called, Pair
<1>6. CASE Dies
  BY <1>1, <1>6 DEF Dies, InProgress
<1>7. ASSUME NEW c \in Call, FindSession(c)
      PROVE  ChatMadeInv'
  BY <1>1, <1>6, <1>7 DEF FindSession, Fails, Goto, TypeInv, TypeOK
<1>8. ASSUME NEW c \in Call, RemoveSession(c)
      PROVE  ChatMadeInv'
  <2>1. /\ Called(c) /\ Called(c)' /\ UNCHANGED req /\ req[c].op = "remove"
        /\ \A d \in Call \ {c} : at'[d] = at[d]
    BY <1>8 DEF RemoveSession, Fails, Goto, Called, TypeInv, TypeOK, StepFitsRequest
  <2>2. req[cssid[c]].op = "accept" /\ Pair(cssid[c]) = Pair(c)
    BY <1>8 DEF RemoveSession, ChatInv, RemovesTheirChat
  <2>3. \A m \in members : m.ssid # cssid[c] => m \in members'
    BY <1>8 DEF RemoveSession
  <2>4. ASSUME NEW d \in Call, at'[d] = "ok", Makes(d)
        PROVE  ChatIsThere(d)' \/ (req[d].op = "accept" /\ Undone(d, {"remove"})')
    <3>1. at[d] = "ok" /\ Called(d)
      BY <2>1, <2>4 DEF Called
    <3>2. CASE d = cssid[c]
      BY <2>1, <2>2, <3>2 DEF Undone, Pair
    <3>3. CASE d # cssid[c] /\ ChatIsThere(d)
      BY <2>1, <2>3, <3>3 DEF ChatIsThere, Pair
    <3>4. CASE req[d].op = "accept" /\ Undone(d, {"remove"})
      BY <3>1, <3>4, UndoneStays
    <3> QED
      BY <2>4, <3>1, <3>2, <3>3, <3>4 DEF ChatMadeInv
  <2> QED
    BY <2>1, <2>4 DEF ChatMadeInv
<1>9. CASE UNCHANGED vars
  BY <1>1, <1>9 DEF vars
<1> QED
  BY <1>2, <1>3, <1>4, <1>5, <1>6, <1>7, <1>8, <1>9 DEF Next, NewChat, FriendRemove,
     ServiceDies

(* What a call was answered to have done is there until a call undoes it:  *)
(* an application until it is processed, a friendship and its chat until a *)
(* removal, a group for ever.                                              *)
THEOREM AnswersAreKept == Spec => []AnsweredIsDone
<1>1. TypeInv /\ ChatInv /\ DoneInv => AnsweredIsDone
  <2> SUFFICES ASSUME TypeInv, ChatInv, DoneInv, NEW c \in Call, at[c] = "ok"
               PROVE  /\ req[c].op = "add" =>
                           IsApplied(req[c].uid, req[c].pid)
                             \/ Undone(c, {"accept", "reject"})
                      /\ req[c].op = "accept" =>
                           \/ Undone(c, {"remove"})
                           \/ req[c].pid \in Friends(req[c].uid) /\ Members(c) = Pair(c)
                      /\ req[c].op = "create" => Members(c) = Pair(c)
    BY DEF AnsweredIsDone
  <2>1. ApplyIsThere(c) => IsApplied(req[c].uid, req[c].pid)
    BY DEF ApplyIsThere, IsApplied, ApplyUsers
  <2>2. RelationIsThere(c) => req[c].pid \in Friends(req[c].uid)
    BY DEF RelationIsThere, Friends
  <2>3. ASSUME ChatIsThere(c)
        PROVE  Members(c) = Pair(c)
    <3>1. \A u \in Members(c) : u \in Pair(c)
      BY DEF Members, ChatInv, MembersTogether
    <3>2. ASSUME NEW u \in Pair(c)
          PROVE  u \in Members(c)
      <4>1. [ssid |-> c, uid |-> u] \in members
        BY <2>3 DEF ChatIsThere
      <4> QED
        BY <4>1 DEF Members
    <3> QED
      BY <3>1, <3>2
  <2> QED
    BY <2>1, <2>2, <2>3 DEF DoneInv, AppliedInv, RelatedInv, ChatMadeInv
<1> QED
  BY <1>1, TypeInit, TypeStep, ChatInit, ChatStep, DoneInit, AppliedStep, RelatedStep,
     ChatMadeStep, PTL DEF Spec, DoneInv

-----------------------------------------------------------------------------
(* Chats of two users whose calls come one after another.  What the tables *)
(* hold of a pair of users, and the calls on it that are in progress.      *)
RelationsOf(pair) == {r \in relations : {r.uid, r.pid} = pair}
AppliesOf(pair) == {a \in applies : {a.uid, a.pid} = pair}

ChatsOf(pair) ==
  {s \in Call : /\ [ssid |-> s, type |-> "SINGLE"] \in sessions
                /\ Pair(s) = pair
                /\ \E m \in members : m.ssid = s}

Running(pair) == {c \in Call : InProgress(c) /\ Pair(c) = pair}

(* The handlers that are between the relation and the chat. *)
Between(c) ==
  \/ at[c] \in {"find", "unsession"}
  \/ at[c] \in {"session", "members"} /\ req[c].op = "accept"

OneChatOf(pair) == \E s \in Call : ChatsOf(pair) = {s}

Settled(pair) ==
  /\ RelationsOf(pair) # {} => OneChatOf(pair)
  /\ RelationsOf(pair) = {} => ChatsOf(pair) = {}

(* One of the two has applied. *)
AskedBy(u, pair) == \E a \in AppliesOf(pair) : a.uid = u

(* What a handler has found, or done, still holds when it goes on. *)
StillHolds(c, pair) ==
  /\ at[c] \in {"isFriend", "isApplied", "apply"} => ~AskedBy(req[c].pid, pair)
  /\ at[c] \in {"isApplied", "apply", "relate", "find", "unsession"} => RelationsOf(pair) = {}
  /\ at[c] \in {"apply", "relate"} => AppliesOf(pair) = {}
  /\ at[c] = "unapply" => AskedBy(req[c].pid, pair)
  /\ at[c] = "unrelate" => RelationsOf(pair) # {}
  /\ at[c] \in {"session", "members"} /\ req[c].op = "accept" =>
       RelationsOf(pair) # {} /\ AppliesOf(pair) = {} /\ ChatsOf(pair) = {}
  /\ at[c] = "find" => OneChatOf(pair)
  /\ at[c] = "unsession" => ChatsOf(pair) = {cssid[c]}

PairInv(pair) ==
  /\ \A c, d \in Running(pair) : c = d
  /\ (\A c \in Running(pair) : ~Between(c)) => Settled(pair)
  /\ \A c \in Running(pair) : StillHolds(c, pair)
  /\ RelationsOf(pair) = {} \/ AppliesOf(pair) = {}
  /\ \A a, b \in AppliesOf(pair) : a.uid = b.uid

PairsInv == \A u, p \in User : u # p /\ {u, p} \notin tangled => PairInv({u, p})

(* Friendship is mutual, and the chat of an acceptance is a single one. *)
Mutual == \A r \in relations : \E s \in relations : s.uid = r.pid /\ s.pid = r.uid

AcceptedAreSingle == \A s \in sessions : req[s.ssid].op = "accept" => s.type = "SINGLE"

LEMMA PairsInit == Init => PairsInv /\ Mutual /\ AcceptedAreSingle
<1> SUFFICES ASSUME Init PROVE PairsInv /\ Mutual /\ AcceptedAreSingle
  OBVIOUS
<1>1. ASSUME NEW u \in User, NEW p \in User PROVE PairInv({u, p})
  <2> DEFINE pair == {u, p}
  <2>1. RelationsOf(pair) = {} /\ AppliesOf(pair) = {} /\ ChatsOf(pair) = {}
    BY DEF Init, RelationsOf, AppliesOf, ChatsOf
  <2>2. Running(pair) = {}
    BY DEF Init, Running, InProgress
  <2> HIDE DEF pair
  <2>3. PairInv(pair)
    BY <2>1, <2>2 DEF PairInv, Settled
  <2> QED
    BY <2>3 DEF pair
<1> QED
  BY <1>1 DEF Init, PairsInv, Mutual, AcceptedAreSingle

(* An application between the users of a call is of one of them.           *)
LEMMA AskedIsApplied ==
  ASSUME TypeInv, NEW c \in Call, Called(c)
  PROVE  /\ AskedBy(req[c].pid, Pair(c)) <=> IsApplied(req[c].pid, req[c].uid)
         /\ AskedBy(req[c].uid, Pair(c)) <=> IsApplied(req[c].uid, req[c].pid)
         /\ AppliesOf(Pair(c)) # {} => AskedBy(req[c].pid, Pair(c)) \/ AskedBy(req[c].uid, Pair(c))
<1>1. req[c].uid # req[c].pid
  BY DEF TypeInv, StepFitsRequest
<1>2. \A a : {a.uid, a.pid} = Pair(c) <=>
        \/ a.uid = req[c].uid /\ a.pid = req[c].pid
        \/ a.uid = req[c].pid /\ a.pid = req[c].uid
  BY <1>1 DEF Pair
<1> QED
  BY <1>1, <1>2 DEF AskedBy, AppliesOf, IsApplied, ApplyUsers

(* A step that leaves the rows and the calls of a pair alone.              *)
LEMMA PairStays ==
  ASSUME NEW pair, PairInv(pair),
         RelationsOf(pair)' = RelationsOf(pair), AppliesOf(pair)' = AppliesOf(pair),
         ChatsOf(pair)' = ChatsOf(pair), Running(pair)' = Running(pair),
         \A c \in Running(pair) : at'[c] = at[c] /\ req'[c] = req[c] /\ cssid'[c] = cssid[c]
  PROVE  PairInv(pair)'
<1>1. Settled(pair)' <=> Settled(pair)
  BY DEF Settled, OneChatOf
<1>2. \A c \in Running(pair) : Between(c)' <=> Between(c)
  BY DEF Between
<1>3. \A u : AskedBy(u, pair)' <=> AskedBy(u, pair)
  BY DEF AskedBy
<1>4. OneChatOf(pair)' <=> OneChatOf(pair)
  BY DEF OneChatOf
<1>5. \A c \in Running(pair) : StillHolds(c, pair) => StillHolds(c, pair)'
  BY <1>3, <1>4 DEF StillHolds
<1> QED
  BY <1>1, <1>2, <1>5 DEF PairInv

(* The only call on a pair goes on, or is answered. *)
LEMMA OwnCall ==
  ASSUME TypeInv, NEW pair, PairInv(pair),
         NEW c \in Call, InProgress(c), Pair(c) = pair,
         NEW s \in Step \ {"none"}, Goto(c, s), req' = req
  PROVE  /\ Running(pair) = {c} /\ StillHolds(c, pair)
         /\ at'[c] = s
         /\ Running(pair)' = IF s \in {"ok", "failed"} THEN {} ELSE {c}
<1>1. c \in Running(pair) /\ \A d \in Running(pair) : d = c
  BY DEF Running, PairInv
<1>2. at'[c] = s /\ \A d \in Call \ {c} : at'[d] = at[d]
  BY DEF Goto, TypeInv, TypeOK
<1>3. \A d \in Call : Pair(d)' = Pair(d)
  BY DEF Pair
<1>4. \A d \in Call \ {c} : InProgress(d)' <=> InProgress(d)
  BY <1>2 DEF InProgress
<1>5. InProgress(c)' <=> s \notin {"ok", "failed"}
  BY <1>2 DEF InProgress
<1>6. Running(pair)' = IF s \in {"ok", "failed"} THEN {} ELSE {c}
  BY <1>1, <1>3, <1>4, <1>5 DEF Running
<1> QED
  BY <1>1, <1>2, <1>6 DEF PairInv

(* What is left to show of a pair when its call is answered ... *)
LEMMA PairRests ==
  ASSUME NEW pair, Running(pair)' = {}, Settled(pair)',
         RelationsOf(pair)' = {} \/ AppliesOf(pair)' = {},
         \A a, b \in AppliesOf(pair)' : a.uid = b.uid
  PROVE  PairInv(pair)'
BY DEF PairInv

(* ... and when it goes on. *)
LEMMA PairGoesOn ==
  ASSUME NEW pair, NEW c \in Call, Running(pair)' = {c}, Between(c)' \/ Settled(pair)',
         StillHolds(c, pair)', RelationsOf(pair)' = {} \/ AppliesOf(pair)' = {},
         \A a, b \in AppliesOf(pair)' : a.uid = b.uid
  PROVE  PairInv(pair)'
BY DEF PairInv

(* Friendship is mutual: a row either way is one both ways. *)
LEMMA FriendsAreRelated ==
  ASSUME TypeInv, Mutual, NEW u, NEW p
  PROVE  p \in Friends(u) <=> RelationsOf({u, p}) # {}
<1>1. p \in Friends(u) <=> \E r \in relations : r.uid = u /\ r.pid = p
  BY DEF Friends
<1>2. RelationsOf({u, p}) # {} <=>
        \E r \in relations : (r.uid = u /\ r.pid = p) \/ (r.uid = p /\ r.pid = u)
  <2>1. \A r : {r.uid, r.pid} = {u, p} <=> (r.uid = u /\ r.pid = p) \/ (r.uid = p /\ r.pid = u)
    OBVIOUS
  <2> QED
    BY <2>1 DEF RelationsOf
<1> QED
  BY <1>1, <1>2 DEF Mutual

(* The step of a handler leaves other pairs alone. *)
LEMMA OtherPairStays ==
  ASSUME TypeInv, ChatInv, NEW c \in Call,
         FriendAdd(c) \/ FriendAddProcess(c) \/ NewChat(c) \/ FriendRemove(c), ~Dies,
         NEW pair, Pair(c) # pair, PairInv(pair)
  PROVE  PairInv(pair)'
<1> USE DEF tables
<1>1. /\ InProgress(c) /\ Called(c) /\ req' = req
      /\ \E s \in Step : Goto(c, s)
      /\ \A d \in Call \ {c} : cssid'[d] = cssid[d]
  BY DEF FriendAdd, IsFriend, HasApplied, InsertApply, FriendAddProcess, IsPending, RemoveApply,
     InsertRelation, NewChat, InsertSession, AppendMembers, FriendRemove, RemoveRelation,
     FindSession, RemoveSession, Fails, Goto, Step, InProgress, Called, TypeInv, TypeOK
<1>2. \A d \in Call \ {c} : at'[d] = at[d]
  BY <1>1 DEF Goto, TypeInv, TypeOK
<1>3. \A d \in Call : Pair(d)' = Pair(d)
  BY <1>1 DEF Pair
<1>4. \A d \in Call \ {c} : InProgress(d)' <=> InProgress(d)
  BY <1>2 DEF InProgress
<1>5. Running(pair)' = Running(pair)
  BY <1>3, <1>4 DEF Running
<1>6. RelationsOf(pair)' = RelationsOf(pair)
  <2>1. CASE relations' = relations
    BY <2>1 DEF RelationsOf
  <2>2. CASE InsertRelation(c)
    <3> DEFINE rows == {[by |-> c, uid |-> req[c].uid, pid |-> req[c].pid],
                        [by |-> c, uid |-> req[c].pid, pid |-> req[c].uid]}
    <3>1. relations' \in {relations, relations \cup rows}
      BY <2>2 DEF InsertRelation
    <3>2. \A r \in rows : {r.uid, r.pid} # pair
      BY DEF Pair
    <3> HIDE DEF rows
    <3> QED
      BY <3>1, <3>2 DEF RelationsOf
  <2>3. CASE RemoveRelation(c)
    BY <2>3 DEF RemoveRelation, RelationsOf
  <2> QED
    BY <2>1, <2>2, <2>3
    DEF FriendAdd, IsFriend, HasApplied, InsertApply, FriendAddProcess, IsPending, RemoveApply,
        NewChat, InsertSession, AppendMembers, FriendRemove, FindSession, RemoveSession
<1>7. AppliesOf(pair)' = AppliesOf(pair)
  <2>1. CASE applies' = applies
    BY <2>1 DEF AppliesOf
  <2>2. CASE InsertApply(c)
    <3> DEFINE row == [eid |-> c, uid |-> req[c].uid, pid |-> req[c].pid]
    <3>1. applies' \in {applies, applies \cup {row}}
      BY <2>2 DEF InsertApply
    <3>2. {row.uid, row.pid} # pair
      BY DEF Pair
    <3> HIDE DEF row
    <3> QED
      BY <3>1, <3>2 DEF AppliesOf
  <2>3. CASE RemoveApply(c)
    BY <2>3 DEF RemoveApply, AppliesOf, Pair
  <2> QED
    BY <2>1, <2>2, <2>3
    DEF FriendAdd, IsFriend, HasApplied, FriendAddProcess, IsPending, InsertRelation,
        NewChat, InsertSession, AppendMembers, FriendRemove, RemoveRelation, FindSession,
        RemoveSession
<1>8. ChatsOf(pair)' = ChatsOf(pair)
  <2>1. CASE UNCHANGED <<sessions, members>>
    BY <1>3, <2>1 DEF ChatsOf
  <2>2. CASE InsertSession(c)
    <3> DEFINE row == [ssid |-> c, type |-> IF req[c].op = "accept" THEN "SINGLE" ELSE "GROUP"]
    <3>1. sessions' \in {sessions, sessions \cup {row}} /\ members' = members /\ row.ssid = c
      BY <2>2 DEF InsertSession
    <3> HIDE DEF row
    <3> QED
      BY <1>3, <3>1 DEF ChatsOf
  <2>3. CASE AppendMembers(c)
    <3> DEFINE rows == [ssid : {c}, uid : Pair(c)]
    <3>1. members' \in {members, members \cup rows} /\ sessions' = sessions
      BY <2>3 DEF AppendMembers
    <3>2. \A m \in rows : m.ssid = c
      OBVIOUS
    <3> HIDE DEF rows
    <3> QED
      BY <1>3, <3>1, <3>2 DEF ChatsOf
  <2>4. CASE RemoveSession(c)
    <3>1. Pair(cssid[c]) # pair
      BY <2>4 DEF RemoveSession, ChatInv, RemovesTheirChat
    <3>2. \/ UNCHANGED <<sessions, members>>
          \/ /\ sessions' = {s \in sessions : s.ssid # cssid[c]}
             /\ members' = {m \in members : m.ssid # cssid[c]}
      BY <2>4 DEF RemoveSession
    <3> QED
      BY <1>3, <2>1, <3>1, <3>2 DEF ChatsOf
  <2> QED
    BY <2>1, <2>2, <2>3, <2>4
    DEF FriendAdd, IsFriend, HasApplied, InsertApply, FriendAddProcess, IsPending, RemoveApply,
        InsertRelation, NewChat, FriendRemove, RemoveRelation, FindSession, Dies
<1>9. \A d \in Running(pair) : at'[d] = at[d] /\ req'[d] = req[d] /\ cssid'[d] = cssid[d]
  BY <1>1, <1>2 DEF Running
<1> QED
  BY <1>5, <1>6, <1>7, <1>8, <1>9, PairStays

(* The calls of a process that dies were on pairs that are tangled now.    *)
LEMMA DeathLeavesPair ==
  ASSUME TypeInv, Dies, NEW pair, pair \notin tangled', PairInv(pair)
  PROVE  PairInv(pair)'
<1>1. Running(pair) = {}
  BY DEF Dies, Running
<1>2. \A d \in Call : InProgress(d)' => FALSE
  BY DEF Dies, InProgress
<1>3. Running(pair)' = {}
  BY <1>2 DEF Running
<1>4. \A d \in Call : Pair(d)' = Pair(d)
  BY DEF Dies, Pair
<1>5. /\ RelationsOf(pair)' = RelationsOf(pair) /\ AppliesOf(pair)' = AppliesOf(pair)
      /\ ChatsOf(pair)' = ChatsOf(pair)
  BY <1>4 DEF Dies, tables, RelationsOf, AppliesOf, ChatsOf
<1> QED
  BY <1>1, <1>3, <1>5, PairStays

(* A call comes to a pair that stays untangled: it is the only one, it is  *)
(* no application against one that is there, and no removal of nothing.    *)
LEMMA StartKeepsPair ==
  ASSUME TypeInv, ChatInv, NEW c \in Call, NEW r \in Requests, Start(c, r),
         NEW pair, pair \notin tangled', PairInv(pair)
  PROVE  PairInv(pair)'
<1>1. /\ ~Called(c) /\ r.uid # r.pid
      /\ at'[c] = First(r.op) /\ req'[c] = r
      /\ \A d \in Call \ {c} : at'[d] = at[d] /\ req'[d] = req[d]
      /\ UNCHANGED <<cssid, applies, relations, sessions, members>>
  BY DEF Start, Goto, tables, TypeInv, TypeOK
<1>2. First(r.op) \in {"isFriend", "isPending", "unrelate", "session"}
  BY DEF First, Requests
<1>3. \A d \in Call \ {c} : (Pair(d)' = Pair(d)) /\ (InProgress(d)' <=> InProgress(d))
  BY <1>1 DEF Pair, InProgress
<1>4. Pair(c)' = {r.uid, r.pid} /\ InProgress(c)' /\ ~InProgress(c)
  BY <1>1, <1>2 DEF Pair, InProgress, Called
<1>5. RelationsOf(pair)' = RelationsOf(pair) /\ AppliesOf(pair)' = AppliesOf(pair)
  BY <1>1 DEF RelationsOf, AppliesOf
<1>6. ChatsOf(pair)' = ChatsOf(pair)
  <2>1. \A s \in sessions : s.ssid # c
    BY <1>1 DEF ChatInv, SessionsAreMade, Finished, Called
  <2>2. [ssid |-> c, type |-> "SINGLE"] \notin sessions
    BY <2>1
  <2> QED
    BY <1>1, <1>3, <2>2 DEF ChatsOf
<1>7. CASE {r.uid, r.pid} # pair
  <2>1. Running(pair)' = Running(pair) /\ c \notin Running(pair)
    BY <1>3, <1>4, <1>7 DEF Running
  <2> QED
    BY <1>1, <1>5, <1>6, <2>1, PairStays DEF Running
<1>8. CASE {r.uid, r.pid} = pair
  <2>1. /\ \A d \in Call : InProgress(d) => Pair(d) # pair
        /\ r.op = "add" => ~IsApplied(r.pid, r.uid)
        /\ r.op = "remove" => r.pid \in Friends(r.uid)
    BY <1>8 DEF Start
  <2>2. Running(pair) = {} /\ Running(pair)' = {c}
    BY <1>3, <1>4, <1>8, <2>1 DEF Running
  <2>3. Settled(pair)'
    BY <1>5, <1>6, <2>2 DEF PairInv, Settled, OneChatOf
  <2>4. AskedBy(r.pid, pair) => IsApplied(r.pid, r.uid)
    BY <1>1, <1>8 DEF AskedBy, AppliesOf, IsApplied, ApplyUsers
  <2>5. r.pid \in Friends(r.uid) => RelationsOf(pair) # {}
    BY <1>8 DEF Friends, RelationsOf
  <2>6. AskedBy(r.pid, pair)' <=> AskedBy(r.pid, pair)
    BY <1>5 DEF AskedBy
  <2>7. /\ at'[c] = "isFriend" => ~AskedBy(r.pid, pair)'
        /\ at'[c] = "unrelate" => RelationsOf(pair)' # {}
        /\ at'[c] = "session" => r.op = "create"
    BY <1>1, <1>5, <2>1, <2>4, <2>5, <2>6 DEF First, Requests
  <2>8. StillHolds(c, pair)'
    BY <1>1, <1>2, <2>7 DEF StillHolds
  <2> QED
    BY <1>5, <2>2, <2>3, <2>8 DEF PairInv
<1> QED
  BY <1>7, <1>8

LEMMA AddKeepsPair ==
  ASSUME TypeInv, Mutual, NEW c \in Call, FriendAdd(c),
         NEW pair, Pair(c) = pair, pair \notin tangled', PairInv(pair)
  PROVE  PairInv(pair)'
<1>1. /\ InProgress(c) /\ Called(c) /\ ~Between(c) /\ ~Fault(c)
      /\ UNCHANGED <<req, relations, sessions, members>>
  BY DEF FriendAdd, IsFriend, HasApplied, InsertApply, Fault, InProgress, Called, Between, tables
<1>2. c \in Running(pair) /\ \A d \in Running(pair) : d = c
  BY <1>1 DEF Running, PairInv
<1>3. /\ Settled(pair) /\ StillHolds(c, pair)
      /\ RelationsOf(pair) = {} \/ AppliesOf(pair) = {}
      /\ \A a, b \in AppliesOf(pair) : a.uid = b.uid
  BY <1>1, <1>2 DEF PairInv
<1>4. RelationsOf(pair)' = RelationsOf(pair) /\ ChatsOf(pair)' = ChatsOf(pair)
  BY <1>1 DEF RelationsOf, ChatsOf, Pair
<1>5. Settled(pair)'
  BY <1>3, <1>4 DEF Settled, OneChatOf
<1>6. CASE ~InsertApply(c)
  <2>1. applies' = applies
    BY <1>6 DEF FriendAdd, IsFriend, HasApplied, tables
  <2>2. /\ AppliesOf(pair)' = AppliesOf(pair)
        /\ AskedBy(req[c].pid, pair)' <=> AskedBy(req[c].pid, pair)
    BY <1>1, <2>1 DEF AppliesOf, AskedBy
  <2>3. CASE Goto(c, "failed")
    <3>1. Running(pair)' = {}
      BY <1>1, <2>3, OwnCall DEF Step
    <3> QED
      BY <1>3, <1>4, <1>5, <2>2, <3>1, PairRests
  <2>4. CASE /\ at[c] = "isFriend" /\ Goto(c, "isApplied")
             /\ req[c].pid \notin Friends(req[c].uid)
    <3>1. Running(pair)' = {c} /\ at'[c] = "isApplied"
      BY <1>1, <2>4, OwnCall DEF Step
    <3>2. RelationsOf(pair) = {}
      BY <2>4, FriendsAreRelated DEF Pair
    <3>3. StillHolds(c, pair)'
      BY <1>3, <1>4, <2>2, <2>4, <3>1, <3>2 DEF StillHolds
    <3> QED
      BY <1>3, <1>4, <1>5, <2>2, <3>1, <3>3, PairGoesOn
  <2>5. CASE /\ at[c] = "isApplied" /\ Goto(c, "apply")
             /\ ~IsApplied(req[c].uid, req[c].pid)
    <3>1. Running(pair)' = {c} /\ at'[c] = "apply"
      BY <1>1, <2>5, OwnCall DEF Step
    <3>2. AppliesOf(pair) = {}
      BY <1>1, <1>3, <2>5, AskedIsApplied DEF StillHolds
    <3>3. StillHolds(c, pair)'
      BY <1>3, <1>4, <2>2, <2>5, <3>1, <3>2 DEF StillHolds
    <3> QED
      BY <1>3, <1>4, <1>5, <2>2, <3>1, <3>3, PairGoesOn
  <2> QED
    BY <1>1, <1>6, <2>3, <2>4, <2>5 DEF FriendAdd, IsFriend, HasApplied
<1>7. CASE InsertApply(c)
  <2> DEFINE row == [eid |-> c, uid |-> req[c].uid, pid |-> req[c].pid]
  <2>1. at[c] = "apply" /\ Goto(c, "ok") /\ applies' = applies \cup {row}
    BY <1>1, <1>7 DEF InsertApply, Fails
  <2>2. Running(pair)' = {}
    BY <1>1, <2>1, OwnCall DEF Step
  <2>3. AppliesOf(pair) = {} /\ RelationsOf(pair) = {}
    BY <1>3, <2>1 DEF StillHolds
  <2> HIDE DEF row
  <2>4. AppliesOf(pair)' \subseteq {row}
    BY <2>1, <2>3 DEF AppliesOf
  <2> QED
    BY <1>4, <1>5, <2>2, <2>3, <2>4, PairRests
<1> QED
  BY <1>6, <1>7

LEMMA ProcessKeepsPair ==
  ASSUME TypeInv, Mutual, NEW c \in Call, FriendAddProcess(c),
         NEW pair, Pair(c) = pair, pair \notin tangled', PairInv(pair)
  PROVE  PairInv(pair)'
<1>1. /\ InProgress(c) /\ Called(c) /\ ~Between(c) /\ ~Fault(c)
      /\ UNCHANGED <<req, sessions, members>>
  BY DEF FriendAddProcess, IsPending, RemoveApply, InsertRelation, Fault, InProgress, Called,
     Between, tables
<1>2. c \in Running(pair) /\ \A d \in Running(pair) : d = c
  BY <1>1 DEF Running, PairInv
<1>3. /\ Settled(pair) /\ StillHolds(c, pair)
      /\ RelationsOf(pair) = {} \/ AppliesOf(pair) = {}
      /\ \A a, b \in AppliesOf(pair) : a.uid = b.uid
  BY <1>1, <1>2 DEF PairInv
<1>4. ChatsOf(pair)' = ChatsOf(pair)
  BY <1>1 DEF ChatsOf, Pair
<1>5. CASE IsPending(c)
  <2>1. at[c] = "isPending" /\ UNCHANGED <<applies, relations>>
    BY <1>5 DEF IsPending, tables
  <2>2. /\ AppliesOf(pair)' = AppliesOf(pair) /\ RelationsOf(pair)' = RelationsOf(pair)
        /\ AskedBy(req[c].pid, pair)' <=> AskedBy(req[c].pid, pair)
    BY <1>1, <2>1 DEF AppliesOf, RelationsOf, AskedBy
  <2>3. Settled(pair)'
    BY <1>3, <1>4, <2>2 DEF Settled, OneChatOf
  <2>4. CASE Goto(c, "failed")
    <3>1. Running(pair)' = {}
      BY <1>1, <2>4, OwnCall DEF Step
    <3> QED
      BY <1>3, <2>2, <2>3, <3>1, PairRests
  <2>5. CASE Goto(c, "unapply") /\ IsApplied(req[c].pid, req[c].uid)
    <3>1. Running(pair)' = {c} /\ at'[c] = "unapply"
      BY <1>1, <2>5, OwnCall DEF Step
    <3>2. AskedBy(req[c].pid, pair)
      BY <1>1, <2>5, AskedIsApplied
    <3>3. StillHolds(c, pair)'
      BY <1>1, <2>2, <3>1, <3>2 DEF StillHolds
    <3> QED
      BY <1>3, <2>2, <2>3, <3>1, <3>3, PairGoesOn
  <2> QED
    BY <1>1, <1>5, <2>4, <2>5 DEF IsPending, Fails
<1>6. CASE RemoveApply(c)
  <2>1. /\ at[c] = "unapply" /\ relations' = relations
        /\ applies' = {a \in applies : ~(a.uid = req[c].pid /\ a.pid = req[c].uid)}
        /\ Goto(c, IF req[c].op = "accept" THEN "relate" ELSE "ok")
    BY <1>1, <1>6 DEF RemoveApply, Fails
  <2>2. RelationsOf(pair)' = RelationsOf(pair)
    BY <2>1 DEF RelationsOf
  <2>3. Settled(pair)'
    BY <1>3, <1>4, <2>2 DEF Settled, OneChatOf
  <2>4. AskedBy(req[c].pid, pair)
    BY <1>3, <2>1 DEF StillHolds
  <2>5. RelationsOf(pair) = {}
    BY <1>3, <2>4 DEF AskedBy
  <2>6. AppliesOf(pair)' = {}
    <3>1. \A a \in AppliesOf(pair) : a.uid = req[c].pid /\ a.pid = req[c].uid
      BY <1>1, <1>3, <2>4 DEF AskedBy, AppliesOf, Pair, TypeInv, StepFitsRequest
    <3> QED
      BY <2>1, <3>1 DEF AppliesOf
  <2>7. CASE req[c].op = "accept"
    <3>1. Running(pair)' = {c} /\ at'[c] = "relate"
      BY <1>1, <2>1, <2>7, OwnCall DEF Step
    <3>2. StillHolds(c, pair)'
      BY <2>2, <2>5, <2>6, <3>1 DEF StillHolds
    <3> QED
      BY <2>3, <2>6, <3>1, <3>2, PairGoesOn
  <2>8. CASE req[c].op # "accept"
    <3>1. Running(pair)' = {}
      BY <1>1, <2>1, <2>8, OwnCall DEF Step
    <3> QED
      BY <2>3, <2>6, <3>1, PairRests
  <2> QED
    BY <2>7, <2>8
<1>7. CASE InsertRelation(c)
  <2> DEFINE row == [by |-> c, uid |-> req[c].uid, pid |-> req[c].pid]
             back == [by |-> c, uid |-> req[c].pid, pid |-> req[c].uid]
  <2>1. /\ at[c] = "relate" /\ applies' = applies /\ Goto(c, "session")
        /\ relations' = relations \cup {row, back}
    BY <1>1, <1>7 DEF InsertRelation, Fails
  <2>2. Running(pair)' = {c} /\ at'[c] = "session" /\ req[c].op = "accept"
    BY <1>1, <2>1, OwnCall DEF Step, TypeInv, StepFitsRequest
  <2>3. RelationsOf(pair) = {} /\ AppliesOf(pair) = {} /\ ChatsOf(pair) = {}
    BY <1>3, <2>1 DEF StillHolds, Settled
  <2>4. AppliesOf(pair)' = {}
    BY <2>1, <2>3 DEF AppliesOf
  <2>5. {row.uid, row.pid} = pair
    BY DEF Pair
  <2> HIDE DEF row, back
  <2>6. RelationsOf(pair)' # {}
    BY <2>1, <2>5 DEF RelationsOf
  <2>7. StillHolds(c, pair)' /\ Between(c)'
    BY <1>1, <1>4, <2>2, <2>3, <2>4, <2>6 DEF StillHolds, Between
  <2> QED
    BY <2>2, <2>4, <2>7, PairGoesOn
<1> QED
  BY <1>5, <1>6, <1>7 DEF FriendAddProcess

LEMMA NewChatKeepsPair ==
  ASSUME TypeInv, ChatInv, AcceptedAreSingle, NEW c \in Call, NewChat(c),
         NEW pair, Pair(c) = pair, pair \notin tangled', PairInv(pair)
  PROVE  PairInv(pair)'
<1>1. /\ InProgress(c) /\ Called(c) /\ ~Fault(c)
      /\ UNCHANGED <<req, applies, relations>>
  BY DEF NewChat, InsertSession, AppendMembers, Fault, InProgress, Called
<1>2. c \in Running(pair) /\ \A d \in Running(pair) : d = c
  BY <1>1 DEF Running, PairInv
<1>3. /\ StillHolds(c, pair) /\ (req[c].op # "accept" => Settled(pair))
      /\ RelationsOf(pair) = {} \/ AppliesOf(pair) = {}
      /\ \A a, b \in AppliesOf(pair) : a.uid = b.uid
  BY <1>1, <1>2 DEF PairInv, Between, NewChat, InsertSession, AppendMembers
<1>4. RelationsOf(pair)' = RelationsOf(pair) /\ AppliesOf(pair)' = AppliesOf(pair)
  BY <1>1 DEF RelationsOf, AppliesOf
<1>5. \A s \in Call : Pair(s)' = Pair(s)
  BY <1>1 DEF Pair
<1>6. CASE InsertSession(c)
  <2> DEFINE row == [ssid |-> c, type |-> IF req[c].op = "accept" THEN "SINGLE" ELSE "GROUP"]
  <2>1. /\ at[c] = "session" /\ members' = members /\ Goto(c, "members")
        /\ sessions' = sessions \cup {row} /\ row.ssid = c
    BY <1>1, <1>6 DEF InsertSession, Fails
  <2>2. Running(pair)' = {c} /\ at'[c] = "members"
    BY <1>1, <2>1, OwnCall DEF Step
  <2>3. \A m \in members : m.ssid # c
    BY <2>1 DEF ChatInv, MembersTogether, Finished
  <2> HIDE DEF row
  <2>4. ChatsOf(pair)' = ChatsOf(pair)
    BY <1>5, <2>1, <2>3 DEF ChatsOf
  <2>5. req[c].op # "accept" => Settled(pair)'
    BY <1>3, <1>4, <2>4 DEF Settled, OneChatOf
  <2>6. StillHolds(c, pair)'
    BY <1>1, <1>3, <1>4, <2>1, <2>2, <2>4 DEF StillHolds
  <2>7. Between(c)' \/ Settled(pair)'
    BY <1>1, <2>2, <2>5 DEF Between
  <2> QED
    BY <1>3, <1>4, <2>2, <2>6, <2>7, PairGoesOn
<1>7. CASE AppendMembers(c)
  <2> DEFINE rows == [ssid : {c}, uid : Pair(c)]
  <2>1. /\ at[c] = "members" /\ sessions' = sessions /\ Goto(c, "ok")
        /\ members' = members \cup rows
    BY <1>1, <1>7 DEF AppendMembers, Fails
  <2>2. Running(pair)' = {}
    BY <1>1, <2>1, OwnCall DEF Step
  <2>3. (\A m \in rows : m.ssid = c) /\ \E m \in rows : m.ssid = c
    <3>1. [ssid |-> c, uid |-> req[c].uid] \in rows
      BY DEF Pair
    <3> QED
      BY <3>1
  <2> HIDE DEF rows
  <2>4. \A s \in Call \ {c} : s \in ChatsOf(pair)' <=> s \in ChatsOf(pair)
    BY <1>5, <2>1, <2>3 DEF ChatsOf
  <2>5. CASE req[c].op = "accept"
    <3>1. RelationsOf(pair) # {} /\ AppliesOf(pair) = {} /\ ChatsOf(pair) = {}
      BY <1>3, <2>1, <2>5 DEF StillHolds
    <3>2. PICK s \in sessions : s.ssid = c
      BY <2>1 DEF ChatInv, SessionsAreMade
    <3>3. s = [ssid |-> c, type |-> "SINGLE"]
      BY <2>5, <3>2 DEF AcceptedAreSingle, TypeInv, TypeOK, ChatSession
    <3>4. c \in ChatsOf(pair)'
      BY <1>5, <2>1, <2>3, <3>2, <3>3 DEF ChatsOf
    <3>5. ChatsOf(pair)' = {c}
      BY <2>4, <3>1, <3>4 DEF ChatsOf
    <3> QED
      BY <1>3, <1>4, <2>2, <3>1, <3>5, PairRests DEF Settled, OneChatOf
  <2>6. CASE req[c].op # "accept"
    <3>1. [ssid |-> c, type |-> "SINGLE"] \notin sessions
      BY <2>6 DEF ChatInv, SessionsAreMade
    <3>2. ChatsOf(pair)' = ChatsOf(pair)
      BY <2>1, <2>4, <3>1 DEF ChatsOf
    <3>3. Settled(pair)'
      BY <1>3, <1>4, <2>6, <3>2 DEF Settled, OneChatOf
    <3> QED
      BY <1>3, <1>4, <2>2, <3>3, PairRests
  <2> QED
    BY <2>5, <2>6
<1> QED
  BY <1>6, <1>7 DEF NewChat

(* The view SingleChatSession shows two users the chats of their pair.     *)
LEMMA ChatsAreOfThePair ==
  ASSUME TypeInv, ChatInv, NEW u \in User, NEW p \in User, u # p
  PROVE  ChatsWith(u, p) = {[ssid |-> s, friend |-> p] : s \in ChatsOf({u, p})}
<1>1. ASSUME NEW s \in Call, {u, p} \subseteq Members(s),
             [ssid |-> s, type |-> "SINGLE"] \in sessions
      PROVE  s \in ChatsOf({u, p})
  <2>1. u \in Pair(s) /\ p \in Pair(s) /\ \E m \in members : m.ssid = s
    BY <1>1 DEF Members, ChatInv, MembersTogether
  <2>2. Pair(s) = {u, p}
    BY <2>1 DEF Pair
  <2> QED
    BY <1>1, <2>1, <2>2 DEF ChatsOf
<1>2. ASSUME NEW s \in ChatsOf({u, p})
      PROVE  /\ s \in Call /\ {u, p} \subseteq Members(s)
             /\ [ssid |-> s, type |-> "SINGLE"] \in sessions
  <2>1. [ssid |-> s, uid |-> u] \in members /\ [ssid |-> s, uid |-> p] \in members
    BY DEF ChatsOf, ChatInv, MembersTogether
  <2> QED
    BY <2>1 DEF ChatsOf, Members
<1>3. ChatsWith(u, p) \subseteq {[ssid |-> s, friend |-> p] : s \in ChatsOf({u, p})}
  BY <1>1 DEF ChatsWith, SingleChats
<1>4. {[ssid |-> s, friend |-> p] : s \in ChatsOf({u, p})} \subseteq ChatsWith(u, p)
  BY <1>2 DEF ChatsWith, SingleChats
<1> QED
  BY <1>3, <1>4

LEMMA RemoveKeepsPair ==
  ASSUME TypeInv, ChatInv, Mutual, NEW c \in Call, FriendRemove(c), ~Dies,
         NEW pair, Pair(c) = pair, pair \notin tangled', PairInv(pair)
  PROVE  PairInv(pair)'
<1>1. /\ InProgress(c) /\ Called(c) /\ ~Fault(c)
      /\ UNCHANGED <<req, applies>>
  BY DEF FriendRemove, RemoveRelation, FindSession, RemoveSession, Fault, InProgress, Called, Dies,
     tables
<1>2. c \in Running(pair) /\ \A d \in Running(pair) : d = c
  BY <1>1 DEF Running, PairInv
<1>3. /\ StillHolds(c, pair) /\ (~Between(c) => Settled(pair))
      /\ RelationsOf(pair) = {} \/ AppliesOf(pair) = {}
      /\ \A a, b \in AppliesOf(pair) : a.uid = b.uid
  BY <1>1, <1>2 DEF PairInv
<1>4. AppliesOf(pair)' = AppliesOf(pair)
  BY <1>1 DEF AppliesOf
<1>5. \A s \in Call : Pair(s)' = Pair(s)
  BY <1>1 DEF Pair
<1>6. CASE RemoveRelation(c)
  <2>1. /\ at[c] = "unrelate" /\ UNCHANGED <<sessions, members>> /\ Goto(c, "find")
        /\ relations' = {r \in relations : {r.uid, r.pid} # Pair(c)}
    BY <1>1, <1>6 DEF RemoveRelation, Fails
  <2>2. Running(pair)' = {c} /\ at'[c] = "find"
    BY <1>1, <2>1, OwnCall DEF Step
  <2>3. OneChatOf(pair)
    BY <1>3, <2>1 DEF StillHolds, Between, Settled
  <2>4. ChatsOf(pair)' = ChatsOf(pair)
    BY <1>5, <2>1 DEF ChatsOf
  <2>5. OneChatOf(pair)'
    BY <2>3, <2>4 DEF OneChatOf
  <2>6. RelationsOf(pair)' = {}
    BY <2>1 DEF RelationsOf
  <2>7. StillHolds(c, pair)' /\ Between(c)'
    BY <2>2, <2>5, <2>6 DEF StillHolds, Between
  <2> QED
    BY <1>3, <1>4, <2>2, <2>6, <2>7, PairGoesOn
<1>7. CASE FindSession(c)
  <2>1. PICK e \in ChatsWith(req[c].uid, req[c].pid) :
          cssid' = [cssid EXCEPT ![c] = e.ssid] /\ Goto(c, "unsession") /\ UNCHANGED tables
    BY <1>1, <1>7 DEF FindSession, Fails
  <2>2. at[c] = "find" /\ cssid'[c] = e.ssid
    BY <1>7, <2>1 DEF FindSession, TypeInv, TypeOK
  <2>3. Running(pair)' = {c} /\ at'[c] = "unsession"
    BY <1>1, <2>1, OwnCall DEF Step
  <2>4. OneChatOf(pair) /\ RelationsOf(pair) = {}
    BY <1>3, <2>2 DEF StillHolds
  <2>5. e.ssid \in ChatsOf(pair)
    <3>1. req[c].uid \in User /\ req[c].pid \in User /\ req[c].uid # req[c].pid
      BY <1>1, PairOfCalled DEF TypeInv, StepFitsRequest
    <3> QED
      BY <2>1, <3>1, ChatsAreOfThePair DEF Pair
  <2>6. ChatsOf(pair)' = {e.ssid} /\ RelationsOf(pair)' = {}
    BY <1>5, <2>1, <2>4, <2>5 DEF OneChatOf, ChatsOf, RelationsOf, tables
  <2>7. StillHolds(c, pair)' /\ Between(c)'
    BY <2>2, <2>3, <2>6 DEF StillHolds, Between
  <2> QED
    BY <1>3, <1>4, <2>3, <2>6, <2>7, PairGoesOn
<1>8. CASE RemoveSession(c)
  <2>1. /\ at[c] = "unsession" /\ relations' = relations /\ Goto(c, "ok")
        /\ sessions' = {s \in sessions : s.ssid # cssid[c]}
        /\ members' = {m \in members : m.ssid # cssid[c]}
    BY <1>1, <1>8 DEF RemoveSession, Fails
  <2>2. Running(pair)' = {}
    BY <1>1, <2>1, OwnCall DEF Step
  <2>3. ChatsOf(pair) = {cssid[c]} /\ RelationsOf(pair) = {}
    BY <1>3, <2>1 DEF StillHolds
  <2>4. ChatsOf(pair)' = {} /\ RelationsOf(pair)' = {}
    BY <1>5, <2>1, <2>3 DEF ChatsOf, RelationsOf
  <2> QED
    BY <1>3, <1>4, <2>2, <2>4, PairRests DEF Settled
<1> QED
  BY <1>6, <1>7, <1>8 DEF FriendRemove

LEMMA MutualStep == TypeInv /\ Mutual /\ [Next]_vars => Mutual'
<1> SUFFICES ASSUME TypeInv, Mutual, [Next]_vars
             PROVE  Mutual'
  OBVIOUS
<1> USE DEF tables
<1>1. CASE relations' = relations
  BY <1>1 DEF Mutual
<1>2. ASSUME NEW c \in Call, InsertRelation(c) PROVE Mutual'
  <2> DEFINE row == [by |-> c, uid |-> req[c].uid, pid |-> req[c].pid]
             back == [by |-> c, uid |-> req[c].pid, pid |-> req[c].uid]
  <2>1. relations' \in {relations, relations \cup {row, back}}
    BY <1>2 DEF InsertRelation
  <2>2. row.uid = back.pid /\ row.pid = back.uid
    OBVIOUS
  <2> HIDE DEF row, back
  <2> QED
    BY <2>1, <2>2 DEF Mutual
<1>3. ASSUME NEW c \in Call, RemoveRelation(c) PROVE Mutual'
  <2>1. \/ relations' = relations
        \/ relations' = {r \in relations : {r.uid, r.pid} # Pair(c)}
    BY <1>3 DEF RemoveRelation
  <2> QED
    BY <1>1, <2>1 DEF Mutual
<1> QED
  BY <1>1, <1>2, <1>3
  DEF Next, Start, FriendAdd, IsFriend, HasApplied, InsertApply, FriendAddProcess, IsPending,
      RemoveApply, NewChat, InsertSession, AppendMembers, FriendRemove, FindSession,
      RemoveSession, ServiceDies, Dies, vars

LEMMA AcceptedStep ==
  TypeInv /\ ChatInv /\ AcceptedAreSingle /\ [Next]_vars => AcceptedAreSingle'
<1> SUFFICES ASSUME TypeInv, ChatInv, AcceptedAreSingle, [Next]_vars
             PROVE  AcceptedAreSingle'
  OBVIOUS
<1> USE DEF tables
<1>1. \A s \in sessions : Called(s.ssid) /\ s.ssid \in Call
  BY DEF ChatInv, SessionsAreMade, Finished, Called, TypeInv, TypeOK, ChatSession
<1>2. \A s \in sessions : req'[s.ssid] = req[s.ssid]
  BY <1>1, CallsStay
<1>3. CASE sessions' \subseteq sessions
  BY <1>2, <1>3 DEF AcceptedAreSingle
<1>4. ASSUME NEW c \in Call, InsertSession(c) PROVE AcceptedAreSingle'
  <2> DEFINE row == [ssid |-> c, type |-> IF req[c].op = "accept" THEN "SINGLE" ELSE "GROUP"]
  <2>1. sessions' \in {sessions, sessions \cup {row}} /\ req' = req
    BY <1>4 DEF InsertSession
  <2>2. req[row.ssid].op = "accept" => row.type = "SINGLE"
    OBVIOUS
  <2> HIDE DEF row
  <2> QED
    BY <2>1, <2>2 DEF AcceptedAreSingle
<1> QED
  BY <1>3, <1>4
  DEF Next, Start, FriendAdd, IsFriend, HasApplied, InsertApply, FriendAddProcess, IsPending,
      RemoveApply, InsertRelation, NewChat, AppendMembers, FriendRemove, RemoveRelation,
      FindSession, RemoveSession, ServiceDies, Dies, vars

LEMMA PairsStep ==
  TypeInv /\ ChatInv /\ Mutual /\ AcceptedAreSingle /\ PairsInv /\ [Next]_vars => PairsInv'
<1> SUFFICES ASSUME TypeInv, ChatInv, Mutual, AcceptedAreSingle, PairsInv, [Next]_vars,
                    NEW u \in User, NEW p \in User, u # p, {u, p} \notin tangled'
             PROVE  PairInv({u, p})'
  BY DEF PairsInv
<1>1. tangled \subseteq tangled'
  BY DEF Next, Start, FriendAdd, IsFriend, HasApplied, InsertApply, FriendAddProcess, IsPending,
     RemoveApply, InsertRelation, NewChat, InsertSession, AppendMembers, FriendRemove,
     RemoveRelation, FindSession, RemoveSession, ServiceDies, Dies, Fails, Fault, NoFault, vars
<1>2. PICK pair : pair = {u, p}
  OBVIOUS
<1>3. PairInv(pair) /\ pair \notin tangled'
  BY <1>1, <1>2 DEF PairsInv
<1>4. CASE UNCHANGED vars
  <2>1. /\ RelationsOf(pair)' = RelationsOf(pair) /\ AppliesOf(pair)' = AppliesOf(pair)
        /\ ChatsOf(pair)' = ChatsOf(pair) /\ Running(pair)' = Running(pair)
    BY <1>4 DEF vars, tables, RelationsOf, AppliesOf, ChatsOf, Running, InProgress, Pair
  <2> QED
    BY <1>2, <1>3, <1>4, <2>1, PairStays DEF vars
<1>5. ASSUME NEW c \in Call,
             FriendAdd(c) \/ FriendAddProcess(c) \/ NewChat(c) \/ FriendRemove(c)
      PROVE  PairInv(pair)'
  <2>1. CASE Dies
    BY <1>3, <2>1, DeathLeavesPair
  <2>2. CASE ~Dies /\ Pair(c) # pair
    BY <1>3, <1>5, <2>2, OtherPairStays
  <2>3. CASE ~Dies /\ Pair(c) = pair
    BY <1>3, <1>5, <2>3, AddKeepsPair, ProcessKeepsPair, NewChatKeepsPair, RemoveKeepsPair
  <2> QED
    BY <2>1, <2>2, <2>3
<1>6. PairInv(pair)'
  BY <1>2, <1>3, <1>4, <1>5, StartKeepsPair, DeathLeavesPair DEF Next, ServiceDies
<1> QED
  BY <1>2, <1>6

(* Two users share one chat while they are friends and none otherwise, as  *)
(* long as their calls neither overlap, fail nor die, they do not apply to *)
(* each other, and none removes the other who is no friend: what tangled   *)
(* leaves out is more than overlapping calls.  (FriendAdd,                 *)
(* FriendAddProcess, FriendRemove)                                         *)
THEOREM OneChatForFriends == Spec => []FriendsShareOneChat
<1>1. ASSUME TypeInv, ChatInv, Mutual, PairsInv PROVE FriendsShareOneChat
  <2> SUFFICES ASSUME NEW u \in User, NEW p \in User, u # p, Quiet(u, p)
               PROVE  /\ Cardinality(ChatsWith(u, p)) = IF p \in Friends(u) THEN 1 ELSE 0
                      /\ IsApplied(u, p) => p \notin Friends(u)
    BY DEF FriendsShareOneChat
  <2>1. Running({u, p}) = {} /\ PairInv({u, p})
    BY <1>1 DEF Quiet, Running, PairsInv
  <2>2. Settled({u, p}) /\ (RelationsOf({u, p}) = {} \/ AppliesOf({u, p}) = {})
    BY <2>1 DEF PairInv
  <2>3. p \in Friends(u) <=> RelationsOf({u, p}) # {}
    BY <1>1, FriendsAreRelated
  <2>4. IsApplied(u, p) => AppliesOf({u, p}) # {}
    BY DEF IsApplied, ApplyUsers, AppliesOf
  <2>5. CASE p \in Friends(u)
    <3>1. PICK s \in Call : ChatsOf({u, p}) = {s}
      BY <2>2, <2>3, <2>5 DEF Settled, OneChatOf
    <3>2. ChatsWith(u, p) = {[ssid |-> s, friend |-> p]}
      BY <1>1, <3>1, ChatsAreOfThePair
    <3> QED
      BY <2>2, <2>3, <2>4, <2>5, <3>2, FS_Singleton
  <2>6. CASE p \notin Friends(u)
    <3>1. ChatsOf({u, p}) = {}
      BY <2>2, <2>3, <2>6 DEF Settled
    <3>2. ChatsWith(u, p) = {[ssid |-> s, friend |-> p] : s \in ChatsOf({u, p})}
      BY <1>1, ChatsAreOfThePair
    <3>3. ChatsWith(u, p) = {}
      BY <3>1, <3>2
    <3> QED
      BY <2>6, <3>3, FS_EmptySet
  <2> QED
    BY <2>5, <2>6
<1> QED
  BY <1>1, TypeInit, TypeStep, ChatInit, ChatStep, PairsInit, MutualStep, AcceptedStep, PairsStep,
     PTL DEF Spec

(* Of such users, and no others, FriendRemove is sure to find exactly the  *)
(* chat it is to remove.  (mysql_chat_session.hpp, ChatSessionTable::remove)*)
THEOREM RemovalFindsItsChat == Spec => []RemoveFindsItsChat
<1>1. ASSUME TypeInv, ChatInv, PairsInv PROVE RemoveFindsItsChat
  <2> SUFFICES ASSUME NEW c \in Call, at[c] = "find", Pair(c) \notin tangled
               PROVE  Cardinality(ChatsWith(req[c].uid, req[c].pid)) = 1
    BY DEF RemoveFindsItsChat
  <2>1. /\ Called(c) /\ InProgress(c)
        /\ req[c].uid \in User /\ req[c].pid \in User /\ req[c].uid # req[c].pid
    BY <1>1, PairOfCalled DEF Called, InProgress, TypeInv, StepFitsRequest
  <2>2. StillHolds(c, Pair(c))
    BY <1>1, <2>1 DEF PairsInv, PairInv, Running, Pair
  <2>3. PICK s \in Call : ChatsOf(Pair(c)) = {s}
    BY <2>2 DEF StillHolds, OneChatOf
  <2>4. ChatsWith(req[c].uid, req[c].pid) = {[ssid |-> s, friend |-> req[c].pid]}
    BY <1>1, <2>1, <2>3, ChatsAreOfThePair DEF Pair
  <2> QED
    BY <2>4, FS_Singleton
<1> QED
  BY <1>1, TypeInit, TypeStep, ChatInit, ChatStep, PairsInit, MutualStep, AcceptedStep, PairsStep,
     PTL DEF Spec
=============================================================================
