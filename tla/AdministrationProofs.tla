------------------------ MODULE AdministrationProofs ------------------------
(***************************************************************************)
(* Proofs about Administration, for any users, codes and number of calls   *)
(* that overlap as the threads of the API do: the types; and for each of   *)
(* the safety properties how little must not overlap: withdrawals of       *)
(* administrators, uses of one pairing code, the bootstrap of the first    *)
(* administrator and that of the deployment.  The run admin_race shows     *)
(* that the last administrator needs that.                                 *)
(***************************************************************************)
EXTENDS Administration, FiniteSetTheorems, TLAPS

USE AdministrationAssumption

(***************************************************************************)
(* Which requests a call in each state can have; with the types this is    *)
(* inductive whatever overlaps.                                            *)
(***************************************************************************)
KindsOfCalls ==
  \A c \in Calls :
    /\ call[c].pc \in {"authorized", "examined"} => call[c].request.op \in ApiOps
    /\ call[c].pc = "counted" => call[c].request.op = "bootstrap"

TypeInv == TypeOK /\ KindsOfCalls

(* A code that has been used is consumed, and has been used once.          *)
CodesOnce ==
  \A k \in Codes : approvals[k] \in {0, 1} /\ (approvals[k] = 0 \/ code[k].state = "consumed")

-----------------------------------------------------------------------------
(* What is known of a call in each of its states.                          *)
LEMMA CallFacts ==
  ASSUME TypeOK, NEW c \in Calls
  PROVE  /\ call[c] \in Call
         /\ call[c].pc \in {"idle", "received", "authorized", "counted", "examined"}
         /\ call[c].pc = "idle" <=> call[c] = Idle
         /\ call[c] # Idle => call[c].request \in Request
         /\ call[c].pc = "examined" => call[c].seen \in User
<1>1. call[c] \in Call
  BY DEF TypeOK
<1>2. QED
  BY <1>1 DEF Call, Idle

LEMMA RequestFacts ==
  ASSUME TypeOK, NEW request \in Request
  PROVE  /\ request.op \in {"grant", "revoke", "role", "approve", "bootstrap"}
         /\ request.op \in {"approve", "bootstrap"} => request.code \in Codes
         /\ request.op \in ApiOps => Target(request) \in Users
         /\ request.op \in {"grant", "revoke", "approve"} =>
              request.permissions \in SUBSET Permissions
         /\ request.op = "role" => request.role \in {"user", "admin"}
BY DEF Request, Target, ApiOps, TypeOK, Code

LEMMA WrittenType ==
  ASSUME NEW r \in User, NEW seen \in User, NEW request \in Request
  PROVE  /\ Written(r, request, seen) \in User
         /\ Written(r, request, seen).account # "absent"
         /\ r.account # "absent" => Written(r, request, seen).account = r.account
<1>1. /\ r.account \in {"absent", "active", "blocked"} /\ r.role \in {"user", "admin"}
      /\ r.granted \in SUBSET Permissions
  BY DEF User
<1>2. request.op = "role" => request.role \in {"user", "admin"}
  BY DEF Request
<1>3. request.op \in {"grant", "approve", "revoke"} => request.permissions \in SUBSET Permissions
  BY DEF Request
<1> DEFINE granted == CASE request.op \in {"grant", "approve"} ->
                             r.granted \union (request.permissions \ seen.granted)
                        [] request.op = "revoke" ->
                             r.granted \ (request.permissions \intersect seen.granted)
                        [] OTHER -> r.granted
<1>4. granted \in SUBSET Permissions
  BY <1>1, <1>3
<1>5. QED
  BY <1>1, <1>2, <1>4 DEF Written, User

(* Types are kept by calls that overlap in any way.                        *)
LEMMA InitType == Init => TypeInv
<1> SUFFICES ASSUME Init PROVE TypeInv
  OBVIOUS
<1>1. NoUser \in User /\ Idle \in Call
  BY DEF NoUser, User, Call
<1>2. TypeOK
  BY <1>1 DEF Init, TypeOK, Code
<1>3. QED
  BY <1>2 DEF Init, TypeInv, KindsOfCalls, Idle

(* A step of one call that leaves the others alone.                        *)
LEMMA BecomeType ==
  ASSUME TypeInv, NEW c \in Calls, NEW t \in Call, Become(c, t),
         user' \in [Users -> User], code' \in [Codes -> Code],
         approvals' \in [Codes -> Nat],
         t.pc \in {"authorized", "examined"} => t.request.op \in ApiOps,
         t.pc = "counted" => t.request.op = "bootstrap"
  PROVE  TypeInv'
BY DEF TypeInv, TypeOK, KindsOfCalls, Become

LEMMA UseCodeType ==
  ASSUME TypeOK, NEW k \in Codes, UseCode(k)
  PROVE  code' \in [Codes -> Code] /\ approvals' \in [Codes -> Nat]
BY DEF UseCode, TypeOK, Code

LEMMA EnvironmentType ==
  ASSUME TypeInv, Environment
  PROVE  TypeInv'
<1>1. TypeOK /\ UNCHANGED call
  BY DEF TypeInv, Environment, Expire, IssueCode, ByHand, SetAccount, Deploy
<1>2. ASSUME NEW k \in Codes, Expire(k) PROVE TypeOK'
  BY <1>1, <1>2 DEF Expire, TypeOK, Code
<1>3. ASSUME NEW k \in Codes, NEW u \in Users, IssueCode(k, u) PROVE TypeOK'
  BY <1>1, <1>3 DEF IssueCode, TypeOK, Code
<1>4. ASSUME NEW u \in Users, NEW account \in {"active", "blocked"}, SetAccount(u, account)
      PROVE  TypeOK'
  BY <1>1, <1>4 DEF SetAccount, TypeOK, User
<1>5. ASSUME Deploy PROVE TypeOK'
  <2>1. FullAdmin \in User
    BY DEF FullAdmin, User
  <2>2. QED
    BY <1>1, <1>5, <2>1 DEF Deploy, TypeOK
<1>6. TypeOK'
  BY <1>2, <1>3, <1>4, <1>5 DEF Environment, ByHand
<1>7. QED
  BY <1>1, <1>6 DEF TypeInv, KindsOfCalls

LEMMA CallType ==
  ASSUME TypeInv, NEW c \in Calls,
         \/ \E request \in Request : Receive(c, request)
         \/ Authorize(c) \/ Examine(c) \/ Commit(c)
         \/ CountAdmins(c) \/ CommitBootstrap(c) \/ Rollback(c)
  PROVE  TypeInv'
<1> DEFINE request == call[c].request
<1>1. /\ TypeOK /\ call[c] \in Call
      /\ Idle \in Call /\ Idle.pc = "idle"
      /\ call[c] # Idle => request \in Request
      /\ call[c].pc \in {"authorized", "examined"} => request.op \in ApiOps
      /\ call[c].pc # "idle" => call[c] # Idle
  BY CallFacts DEF TypeInv, KindsOfCalls, Call, Idle
<1>2. user \in [Users -> User] /\ code \in [Codes -> Code] /\ approvals \in [Codes -> Nat]
  BY <1>1 DEF TypeOK
<1>3. ASSUME NEW r \in Request, Receive(c, r) PROVE TypeInv'
  <2> DEFINE t == [pc |-> "received", request |-> r]
  <2>1. t \in Call /\ t.pc = "received"
    BY DEF Call
  <2>2. QED
    BY <1>2, <1>3, <2>1, BecomeType DEF Receive
<1>4. CASE Authorize(c)
  <2> DEFINE t == [call[c] EXCEPT !.pc = "authorized"]
  <2>1. t \in Call /\ t.pc = "authorized" /\ t.request = request /\ request.op \in ApiOps
    BY <1>1, <1>4 DEF Authorize, At, Call, Idle
  <2>2. CASE Become(c, t)
    BY <1>2, <1>4, <2>1, <2>2, BecomeType DEF Authorize
  <2>3. CASE Become(c, Idle)
    BY <1>1, <1>2, <1>4, <2>3, BecomeType DEF Authorize
  <2>4. QED
    BY <1>4, <2>2, <2>3 DEF Authorize
<1>5. CASE Examine(c)
  <2> DEFINE t == [pc |-> "examined", request |-> request, seen |-> user[Target(request)]]
  <2>1. request \in Request /\ request.op \in ApiOps
    BY <1>1, <1>5 DEF Examine
  <2>2. Target(request) \in Users
    BY <1>1, <2>1, RequestFacts
  <2>3. t \in Call
    BY <1>2, <2>1, <2>2 DEF Call
  <2>4. CASE Become(c, t)
    BY <1>2, <1>5, <2>1, <2>3, <2>4, BecomeType DEF Examine
  <2>5. CASE Become(c, Idle)
    BY <1>1, <1>2, <1>5, <2>5, BecomeType DEF Examine
  <2>6. QED
    BY <1>5, <2>4, <2>5 DEF Examine
<1>6. CASE Commit(c)
  <2>1. request \in Request /\ request.op \in ApiOps /\ call[c].seen \in User
    BY <1>1, <1>6, CallFacts DEF Commit
  <2>2. Target(request) \in Users
    BY <1>1, <2>1, RequestFacts
  <2>3. user' \in [Users -> User]
    BY <1>2, <1>6, <2>1, <2>2, WrittenType DEF Commit
  <2>4. code' \in [Codes -> Code] /\ approvals' \in [Codes -> Nat]
    BY <1>1, <1>2, <1>6, <2>1, RequestFacts, UseCodeType DEF Commit
  <2>5. QED
    BY <1>1, <1>6, <2>3, <2>4, BecomeType DEF Commit
<1>7. CASE CountAdmins(c)
  <2> DEFINE t == [call[c] EXCEPT !.pc = "counted"]
  <2>1. t \in Call /\ t.pc = "counted" /\ t.request = request /\ request.op = "bootstrap"
    BY <1>1, <1>7 DEF CountAdmins, At, Call, Idle
  <2>2. CASE Become(c, t)
    BY <1>2, <1>7, <2>1, <2>2, BecomeType DEF CountAdmins
  <2>3. CASE Become(c, Idle)
    BY <1>1, <1>2, <1>7, <2>3, BecomeType DEF CountAdmins
  <2>4. QED
    BY <1>7, <2>2, <2>3 DEF CountAdmins
<1>8. CASE CommitBootstrap(c)
  <2>1. request \in Request /\ request.op = "bootstrap"
    BY <1>1, <1>8 DEF CommitBootstrap, At
  <2>2. request.code \in Codes
    BY <1>1, <2>1, RequestFacts
  <2>3. FullAdmin \in User
    BY DEF FullAdmin, User
  <2>4. user' \in [Users -> User]
    <3>1. \A u : [user EXCEPT ![u] = FullAdmin] \in [Users -> User]
      BY <1>2, <2>3
    <3>2. QED
      BY <1>2, <1>8, <3>1 DEF CommitBootstrap
  <2>5. code' \in [Codes -> Code] /\ approvals' \in [Codes -> Nat]
    BY <1>1, <1>2, <1>8, <2>2, UseCodeType DEF CommitBootstrap
  <2>6. QED
    BY <1>1, <1>8, <2>4, <2>5, BecomeType DEF CommitBootstrap
<1>9. CASE Rollback(c)
  BY <1>1, <1>2, <1>9, BecomeType DEF Rollback
<1>10. QED
  BY <1>3, <1>4, <1>5, <1>6, <1>7, <1>8, <1>9

LEMMA StepType == TypeInv /\ [Next]_vars => TypeInv'
<1>1. ASSUME TypeInv, UNCHANGED vars PROVE TypeInv'
  BY <1>1 DEF vars, TypeInv, TypeOK, KindsOfCalls
<1>2. QED
  BY <1>1, EnvironmentType, CallType DEF Next

(* Accounts, roles, permissions, codes and calls keep their types, in      *)
(* whatever way calls overlap.                                             *)
THEOREM TypeCorrect == Spec => []TypeOK
<1>1. Spec => []TypeInv
  BY InitType, StepType, PTL DEF Spec
<1>2. TypeInv => TypeOK
  BY DEF TypeInv
<1>3. QED
  BY <1>1, <1>2, PTL

-----------------------------------------------------------------------------
(* Whatever happens to a code, it takes effect at most once.               *)
LEMMA UseCodeOnce ==
  ASSUME TypeOK, CodesOnce, NEW k \in Codes, UseCode(k),
         code[k].state \in {"valid", "expired"}
  PROVE  CodesOnce'
<1>1. approvals[k] = 0
  BY DEF CodesOnce
<1>2. /\ code' = [code EXCEPT ![k].state = "consumed"]
      /\ approvals' = [approvals EXCEPT ![k] = 1]
  BY <1>1 DEF UseCode
<1>3. QED
  BY <1>2 DEF CodesOnce, TypeOK, Code

-----------------------------------------------------------------------------
(***************************************************************************)
(* The last administrator.  The counts are safe as soon as the withdrawals *)
(* do not overlap each other, whatever else does: a call that has counted  *)
(* knows of an administrator besides its target, and no other kind of call *)
(* makes one disappear.                                                    *)
(***************************************************************************)
AuthorizedByAdmin ==
  \A c \in Calls : call[c].pc \in {"authorized", "examined"} => Admins # {}

WithdrawalLeavesOne ==
  \A c \in Calls : Withdrawing(c) => Admins \ {call[c].request.target} # {}

OverlapInv == TypeInv /\ AuthorizedByAdmin /\ WithdrawalLeavesOne

(* Written with any row as seen, an administrator stays one unless the     *)
(* request withdraws that.                                                 *)
LEMMA WrittenStaysAdmin ==
  ASSUME TypeOK, NEW request \in Request, request.op \in ApiOps, ~ Withdraws(request),
         NEW r \in User, IsAdmin(r), NEW seen \in User
  PROVE  IsAdmin(Written(r, request, seen))
<1>1. Written(r, request, seen).account = "active"
  BY DEF Written, IsAdmin
<1>2. Written(r, request, seen).role = "admin"
  BY RequestFacts DEF Written, IsAdmin, Withdraws
<1>3. "command" \in Written(r, request, seen).granted
  <2>1. request.op \in {"grant", "revoke", "role", "approve"} /\ "command" \in r.granted
    BY DEF ApiOps, IsAdmin
  <2>2. request.op = "revoke" => "command" \notin request.permissions
    BY DEF Withdraws
  <2>3. QED
    BY <2>1, <2>2 DEF Written
<1>4. QED
  BY <1>1, <1>2, <1>3 DEF IsAdmin

LEMMA CommitWrites ==
  ASSUME TypeInv, NEW c \in Calls, Commit(c)
  PROVE  /\ call[c].request \in Request /\ call[c].request.op \in ApiOps
         /\ call[c].seen \in User /\ user \in [Users -> User]
         /\ Target(call[c].request) \in Users
         /\ user' = [user EXCEPT ![Target(call[c].request)] =
                       Written(@, call[c].request, call[c].seen)]
<1>1. TypeOK /\ KindsOfCalls /\ call[c].pc = "examined"
  BY DEF TypeInv, Commit
<1>2. call[c].request \in Request /\ call[c].request.op \in ApiOps /\ call[c].seen \in User
  BY <1>1, CallFacts DEF KindsOfCalls, Idle
<1>3. QED
  BY <1>1, <1>2, RequestFacts DEF TypeOK, Commit

(* No step but the commit of a withdrawal takes an administrator away.     *)
LEMMA OthersKeepAdmins ==
  ASSUME TypeInv, [Next]_vars, ~ ByHand \/ UNCHANGED vars,
         \A c \in Calls : ~ (Withdrawing(c) /\ Commit(c))
  PROVE  Admins \subseteq Admins'
<1>1. user \in [Users -> User]
  BY DEF TypeInv, TypeOK
<1>2. IsAdmin(FullAdmin)
  BY DEF IsAdmin, FullAdmin, Permissions
<1>3. ASSUME NEW c \in Calls, Commit(c) PROVE Admins \subseteq Admins'
  <2>1. ~ Withdraws(call[c].request)
    BY <1>3 DEF Withdrawing, Commit
  <2>2. ASSUME NEW u \in Users, IsAdmin(user[u]) PROVE IsAdmin(user'[u])
    <3>1. user[u] \in User
      BY <1>1
    <3>2. IsAdmin(Written(user[u], call[c].request, call[c].seen))
      BY <1>3, <2>1, <2>2, <3>1, CommitWrites, WrittenStaysAdmin DEF TypeInv
    <3>3. QED
      BY <1>1, <1>3, <2>2, <3>2, CommitWrites
  <2>3. QED
    BY <2>2 DEF Admins
<1>4. ASSUME NEW c \in Calls, CommitBootstrap(c) PROVE Admins \subseteq Admins'
  <2>1. \A u \in Users : user'[u] = user[u] \/ user'[u] = FullAdmin
    BY <1>1, <1>4 DEF CommitBootstrap
  <2>2. QED
    BY <1>2, <2>1 DEF Admins
<1>5. CASE Deploy
  BY <1>2, <1>5 DEF Deploy, Admins
<1>6. CASE UNCHANGED user
  BY <1>6 DEF Admins
<1>7. QED
  BY <1>3, <1>4, <1>5, <1>6
  DEF Next, vars, Environment, ByHand, SetAccount, Expire, IssueCode, Receive, Authorize, Examine,
      CountAdmins, Rollback

(* A withdrawal leaves the administrators other than its target.           *)
LEMMA WithdrawalKeepsOthers ==
  ASSUME TypeInv, WithdrawalLeavesOne, NEW c \in Calls, Withdrawing(c), Commit(c)
  PROVE  Admins' # {}
<1>1. Target(call[c].request) = call[c].request.target
  BY DEF Target, Withdrawing, Withdraws
<1>2. PICK u \in Admins : u # call[c].request.target
  BY DEF WithdrawalLeavesOne
<1>3. user'[u] = user[u] /\ u \in Users
  BY <1>1, <1>2, CommitWrites DEF Admins
<1>4. QED
  BY <1>2, <1>3 DEF Admins

(* The call a step moves, and what it finds.                               *)
LEMMA AuthorizedMoves ==
  ASSUME TypeInv, AuthorizedByAdmin, [Next]_vars, NEW c \in Calls,
         call'[c].pc \in {"authorized", "examined"}
  PROVE  /\ Admins # {}
         /\ call[c].pc = "examined" => call'[c] = call[c]
         /\ call'[c].pc = "examined" /\ call[c].pc # "examined" =>
              /\ call'[c].request \in Request
              /\ ~ (RemovesAdmin(call'[c].request) /\ Cardinality(Admins) = 1)
<1>1. TypeOK /\ call \in [Calls -> Call] /\ Idle.pc = "idle" /\ user \in [Users -> User]
  BY DEF TypeInv, TypeOK, Idle
<1>2. CASE call'[c] = call[c]
  BY <1>2 DEF AuthorizedByAdmin
<1>3. CASE Authorize(c)
  <2>1. /\ call[c].pc = "received" /\ IsAdmin(user[call[c].request.operator])
        /\ call[c].request.op \in ApiOps
        /\ call'[c] = [call[c] EXCEPT !.pc = "authorized"]
    BY <1>1, <1>3 DEF Authorize, At, Become
  <2>2. call[c] \in Call /\ call[c].request \in Request
    BY <1>1, <2>1, CallFacts DEF Idle
  <2>3. call[c].request.operator \in Users
    BY <2>1, <2>2 DEF Request, ApiOps
  <2>4. call'[c].pc = "authorized"
    BY <2>1, <2>2 DEF Call, Idle
  <2>5. QED
    BY <2>1, <2>3, <2>4 DEF Admins
<1>4. CASE Examine(c)
  <2>1. /\ call[c].pc = "authorized" /\ ~ Refused(call[c].request)
        /\ call'[c] = [pc |-> "examined", request |-> call[c].request,
                       seen |-> user[Target(call[c].request)]]
    BY <1>1, <1>4 DEF Examine, Become
  <2>2. call[c].request \in Request
    BY <1>1, <2>1, CallFacts DEF Idle
  <2>3. QED
    BY <2>1, <2>2 DEF AuthorizedByAdmin, Refused
<1>5. CASE call'[c] = Idle
  BY <1>1, <1>5
<1>6. ASSUME NEW request \in Request, Receive(c, request) PROVE FALSE
  BY <1>1, <1>6 DEF Receive, Become
<1>7. CASE CountAdmins(c)
  <2>1. call[c].pc = "received" /\ call[c] \in Call
    BY <1>1, <1>7 DEF CountAdmins, At
  <2>2. call'[c].pc = "counted" \/ call'[c] = Idle
    BY <1>1, <1>7, <2>1 DEF CountAdmins, At, Become, Call, Idle
  <2>3. QED
    BY <1>5, <2>2
<1>8. QED
  <2>1. ASSUME NEW b \in Calls, b # c, NEW t, Become(b, t) PROVE call'[c] = call[c]
    BY <1>1, <2>1 DEF Become
  <2>2. UNCHANGED call => call'[c] = call[c]
    OBVIOUS
  <2>3. CASE UNCHANGED vars \/ Environment
    BY <1>2, <2>2, <2>3
    DEF vars, Environment, Expire, IssueCode, ByHand, SetAccount, Deploy
  <2>4. ASSUME NEW b \in Calls, b # c,
               \/ \E request \in Request : Receive(b, request)
               \/ Authorize(b) \/ Examine(b) \/ Commit(b)
               \/ CountAdmins(b) \/ CommitBootstrap(b) \/ Rollback(b)
        PROVE  call'[c] = call[c]
    BY <2>1, <2>4 DEF Receive, Authorize, Examine, Commit, CountAdmins, CommitBootstrap, Rollback
  <2>5. CASE Commit(c) \/ CommitBootstrap(c) \/ Rollback(c)
    BY <1>1, <1>5, <2>5 DEF Commit, CommitBootstrap, Rollback, Become
  <2>6. QED
    BY <1>2, <1>3, <1>4, <1>6, <1>7, <2>3, <2>4, <2>5 DEF Next

(* The action of LastAdminStays.                                           *)
LeavesOne ==
  /\ Admins # {}
  /\ \A u \in Users : user[u].account = "active" => user'[u].account = "active"
  => Admins' # {}

LEMMA StepOverlap ==
  OverlapInv /\ WithdrawalsDoNotOverlap /\ [Next]_vars /\ [ByHandApart]_vars
  => OverlapInv' /\ [LeavesOne]_vars
<1> SUFFICES ASSUME OverlapInv, WithdrawalsDoNotOverlap, [Next]_vars, [ByHandApart]_vars
             PROVE  OverlapInv' /\ LeavesOne
  OBVIOUS
<1>1. TypeInv' /\ TypeInv /\ Idle.pc = "idle"
  BY StepType DEF OverlapInv, Idle
<1>2. CASE \E c \in Calls : Withdrawing(c) /\ Commit(c)
  <2>1. PICK c \in Calls : Withdrawing(c) /\ Commit(c)
    BY <1>2
  <2>2. Admins' # {}
    BY <2>1, WithdrawalKeepsOthers DEF OverlapInv
  <2>3. \A b \in Calls : call'[b] = IF b = c THEN Idle ELSE call[b]
    BY <1>1, <2>1 DEF Commit, Become, TypeInv, TypeOK
  <2>4. \A b \in Calls : ~ Withdrawing(b)'
    BY <2>1, <2>3 DEF WithdrawalsDoNotOverlap, Withdrawing, Withdraws, Idle
  <2>5. QED
    BY <1>1, <2>2, <2>4 DEF OverlapInv, AuthorizedByAdmin, WithdrawalLeavesOne, LeavesOne
<1>3. CASE ByHand /\ ~ UNCHANGED vars
  <2>1. \A c \in Calls : call'[c].pc = "idle"
    BY <1>1, <1>3 DEF ByHandApart, ByHand, SetAccount
  <2>2. LeavesOne
    <3> SUFFICES ASSUME NEW u \in Users, IsAdmin(user[u]),
                        \A w \in Users : user[w].account = "active" => user'[w].account = "active"
                 PROVE  IsAdmin(user'[u])
      BY DEF LeavesOne, Admins
    <3>1. user[u] \in User /\ user \in [Users -> User]
      BY <1>1 DEF TypeInv, TypeOK
    <3>2. user'[u].role = user[u].role /\ user'[u].granted = user[u].granted
      BY <1>3, <3>1 DEF ByHand, SetAccount, User
    <3>3. QED
      BY <3>2 DEF IsAdmin
  <2>3. QED
    BY <1>1, <2>1, <2>2 DEF OverlapInv, AuthorizedByAdmin, WithdrawalLeavesOne, Withdrawing
<1>4. CASE ~ (ByHand /\ ~ UNCHANGED vars) /\ \A c \in Calls : ~ (Withdrawing(c) /\ Commit(c))
  <2>1. Admins \subseteq Admins'
    BY <1>1, <1>4, OthersKeepAdmins
  <2>2. AuthorizedByAdmin'
    BY <1>1, <2>1, AuthorizedMoves DEF OverlapInv, AuthorizedByAdmin
  <2>3. WithdrawalLeavesOne'
    <3> SUFFICES ASSUME NEW c \in Calls, Withdrawing(c)'
                 PROVE  Admins \ {call'[c].request.target} # {}
      BY <2>1 DEF WithdrawalLeavesOne
    <3>1. call'[c].pc = "examined" /\ Withdraws(call'[c].request)
      BY DEF Withdrawing, Withdraws
    <3>2. CASE call[c].pc = "examined"
      BY <1>1, <3>1, <3>2, AuthorizedMoves
      DEF OverlapInv, WithdrawalLeavesOne, Withdrawing
    <3>3. CASE call[c].pc # "examined"
      <4> DEFINE t == call'[c].request.target
      <4>1. /\ Admins # {}
            /\ ~ (RemovesAdmin(call'[c].request) /\ Cardinality(Admins) = 1)
        BY <1>1, <3>1, <3>3, AuthorizedMoves DEF OverlapInv
      <4>2. Target(call'[c].request) = t
        BY <3>1 DEF Target, Withdraws
      <4>3. Admins # {t}
        <5>1. SUFFICES ASSUME Admins = {t} PROVE FALSE
          OBVIOUS
        <5>2. IsAdmin(user[t]) /\ Cardinality(Admins) = 1
          BY <5>1, FS_Singleton DEF Admins
        <5>3. QED
          BY <3>1, <4>1, <4>2, <5>2 DEF RemovesAdmin, Withdraws
      <4>4. QED
        BY <4>1, <4>3
    <3>4. QED
      BY <3>2, <3>3
  <2>4. QED
    BY <1>1, <2>1, <2>2, <2>3 DEF OverlapInv, LeavesOne
<1>5. QED
  BY <1>2, <1>3, <1>4

LEMMA InitOverlap == Init => OverlapInv
<1> SUFFICES ASSUME Init PROVE OverlapInv
  OBVIOUS
<1>1. \A c \in Calls : call[c].pc = "idle"
  BY DEF Init, Idle
<1>2. QED
  BY <1>1, InitType DEF OverlapInv, AuthorizedByAdmin, WithdrawalLeavesOne, Withdrawing

(* The last administrator stays whatever calls, bootstraps and deployments *)
(* overlap, as long as no two withdrawals do, from the count to the commit *)
(* (users.py, set_permissions and change_role), and nothing is changed by  *)
(* hand under a call.  So a lock around the two would be enough, and       *)
(* admin_race shows that something is needed.                              *)
THEOREM LastAdminStaysUnlessWithdrawalsOverlap ==
  Spec /\ []WithdrawalsDoNotOverlap /\ [][ByHandApart]_vars => LastAdminStays
BY InitOverlap, StepOverlap, PTL DEF Spec, LastAdminStays, LeavesOne

(***************************************************************************)
(* The first administrator.  The named lock keeps the bootstraps of the    *)
(* command line apart.  A call of the API needs an administrator, so that  *)
(* none can make one between the count of a bootstrap and its commit       *)
(* either; only the bootstrap of a deployment, which takes no lock, can.   *)
(***************************************************************************)
OneBootstrap ==
  \A b, c \in Calls : call[b].pc = "counted" /\ call[c].pc = "counted" => b = c

CountedNone == \A c \in Calls : call[c].pc = "counted" => Admins = {}

BootstrapInv == OverlapInv /\ OneBootstrap /\ CountedNone

(* A step after which a call has counted that had not before is its count. *)
LEMMA OnlyCountCounts ==
  ASSUME TypeInv, [Next]_vars, NEW c \in Calls, call'[c].pc = "counted", call[c].pc # "counted"
  PROVE  CountAdmins(c)
<1>1. TypeOK /\ call \in [Calls -> Call] /\ Idle.pc = "idle"
  BY DEF TypeInv, TypeOK, Idle
<1>2. ~ UNCHANGED call
  OBVIOUS
<1>3. ASSUME NEW b \in Calls, NEW t, Become(b, t), t.pc # "counted" PROVE FALSE
  BY <1>1, <1>3 DEF Become
<1>4. ASSUME NEW b \in Calls, Authorize(b) PROVE FALSE
  <2>1. [call[b] EXCEPT !.pc = "authorized"].pc = "authorized"
    BY <1>1, <1>4, CallFacts DEF Authorize, At, Call, Idle
  <2>2. QED
    BY <1>1, <1>3, <1>4, <2>1 DEF Authorize
<1>5. ASSUME NEW b \in Calls,
             \/ \E request \in Request : Receive(b, request)
             \/ Examine(b) \/ Commit(b) \/ CommitBootstrap(b) \/ Rollback(b)
      PROVE  FALSE
  BY <1>1, <1>3, <1>5 DEF Receive, Examine, Commit, CommitBootstrap, Rollback
<1>6. ASSUME NEW b \in Calls, CountAdmins(b) PROVE b = c
  BY <1>1, <1>6 DEF CountAdmins, Become
<1>7. QED
  BY <1>2, <1>4, <1>5, <1>6
  DEF Next, vars, Environment, Expire, IssueCode, ByHand, SetAccount, Deploy

LEMMA StepBootstrap ==
  /\ BootstrapInv /\ WithdrawalsDoNotOverlap /\ [Next]_vars
  /\ [DeployApart]_vars /\ [ByHandApart]_vars
  => BootstrapInv'
<1> SUFFICES ASSUME BootstrapInv, WithdrawalsDoNotOverlap, [Next]_vars,
                    [DeployApart]_vars, [ByHandApart]_vars
             PROVE  BootstrapInv'
  OBVIOUS
<1>1. OverlapInv' /\ TypeInv /\ OneBootstrap /\ CountedNone /\ AuthorizedByAdmin
  BY StepOverlap DEF BootstrapInv, OverlapInv
<1>2. TypeOK /\ KindsOfCalls /\ Idle.pc = "idle"
  BY <1>1 DEF TypeInv, Idle
<1>3. ASSUME NEW c \in Calls, call'[c].pc = "counted", call[c].pc # "counted"
      PROVE  /\ \A b \in Calls : call[b].pc # "counted"
             /\ Admins = {} /\ Admins' = {}
             /\ \A b \in Calls : b # c => call'[b] = call[b]
  <2>1. CountAdmins(c)
    BY <1>1, <1>3, OnlyCountCounts
  <2>2. \A b \in Calls : call[b].pc # "counted"
    BY <1>2, <2>1 DEF CountAdmins, At, KindsOfCalls
  <2>3. Admins = {} /\ Admins' = {}
    BY <1>2, <1>3, <2>1 DEF CountAdmins, Become, TypeOK, Admins
  <2>4. QED
    BY <1>2, <2>1, <2>2, <2>3 DEF CountAdmins, Become, TypeOK
<1>4. OneBootstrap'
  BY <1>1, <1>3 DEF OneBootstrap
<1>5. ASSUME NEW c \in Calls, call[c].pc = "counted", call'[c].pc = "counted"
      PROVE  Admins' = {}
  <2>1. Admins = {} /\ \A b \in Calls : call[b].pc \notin {"authorized", "examined"}
    BY <1>1, <1>5 DEF CountedNone, AuthorizedByAdmin
  <2>2. ASSUME NEW b \in Calls, CommitBootstrap(b) PROVE FALSE
    <3>1. b = c
      BY <1>1, <1>5, <2>2 DEF CommitBootstrap, At, OneBootstrap
    <3>2. QED
      BY <1>2, <1>5, <2>2, <3>1 DEF CommitBootstrap, Become, TypeOK
  <2>3. (~ Deploy /\ ~ ByHand) \/ UNCHANGED vars
    BY <1>2, <1>5 DEF DeployApart, ByHandApart
  <2>4. \A b \in Calls : ~ Commit(b)
    BY <2>1 DEF Commit
  <2>5. UNCHANGED user
    BY <2>2, <2>3, <2>4
    DEF Next, vars, Environment, ByHand, SetAccount, Expire, IssueCode, Receive, Authorize, Examine,
        CountAdmins, Rollback
  <2>6. QED
    BY <2>1, <2>5 DEF Admins
<1>6. CountedNone'
  BY <1>3, <1>5 DEF CountedNone
<1>7. QED
  BY <1>1, <1>4, <1>6 DEF BootstrapInv

(* The bootstrap of the first administrator commits only while there is    *)
(* none, whatever grants, approvals and other bootstraps of the command    *)
(* line run next to it, as long as no deployment does, no withdrawals      *)
(* overlap and nothing is changed by hand under a call (bootstrap_admin.py *)
(* and bootstrap.py).                                                      *)
THEOREM BootstrapFindsNoAdminUnlessDeployed ==
  /\ Spec /\ []WithdrawalsDoNotOverlap
  /\ [][DeployApart]_vars /\ [][ByHandApart]_vars
  => BootstrapFindsNoAdmin
<1>1. Init => BootstrapInv
  <2>1. Init => \A c \in Calls : call[c].pc = "idle"
    BY DEF Init, Idle
  <2>2. QED
    BY <2>1, InitOverlap DEF BootstrapInv, OneBootstrap, CountedNone
<1>2. BootstrapInv /\ [Next]_vars =>
        [\A c \in Calls :
           /\ call[c].pc = "counted"
           /\ call'[c] = Idle
           /\ user' # user
           => Admins = {}]_vars
  BY DEF BootstrapInv, CountedNone
<1>3. QED
  BY <1>1, <1>2, StepBootstrap, PTL DEF Spec, BootstrapFindsNoAdmin

(***************************************************************************)
(* The same for a pairing code: it is the uses of one code that must not   *)
(* overlap.                                                                *)
(***************************************************************************)
ApprovalsHold ==
  \A c \in Calls, k \in Codes : Approving(c, k) => code[k].state \in {"valid", "expired"}

CodesInv == TypeInv /\ ApprovalsHold /\ CodesOnce

LEMMA EnvironmentCodes ==
  ASSUME CodesInv, Environment
  PROVE  ApprovalsHold' /\ CodesOnce'
<1>1. TypeOK /\ UNCHANGED <<call, approvals>>
  BY DEF CodesInv, TypeInv, Environment, Expire, IssueCode, ByHand, SetAccount, Deploy
<1>2. /\ \A k \in Codes : code[k].state = "consumed" => code'[k].state = "consumed"
      /\ \A k \in Codes : code[k].state \in {"valid", "expired"} =>
                          code'[k].state \in {"valid", "expired"}
  BY <1>1 DEF Environment, Expire, IssueCode, ByHand, SetAccount, Deploy, TypeOK, Code
<1>3. QED
  BY <1>1, <1>2 DEF CodesInv, ApprovalsHold, CodesOnce, Approving

LEMMA UseCodes ==
  ASSUME CodesInv, NEW c \in Calls, NEW k \in Codes, UseCode(k), Become(c, Idle),
         code[k].state \in {"valid", "expired"},
         \A b \in Calls : b # c => ~ Approving(b, k)
  PROVE  ApprovalsHold' /\ CodesOnce'
<1>1. TypeOK
  BY DEF CodesInv, TypeInv
<1>2. \A j \in Codes : j # k => code'[j] = code[j]
  BY <1>1 DEF UseCode, TypeOK
<1>3. \A b \in Calls : call'[b] = IF b = c THEN Idle ELSE call[b]
  BY <1>1 DEF Become, TypeOK
<1>4. QED
  BY <1>1, <1>2, <1>3, UseCodeOnce DEF CodesInv, ApprovalsHold, Approving, Idle

(* A step of a call that uses no code.                                     *)
LEMMA CallCodes ==
  ASSUME CodesInv, NEW c \in Calls, NEW t, Become(c, t), UNCHANGED <<code, approvals>>,
         t.pc = "examined" /\ t.request.op = "approve"
           => code[t.request.code].state \in {"valid", "expired"}
  PROVE  ApprovalsHold' /\ CodesOnce'
<1>1. \A b \in Calls : call'[b] = IF b = c THEN t ELSE call[b]
  BY DEF Become, CodesInv, TypeInv, TypeOK
<1>2. QED
  BY <1>1 DEF CodesInv, ApprovalsHold, CodesOnce, Approving

LEMMA StepCodes == CodesInv /\ UsesDoNotOverlap /\ [Next]_vars => CodesInv'
<1> SUFFICES ASSUME CodesInv, UsesDoNotOverlap, [Next]_vars PROVE CodesInv'
  OBVIOUS
<1>1. TypeOK /\ KindsOfCalls /\ TypeInv' /\ Idle.pc = "idle"
  BY StepType DEF CodesInv, TypeInv, Idle
<1>2. CASE UNCHANGED vars \/ Environment
  BY <1>1, <1>2, EnvironmentCodes DEF vars, CodesInv, ApprovalsHold, CodesOnce, Approving
<1>3. ASSUME NEW c \in Calls, Commit(c) PROVE ApprovalsHold' /\ CodesOnce'
  <2> DEFINE k == call[c].request.code
  <2>1. call[c].pc = "examined" /\ Become(c, Idle)
    BY <1>3 DEF Commit
  <2>2. CASE call[c].request.op = "approve"
    <3>1. k \in Codes /\ UseCode(k)
      BY <1>1, <1>3, <2>2, CommitWrites, RequestFacts DEF CodesInv, Commit
    <3>2. Approving(c, k)
      BY <2>1, <2>2 DEF Approving
    <3>3. QED
      BY <2>1, <3>1, <3>2, UseCodes DEF UsesDoNotOverlap, CodesInv, ApprovalsHold
  <2>3. CASE call[c].request.op # "approve"
    BY <1>1, <1>3, <2>1, <2>3, CallCodes DEF Commit
  <2>4. QED
    BY <2>2, <2>3
<1>4. ASSUME NEW c \in Calls, CommitBootstrap(c) PROVE ApprovalsHold' /\ CodesOnce'
  <2> DEFINE k == call[c].request.code
  <2>1. /\ call[c].pc = "counted" /\ call[c].request.op = "bootstrap"
        /\ call[c].request \in Request /\ Become(c, Idle)
    BY <1>1, <1>4, CallFacts DEF CommitBootstrap, At, Idle
  <2>2. k \in Codes
    BY <1>1, <2>1, RequestFacts
  <2>3. CASE code[k].state = "valid" /\ UseCode(k)
    BY <2>1, <2>2, <2>3, UseCodes DEF UsesDoNotOverlap
  <2>4. CASE UNCHANGED <<code, approvals>>
    BY <1>1, <2>1, <2>4, CallCodes
  <2>5. QED
    BY <1>4, <2>3, <2>4 DEF CommitBootstrap
<1>5. ASSUME NEW c \in Calls, Examine(c) PROVE ApprovalsHold' /\ CodesOnce'
  <2> DEFINE t == [pc |-> "examined", request |-> call[c].request,
                   seen |-> user[Target(call[c].request)]]
  <2>1. t.request = call[c].request /\ UNCHANGED <<code, approvals>>
    BY <1>5 DEF Examine
  <2>2. CASE Become(c, t) /\ ~ Refused(call[c].request)
    <3>1. t.request.op = "approve" => code[t.request.code].state = "valid"
      BY <2>2 DEF Refused
    <3>2. QED
      BY <2>1, <2>2, <3>1, CallCodes
  <2>3. CASE Become(c, Idle)
    BY <1>1, <2>1, <2>3, CallCodes
  <2>4. QED
    BY <1>5, <2>2, <2>3 DEF Examine
<1>6. ASSUME NEW c \in Calls,
             (\E request \in Request : Receive(c, request)) \/ Authorize(c) \/ CountAdmins(c)
             \/ Rollback(c)
      PROVE  ApprovalsHold' /\ CodesOnce'
  <2>1. UNCHANGED <<code, approvals>>
    BY <1>6 DEF Receive, Authorize, CountAdmins, Rollback
  <2>2. ASSUME NEW request, Become(c, [pc |-> "received", request |-> request])
        PROVE  ApprovalsHold' /\ CodesOnce'
    BY <2>1, <2>2, CallCodes
  <2>3. CASE Become(c, Idle)
    BY <1>1, <2>1, <2>3, CallCodes
  <2>4. ASSUME NEW pc \in {"authorized", "counted"}, call[c].pc = "received",
               Become(c, [call[c] EXCEPT !.pc = pc])
        PROVE  ApprovalsHold' /\ CodesOnce'
    <3>1. [call[c] EXCEPT !.pc = pc].pc # "examined"
      BY <1>1, <2>4, CallFacts DEF Call, Idle
    <3>2. QED
      BY <2>1, <2>4, <3>1, CallCodes
  <2>5. QED
    BY <1>6, <2>2, <2>3, <2>4 DEF Receive, Authorize, CountAdmins, Rollback, At
<1>7. QED
  BY <1>1, <1>2, <1>3, <1>4, <1>5, <1>6 DEF Next, CodesInv

(* A pairing code takes effect at most once whatever calls, bootstraps and *)
(* deployments overlap, as long as no use of a code does with an approval  *)
(* of the same code between its test and its commit (pairing.py).          *)
THEOREM CodeUsedOnceUnlessUsesOverlap ==
  Spec /\ []UsesDoNotOverlap => []CodeUsedOnce
<1>1. Init => CodesInv
  <2>1. Init => \A c \in Calls : call[c].pc = "idle"
    BY DEF Init, Idle
  <2>2. QED
    BY <2>1, InitType DEF Init, CodesInv, ApprovalsHold, CodesOnce, Approving
<1>2. CodesInv => CodeUsedOnce
  BY DEF CodesInv, CodesOnce, CodeUsedOnce
<1>3. QED
  BY <1>1, <1>2, StepCodes, PTL DEF Spec

=============================================================================
