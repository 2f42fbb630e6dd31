--------------------------- MODULE Administration ---------------------------
(***************************************************************************)
(* Users, roles, permissions and pairing codes of one platform, and the    *)
(* administrative operations on them: grant, revoke, role change, approval *)
(* of a pairing code, and the two ways a first administrator appears.      *)
(*                                                                         *)
(* An API call is one transaction at READ COMMITTED that takes no row      *)
(* lock before it writes.  It reads the operator (require_admin), reads    *)
(* the target and counts the administrators (one step here), and commits   *)
(* the columns that differ from what it read.  A permission is granted or  *)
(* not: a user_permissions row with granted = FALSE is like no row.        *)
(* bootstrap_first_admin counts first and then locks the code row, and its *)
(* callers exclude each other by a named database lock.  Nothing else keeps *)
(* calls apart; what has to be for the properties is stated at the end.    *)
(***************************************************************************)
EXTENDS Integers, FiniteSets

CONSTANTS
  Users,
  Codes,           \* pairing codes that can be issued
  InitialAdmins,   \* Settings.initial_admin_openids
  Calls            \* calls that can be in progress at the same time

ASSUME AdministrationAssumption == InitialAdmins \subseteq Users

VARIABLES
  user,        \* users and user_permissions
  code,        \* pairing_codes
  approvals,   \* history: committed uses of each code
  call         \* the local state of every call

vars == <<user, code, approvals, call>>

Permissions == {"chat", "command"}

User == [account : {"absent", "active", "blocked"}, role : {"user", "admin"},
         granted : SUBSET Permissions]

NoUser == [account |-> "absent", role |-> "user", granted |-> {}]

Code == [state : {"unissued", "valid", "expired", "consumed"}, owner : Users]

Request ==
  [op : {"grant", "revoke"}, operator : Users, target : Users,
   permissions : SUBSET Permissions \ {{}}]
  \union [op : {"role"}, operator : Users, target : Users, role : {"user", "admin"}]
  \union [op : {"approve"}, operator : Users, code : Codes,
          permissions : SUBSET Permissions \ {{}}]
  \union [op : {"bootstrap"}, code : Codes]

Idle == [pc |-> "idle"]

Call ==
  {Idle}
  \union [pc : {"received", "authorized", "counted"}, request : Request]
  \union [pc : {"examined"}, request : Request, seen : User]

TypeOK ==
  /\ user \in [Users -> User]
  /\ code \in [Codes -> Code]
  /\ approvals \in [Codes -> Nat]
  /\ call \in [Calls -> Call]

Init ==
  /\ user = [u \in Users |-> NoUser]
  /\ \E u \in Users : code = [k \in Codes |-> [state |-> "unissued", owner |-> u]]
  /\ approvals = [k \in Codes |-> 0]
  /\ call = [c \in Calls |-> Idle]

IsAdmin(r) == r.account = "active" /\ r.role = "admin" /\ "command" \in r.granted

Admins == {u \in Users : IsAdmin(user[u])}

Become(c, state) == call' = [call EXCEPT ![c] = state]

-----------------------------------------------------------------------------
(* What happens outside the modelled calls.                                *)

IssueCode(k, u) ==             \* create_pairing_code
  /\ code[k].state = "unissued"
  /\ code' = [code EXCEPT ![k] = [state |-> "valid", owner |-> u]]
  /\ UNCHANGED <<user, approvals, call>>

Expire(k) ==                   \* expires_at passes
  /\ code[k].state = "valid"
  /\ code' = [code EXCEPT ![k].state = "expired"]
  /\ UNCHANGED <<user, approvals, call>>

SetAccount(u, account) ==      \* by hand, in the database: no code blocks a user
  /\ user[u].account # "absent"
  /\ user' = [user EXCEPT ![u].account = account]
  /\ UNCHANGED <<code, approvals, call>>

ByHand == \E u \in Users, account \in {"active", "blocked"} : SetAccount(u, account)

FullAdmin == [account |-> "active", role |-> "admin", granted |-> Permissions]

Deploy ==                      \* bootstrap.py, run by the deployment
  /\ user' = [u \in Users |-> IF u \in InitialAdmins THEN FullAdmin ELSE user[u]]
  /\ UNCHANGED <<code, approvals, call>>

-----------------------------------------------------------------------------
(* API calls.                                                              *)

Receive(c, request) ==
  /\ call[c] = Idle
  /\ Become(c, [pc |-> "received", request |-> request])
  /\ UNCHANGED <<user, code, approvals>>

At(c, pc, ops) == call[c].pc = pc /\ call[c].request.op \in ops

ApiOps == {"grant", "revoke", "role", "approve"}

(* require_admin; a refusal is AuthorizationError, HTTP 403.               *)
Authorize(c) ==
  /\ At(c, "received", ApiOps)
  /\ Become(c, IF IsAdmin(user[call[c].request.operator])
               THEN [call[c] EXCEPT !.pc = "authorized"] ELSE Idle)
  /\ UNCHANGED <<user, code, approvals>>

Target(request) ==
  IF request.op = "approve" THEN code[request.code].owner ELSE request.target

(* Mutant: only a change of role is checked.                               *)
RemovesAdminByRole(request) ==
  IsAdmin(user[Target(request)]) /\ request.op = "role" /\ request.role = "user"

(* The checks that raise LastAdminError, HTTP 409.                         *)
RemovesAdmin(request) ==
  /\ IsAdmin(user[Target(request)])
  /\ \/ request.op = "revoke" /\ "command" \in request.permissions
     \/ request.op = "role" /\ request.role = "user"

Refused(request) ==
  \/ request.op = "approve" /\ code[request.code].state # "valid"
  \/ RemovesAdmin(request) /\ Cardinality(Admins) = 1

Examine(c) ==
  /\ call[c].pc = "authorized"
  /\ LET request == call[c].request
     IN  Become(c, IF Refused(request) THEN Idle
                   ELSE [pc |-> "examined", request |-> request,
                         seen |-> user[Target(request)]])
  /\ UNCHANGED <<user, code, approvals>>

(* Only columns whose value differs from the one read are written.         *)
Written(r, request, seen) ==
  [account |-> IF r.account = "absent" THEN "active" ELSE r.account,
   role    |-> IF request.op = "role" /\ request.role # seen.role
               THEN request.role ELSE r.role,
   granted |-> CASE request.op \in {"grant", "approve"} ->
                      r.granted \union (request.permissions \ seen.granted)
                 [] request.op = "revoke" ->
                      r.granted \ (request.permissions \intersect seen.granted)
                 [] OTHER -> r.granted]

(* Mutants: consumed_at is not written; a state of its own for approval.   *)
UseCodeAgain(k) ==
  /\ approvals' = [approvals EXCEPT ![k] = @ + 1]
  /\ UNCHANGED code

UseCodeApproved(k) ==
  /\ code' = [code EXCEPT ![k].state = "approved"]
  /\ approvals' = [approvals EXCEPT ![k] = @ + 1]

UseCode(k) ==
  /\ code' = [code EXCEPT ![k].state = "consumed"]
  /\ approvals' = [approvals EXCEPT ![k] = @ + 1]

(* A user inserted by somebody else meanwhile is a duplicate key: 500.     *)
Commit(c) ==
  /\ call[c].pc = "examined"
  /\ LET request == call[c].request
         seen == call[c].seen
         t == Target(request)
     IN  /\ seen.account = "absent" => user[t].account = "absent"
         /\ user' = [user EXCEPT ![t] = Written(@, request, seen)]
         /\ IF request.op = "approve" THEN UseCode(request.code)
                                      ELSE UNCHANGED <<code, approvals>>
  /\ Become(c, Idle)

(* Mutant: without GET_LOCK.                                               *)
CountAdminsUnlocked(c) ==
  /\ At(c, "received", {"bootstrap"})
  /\ Become(c, IF Admins = {} THEN [call[c] EXCEPT !.pc = "counted"] ELSE Idle)
  /\ UNCHANGED <<user, code, approvals>>

(* bootstrap_first_admin under GET_LOCK.                                   *)
CountAdmins(c) ==
  /\ At(c, "received", {"bootstrap"})
  /\ \A b \in Calls : ~ At(b, "counted", {"bootstrap"})
  /\ Become(c, IF Admins = {} THEN [call[c] EXCEPT !.pc = "counted"] ELSE Idle)
  /\ UNCHANGED <<user, code, approvals>>

CommitBootstrap(c) ==
  /\ At(c, "counted", {"bootstrap"})
  /\ LET k == call[c].request.code
         u == code[k].owner
     IN  IF code[k].state = "valid" /\ user[u].account # "blocked"
         THEN /\ user' = [user EXCEPT ![u] = FullAdmin]
              /\ UseCode(k)
         ELSE UNCHANGED <<user, code, approvals>>
  /\ Become(c, Idle)

Rollback(c) ==
  /\ call[c] # Idle
  /\ Become(c, Idle)
  /\ UNCHANGED <<user, code, approvals>>

-----------------------------------------------------------------------------
Environment ==
  \/ \E k \in Codes : Expire(k) \/ \E u \in Users : IssueCode(k, u)
  \/ ByHand
  \/ Deploy

Next ==
  \/ Environment
  \/ \E c \in Calls :
       \/ \E request \in Request : Receive(c, request)
       \/ Authorize(c)
       \/ Examine(c)
       \/ Commit(c)
       \/ CountAdmins(c)
       \/ CommitBootstrap(c)
       \/ Rollback(c)

Spec == Init /\ [][Next]_vars

-----------------------------------------------------------------------------
(* What may not overlap.  Neither the code nor its database provides it.   *)

Withdraws(request) ==
  \/ request.op = "revoke" /\ "command" \in request.permissions
  \/ request.op = "role" /\ request.role = "user"

(* A withdrawal whose target was no administrator when it was examined is  *)
(* one all the same: the target may be an administrator at the COMMIT.     *)
Withdrawing(c) == call[c].pc = "examined" /\ Withdraws(call[c].request)

WithdrawalsDoNotOverlap == \A b, c \in Calls : Withdrawing(b) /\ Withdrawing(c) => b = c

Approving(c, k) ==
  call[c].pc = "examined" /\ call[c].request.op = "approve" /\ call[c].request.code = k

(* A bootstrap that has counted will test its code under a row lock, which *)
(* no approval looks at.                                                   *)
UsesDoNotOverlap ==
  \A b, c \in Calls, k \in Codes :
    /\ Approving(b, k)
    /\ Approving(c, k) \/ (call[c].pc = "counted" /\ call[c].request.code = k)
    => b = c

(* Steps: a deployment while a first administrator is being made, and a    *)
(* change by hand while there are calls, are kept apart.                   *)
DeployApart == Deploy => \A c \in Calls : call[c].pc # "counted"

ByHandApart == ByHand => \A c \in Calls : call[c] = Idle

-----------------------------------------------------------------------------
(* Administrators never remove the last active administrator (CONTRACT     *)
(* section 6; users.py, LastAdminError): a step that leaves every active   *)
(* account active leaves an administrator when there was one.              *)
LastAdminStays ==
  [][/\ Admins # {}
     /\ \A u \in Users : user[u].account = "active" => user'[u].account = "active"
     => Admins' # {}]_vars

(* A pairing code is a one-time code (CONTRACT section 5): whoever uses it, *)
(* approval or bootstrap, it takes effect at most once.                     *)
CodeUsedOnce == \A k \in Codes : approvals[k] <= 1

(* A first administrator is made only while there is none, although the    *)
(* count is read before the code row is locked (bootstrap_admin.py,        *)
(* GET_LOCK).                                                              *)
BootstrapFindsNoAdmin ==
  [][\A c \in Calls :
       /\ call[c].pc = "counted"
       /\ call'[c] = Idle
       /\ user' # user
       => Admins = {}]_vars
=============================================================================
