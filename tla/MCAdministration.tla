-------------------------- MODULE MCAdministration --------------------------
(* A small instance of Administration for TLC.                             *)
EXTENDS Administration, TLC

Symmetry ==
  Permutations(Users) \union Permutations(Codes) \union Permutations(Calls)

(* What the passing run explores of two calls at once: requests about      *)
(* "command" or a role, while no account is blocked.                       *)
AboutAdmins(request) ==
  request.op \in {"grant", "revoke", "approve"} => request.permissions = {"command"}

FewAtOnce ==
  LET inProgress == {c \in Calls : call[c] # Idle}
  IN  Cardinality(inProgress) > 1 =>
        /\ \A c \in inProgress : AboutAdmins(call[c].request)
        /\ \A u \in Users : user[u].account # "blocked"

(* A second code is there, or asked for, only for the bootstraps of a new  *)
(* server, as long as they are in progress.                                *)
FewCodes ==
  LET inProgress == {c \in Calls : call[c] # Idle}
      asked == {call[c].request.code : c \in
                  {d \in inProgress : call[d].request.op \in {"approve", "bootstrap"}}}
  IN  \/ Cardinality(asked \union {k \in Codes : code[k].state # "unissued"}) <= 1
      \/ /\ inProgress # {}
         /\ \A c \in inProgress : call[c].request.op = "bootstrap"
         /\ \A u \in Users : user[u] \in {NoUser, FullAdmin}
=============================================================================
