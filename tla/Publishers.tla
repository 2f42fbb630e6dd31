------------------------------ MODULE Publishers ------------------------------
(***************************************************************************)
(* The publishers registered with EventServer: publisher_admin upsert and  *)
(* the authentication of a publish request.                                *)
(*                                                                         *)
(* A token is compared by its hash.  Nothing makes the hash unique, so two *)
(* publishers may have the same token: the request is then taken for one   *)
(* of them.  A prefix is the set of event keys that begin with it; keys,   *)
(* tokens and prefixes of a wrong form are refused by the tool.  Nothing   *)
(* in the program disables a publisher.                                    *)
(***************************************************************************)
CONSTANTS
  PublisherKeys,
  Tokens,
  PrefixChoices,       \* sets of event keys the tool may allow a publisher
  Unregistered         \* no event_publishers row

PublisherParameters ==
  \A token \in Tokens, keys \in PrefixChoices :
    Unregistered # [token |-> token, allowed |-> keys]

VARIABLE publishers    \* the event_publishers table

Publisher == [token : Tokens, allowed : PrefixChoices]

PublishersTypeOK == publishers \in [PublisherKeys -> Publisher \union {Unregistered}]

(* upsert: registers a publisher or rotates its token, for the next request. *)
Upsert(key, token, allowed) ==
  publishers' = [publishers EXCEPT ![key] = [token |-> token, allowed |-> allowed]]

(* require_publisher_auth: whom a request may be taken for (401 for none). *)
Identities(token) ==
  {key \in PublisherKeys :
     publishers[key] # Unregistered /\ publishers[key].token = token}

(* The prefix test of publish_event (403).                                 *)
MayPublish(key, event) == event \in publishers[key].allowed
=============================================================================
