---------------------------- MODULE DemoReminder ----------------------------
(***************************************************************************)
(* The demo-reminder publisher: what its ingress and its command line make *)
(* of one request, and the threads that wait for EventServer's answer.     *)
(*                                                                         *)
(* Instants and lengths of time are in ticks, Second of them a second: a   *)
(* datetime has a fraction, a payload has none.  A number in a request     *)
(* may have any fraction, and any sign.  A delay given as a string or a    *)
(* number of minutes is its length in ticks; syntax, title and text are    *)
(* left out, and a request that fails them is refused like any other.      *)
(***************************************************************************)
EXTENDS Integers

CONSTANTS
  Handlers,        \* threads of the ingress, runs of the command line
  Keys,            \* dedupe keys: given by the caller, or a fresh uuid
  Inputs,          \* the timing parameters callers use
  Second,
  DefaultDelay,    \* default_delay_seconds
  MaxDelay         \* max_delay_seconds

(* A parameter is a set: empty when it is not given.                       *)
Input == [delay : SUBSET Int, delay_seconds : SUBSET Int, at : SUBSET Int]

(* What the constants have to be.                                         *)
DemoParameters ==
  /\ Inputs \subseteq Input
  /\ Second \in Nat \ {0}
  /\ DefaultDelay \in Nat
  /\ MaxDelay \in Nat
  /\ DefaultDelay <= MaxDelay      \* PublisherSettings.from_environment

VARIABLE handler   \* what each thread is doing

Idle == [pc |-> "idle"]

Waiting == [pc |-> "wait"]

Handler ==
  {Idle, Waiting} \union [pc : {"post"}, key : Keys, notify_at : Int, seconds : Int]

HandlerTypeOK == handler \in [Handlers -> Handler]

DemoInit == handler = [h \in Handlers |-> Idle]

-----------------------------------------------------------------------------
(* Mutant: the payload keeps the fraction of the instant.                  *)
WholeWithFraction(t) == t

(* to_utc_iso drops the fraction of a second.                              *)
Whole(t) == (t \div Second) * Second

(* int() of a number of seconds rounds towards zero.                       *)
Truncated(length) ==
  IF length < 0 THEN - ((- length) \div Second) ELSE length \div Second

(* More than one parameter is refused: they describe the same moment.      *)
OneAtMost(input) ==
  \A a, b \in {"delay", "delay_seconds", "at"} : input[a] # {} /\ input[b] # {} => a = b

(* The sign is tested of the truncated number by parse_delay, of the       *)
(* number given by _parse_seconds.                                         *)
ParsedDelay(lengths) == {Truncated(v) : v \in lengths} \intersect Nat

ParsedSeconds(lengths) == {Truncated(v) : v \in lengths \intersect Nat}

(* What _resolve_timing makes of the parameters: the instant, and the      *)
(* seconds that are reported and then tested against max_delay_seconds.    *)
After(requested_at, seconds) ==
  [notify_at |-> requested_at + seconds * Second, seconds |-> seconds]

At(requested_at, instant) ==
  [notify_at |-> instant,
   seconds   |-> IF instant < requested_at THEN 0 ELSE Truncated(instant - requested_at)]

Timings(requested_at, input) ==
  LET default == IF input.delay \union input.delay_seconds \union input.at = {}
                 THEN {DefaultDelay} ELSE {}
  IN  {After(requested_at, seconds) :
         seconds \in default \union ParsedDelay(input.delay)
                             \union ParsedSeconds(input.delay_seconds)}
      \union {At(requested_at, instant) : instant \in input.at}

(* Mutant: no limit on the delay.                                          *)
AcceptedUnlimited(requested_at, input) ==
  IF OneAtMost(input) THEN Timings(requested_at, input) ELSE {}

(* The one timing of an accepted request; none when it is refused (400).   *)
Accepted(requested_at, input) ==
  IF OneAtMost(input)
  THEN {t \in Timings(requested_at, input) : t.seconds <= MaxDelay}
  ELSE {}

-----------------------------------------------------------------------------
(* submit: the request is turned into one publication.                     *)
Submit(h, key, input, now) ==
  /\ handler[h] = Idle
  /\ \E t \in Accepted(now, input) :
       handler' = [handler EXCEPT ![h] =
         [pc |-> "post", key |-> key, notify_at |-> Whole(t.notify_at),
          seconds |-> t.seconds]]

(* EventServerClient.publish: the request has reached EventServer.         *)
Post(h) ==
  /\ handler[h].pc = "post"
  /\ handler' = [handler EXCEPT ![h] = Waiting]

(* An answer, a refusal, a timeout or an unreachable EventServer: nothing  *)
(* is retried, the caller is told (200, or 502 for every PublishError).    *)
Finish(h) ==
  /\ handler[h] # Idle
  /\ handler' = [handler EXCEPT ![h] = Idle]
=============================================================================
