----------------------------- MODULE ConnPromise -----------------------------
(***************************************************************************)
(* What connection tracking promises, with no table: every possible        *)
(* connection has been quiet for some time, and IDLE or longer means it    *)
(* does not exist. A packet the policy allows is admitted and, if it can   *)
(* open a connection, opens it; a packet the policy blocks is admitted     *)
(* exactly when it answers a connection that exists; nothing but the       *)
(* passage of time closes a connection.                                    *)
(***************************************************************************)
EXTENDS Naturals

CONSTANTS Flows, Packets, IDLE, Reversed(_)

VARIABLES quiet, verdict

Init == /\ quiet = [f \in Flows |-> IDLE]
        /\ verdict = "none"

Exists(f) == quiet[f] < IDLE

Allowed(p) ==
  /\ verdict' = "new"
  /\ quiet' = IF p.may_open THEN [quiet EXCEPT ![p.flow] = 0] ELSE quiet

Answered(p) ==
  /\ p.may_reply
  /\ Exists(Reversed(p.flow))
  /\ verdict' = "reply"
  /\ quiet' = [quiet EXCEPT ![Reversed(p.flow)] = 0]

Refused(p) ==
  /\ ~(p.may_reply /\ Exists(Reversed(p.flow)))
  /\ verdict' = "drop"
  /\ UNCHANGED quiet

TimePasses ==
  /\ quiet' = [f \in Flows |-> IF Exists(f) THEN quiet[f] + 1 ELSE quiet[f]]
  /\ UNCHANGED verdict

Next == TimePasses \/ \E p \in Packets : Allowed(p) \/ Answered(p) \/ Refused(p)

Spec == Init /\ [][Next]_<<quiet, verdict>>
=============================================================================
