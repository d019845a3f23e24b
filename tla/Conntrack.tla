------------------------------ MODULE Conntrack ------------------------------
(***************************************************************************)
(* The connection table as the controller drives it: check() for every IP  *)
(* packet that crosses zones, with the stateless verdict as an input, and  *)
(* expire() from a recurring timer. Time passes between the calls.         *)
(***************************************************************************)
EXTENDS ConnectionTable

CONSTANTS Flows,     \* every connection a packet can belong to
          Packets    \* tracked descriptions of the packets that may arrive

ASSUME ConntrackAssumption ==
  /\ \A f \in Flows : reversed(f) \in Flows /\ reversed(reversed(f)) = f
  /\ \A p \in Packets : /\ p.flow \in Flows
                        /\ p.may_open \in BOOLEAN
                        /\ p.may_reply \in BOOLEAN

VARIABLES
  last_seen,   \* the dictionary: opening flow -> age
  verdict      \* what the last check() returned ("drop" for None)

vars == <<last_seen, verdict>>

Init == /\ last_seen = [f \in {} |-> 0]
        /\ verdict = "none"

Check(policy_allowed, p) ==
  /\ verdict' = check_verdict(last_seen, policy_allowed, p)
  /\ last_seen' = check_table(last_seen, policy_allowed, p)

Expire ==
  /\ last_seen' = expire(last_seen)
  /\ UNCHANGED verdict

Elapse ==
  /\ last_seen' = elapse(last_seen)
  /\ UNCHANGED verdict

Next ==
  \/ \E p \in Packets, policy_allowed \in BOOLEAN : Check(policy_allowed, p)
  \/ Expire
  \/ Elapse

(* The sweep is a recurring timer, so it runs for ever.                    *)
Spec == Init /\ [][Next]_vars /\ WF_vars(Expire)
-----------------------------------------------------------------------------
(* The table only ever holds known flows with an age up to the timeout,    *)
(* and check() returned one of its three results.                          *)
TypeOK ==
  /\ DOMAIN last_seen \subseteq Flows
  /\ last_seen \in [DOMAIN last_seen -> 0 .. IDLE_TIMEOUT]
  /\ verdict \in {"none", "new", "reply", "drop"}

(* A connection's silence, as the caller can observe it: a flow the table  *)
(* does not hold is as good as one that has been silent for the timeout.   *)
Quiet == [f \in Flows |-> IF f \in DOMAIN last_seen THEN last_seen[f] ELSE IDLE_TIMEOUT]

Promise == INSTANCE ConnPromise WITH
  IDLE <- IDLE_TIMEOUT, Reversed <- reversed, quiet <- Quiet

(* The dictionary with its lazy expiry and its sweeps gives the verdicts   *)
(* of the promise: a sweep never forgets a connection that is still live,  *)
(* an entry that outlived its timeout before the sweep admits nothing, and *)
(* no blocked packet plants or refreshes a connection it does not answer   *)
(* (conntrack.py check(), is_reply() and expire()).                        *)
ImplementsPromise == Promise!Spec

(* Memory is given back: an entry past its timeout is swept, unless a new  *)
(* packet opens the same connection again first (conntrack.py expire()).   *)
DeadEntriesAreFreed ==
  \A f \in Flows :
    (f \in DOMAIN last_seen /\ ~alive(last_seen, f))
      ~> (f \notin DOMAIN last_seen \/ alive(last_seen, f))
=============================================================================
