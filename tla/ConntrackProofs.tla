--------------------------- MODULE ConntrackProofs ---------------------------
(***************************************************************************)
(* Type correctness of the connection table, and that it implements        *)
(* ConnPromise, for every set of packets and every timeout.                *)
(***************************************************************************)
EXTENDS Conntrack, TLAPS

(* A flow that is tracked has age 0 and every other flow keeps its age     *)
(* (ConnectionTable.track()).                                              *)
LEMMA TrackKeepsTable ==
  ASSUME NEW table, NEW flow \in Flows,
         DOMAIN table \subseteq Flows,
         table \in [DOMAIN table -> 0 .. IDLE_TIMEOUT]
  PROVE  LET t == track(table, flow) IN
         /\ DOMAIN t \subseteq Flows
         /\ t \in [DOMAIN t -> 0 .. IDLE_TIMEOUT]
  BY IdleTimeoutAssumption DEF track

(* The table only ever holds known flows with an age within the timeout    *)
(* (ConnectionTable and its callers).                                      *)
THEOREM TypeCorrect == Spec => []TypeOK
<1>1. Init => TypeOK
  BY DEF Init, TypeOK
<1>2. TypeOK /\ [Next]_vars => TypeOK'
  <2> SUFFICES ASSUME TypeOK, [Next]_vars PROVE TypeOK'
    OBVIOUS
  <2>1. ASSUME NEW p \in Packets, NEW policy_allowed \in BOOLEAN, Check(policy_allowed, p)
        PROVE  TypeOK'
    <3>1. p.flow \in Flows /\ reversed(p.flow) \in Flows
      BY ConntrackAssumption
    <3>2. last_seen' \in {last_seen, track(last_seen, p.flow), track(last_seen, reversed(p.flow))}
      BY <2>1 DEF Check, check_table
    <3>3. verdict' \in {"new", "reply", "drop"}
      BY <2>1 DEF Check, check_verdict
    <3>4. DOMAIN last_seen' \subseteq Flows /\ last_seen' \in [DOMAIN last_seen' -> 0 .. IDLE_TIMEOUT]
      BY <3>1, <3>2, TrackKeepsTable DEF TypeOK
    <3> QED  BY <3>3, <3>4 DEF TypeOK
  <2>2. ASSUME Expire PROVE TypeOK'
    BY <2>2 DEF Expire, expire, Restrict, TypeOK
  <2>3. ASSUME Elapse PROVE TypeOK'
    BY <2>3, IdleTimeoutAssumption DEF Elapse, elapse, TypeOK
  <2>4. ASSUME UNCHANGED vars PROVE TypeOK'
    BY <2>4 DEF vars, TypeOK
  <2> QED  BY <2>1, <2>2, <2>3, <2>4 DEF Next
<1> QED  BY <1>1, <1>2, PTL DEF Spec

(* The table gives the verdicts of the promise at every step: lazy expiry, *)
(* sweeps and the dictionary's partiality are invisible to the caller      *)
(* (ConnectionTable.check(), is_reply(), track() and expire()).            *)
THEOREM Refinement == Spec => ImplementsPromise
<1>1. Init => Promise!Init
  BY DEF Init, Promise!Init, Quiet
<1>2. TypeOK /\ [Next]_vars => [Promise!Next]_<<Quiet, verdict>>
  <2> SUFFICES ASSUME TypeOK, [Next]_vars
               PROVE  Promise!Next \/ UNCHANGED <<Quiet, verdict>>
    OBVIOUS
  <2>1. ASSUME NEW f \in Flows
        PROVE  /\ alive(last_seen, f) <=> Quiet[f] < IDLE_TIMEOUT
               /\ track(last_seen, f) = last_seen' => Quiet' = [Quiet EXCEPT ![f] = 0]
    <3>1. alive(last_seen, f) <=> Quiet[f] < IDLE_TIMEOUT
      BY IdleTimeoutAssumption DEF alive, Quiet
    <3>2. ASSUME last_seen' = track(last_seen, f)
          PROVE  Quiet' = [Quiet EXCEPT ![f] = 0]
      <4>1. /\ DOMAIN last_seen' = DOMAIN last_seen \cup {f}
            /\ \A g \in DOMAIN last_seen' :
                 last_seen'[g] = IF g = f THEN 0 ELSE last_seen[g]
        BY <3>2 DEF track
      <4>2. \A g \in Flows : Quiet'[g] = IF g = f THEN 0 ELSE Quiet[g]
        BY <4>1 DEF Quiet
      <4> QED  BY <4>2 DEF Quiet
    <3> QED  BY <3>1, <3>2
  <2>2. ASSUME NEW p \in Packets, NEW policy_allowed \in BOOLEAN, Check(policy_allowed, p)
        PROVE  Promise!Next
    <3>1. /\ p.flow \in Flows /\ reversed(p.flow) \in Flows
          /\ p.may_open \in BOOLEAN /\ p.may_reply \in BOOLEAN
      BY ConntrackAssumption
    <3>2. is_reply(last_seen, p.flow) <=> Promise!Exists(reversed(p.flow))
      BY <3>1, <2>1 DEF is_reply, Promise!Exists
    <3>3. CASE policy_allowed
      <4>1. Promise!Allowed(p)
        BY <2>2, <3>3, <3>1, <2>1 DEF Check, check_verdict, check_table, Promise!Allowed, Quiet
      <4> QED  BY <4>1 DEF Promise!Next
    <3>4. CASE ~policy_allowed /\ p.may_reply /\ is_reply(last_seen, p.flow)
      <4>1. verdict' = "reply" /\ last_seen' = track(last_seen, reversed(p.flow))
        BY <2>2, <3>4 DEF Check, check_verdict, check_table
      <4>2. Promise!Answered(p)
        BY <4>1, <3>1, <3>2, <3>4, <2>1 DEF Promise!Answered
      <4> QED  BY <4>2 DEF Promise!Next
    <3>5. CASE ~policy_allowed /\ ~(p.may_reply /\ is_reply(last_seen, p.flow))
      <4>1. verdict' = "drop" /\ last_seen' = last_seen
        BY <2>2, <3>5 DEF Check, check_verdict, check_table
      <4>2. Promise!Refused(p)
        BY <4>1, <3>1, <3>2, <3>5 DEF Promise!Refused, Quiet
      <4> QED  BY <4>2 DEF Promise!Next
    <3> QED  BY <3>3, <3>4, <3>5
  <2>3. ASSUME Expire PROVE UNCHANGED <<Quiet, verdict>>
    <3>1. /\ DOMAIN last_seen' = {f \in DOMAIN last_seen : alive(last_seen, f)}
          /\ \A f \in DOMAIN last_seen' : last_seen'[f] = last_seen[f]
          /\ verdict' = verdict
      BY <2>3 DEF Expire, expire, Restrict
    <3>2. \A f \in DOMAIN last_seen : last_seen[f] \in 0 .. IDLE_TIMEOUT
      BY DEF TypeOK
    <3>3. \A f \in DOMAIN last_seen : ~alive(last_seen, f) => last_seen[f] = IDLE_TIMEOUT
      BY <3>2, IdleTimeoutAssumption DEF alive
    <3>4. \A f \in Flows : Quiet'[f] = Quiet[f]
      BY <3>1, <3>3 DEF Quiet
    <3> QED  BY <3>1, <3>4 DEF Quiet
  <2>4. ASSUME Elapse PROVE Promise!Next
    <3>1. Promise!TimePasses
      BY <2>4, IdleTimeoutAssumption DEF Elapse, elapse, Quiet, TypeOK, Promise!TimePasses, Promise!Exists
    <3> QED  BY <3>1 DEF Promise!Next
  <2>5. ASSUME UNCHANGED vars PROVE UNCHANGED <<Quiet, verdict>>
    BY <2>5 DEF vars, Quiet
  <2> QED  BY <2>2, <2>3, <2>4, <2>5 DEF Next
<1> QED  BY <1>1, <1>2, TypeCorrect, PTL DEF Spec, ImplementsPromise, Promise!Spec
=============================================================================
