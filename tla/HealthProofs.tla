--------------------------- MODULE HealthProofs ---------------------------
(* A check ends in time and its answer is true, for any number of callers    *)
(* and dependencies and any timeout.                                         *)
EXTENDS Health, TLAPS

(* A running probe has its timer, and no other has. What did not answer      *)
(* since the check began is on record: for as long as a dependency does not  *)
(* answer, once a tick has passed over a running probe, and behind a probe   *)
(* that returned "down".                                                     *)
Armed    == \A c \in Caller : \A d \in Dependency : timer[c][d] <=> Running(c, d)
Watched  == \A c \in Caller : Asking(c) => \A d \in Dependency :
               (dep[d] # "answering" \/ probe[c][d] = "down" \/ (age[c] >= 1 /\ Running(c, d)))
                  => d \in troubled[c]
InTime   == \A c \in Caller : age[c] <= Ms
IInv     == TypeOK /\ Armed /\ Watched /\ InTime

(* All checks start in good order.                                           *)
LEMMA InitIInv == Init => IInv
  BY TimeoutAssumption DEF Init, IInv, TypeOK, Armed, Watched, InTime, Running, Asking, All, Idle

(* The start of a check.                                                     *)
LEMMA CheckIInv == ASSUME IInv, NEW c \in Caller, Check(c) PROVE IInv'
<1>1. TypeOK'
  BY TimeoutAssumption DEF Check, IInv, TypeOK, All, Idle
<1>2. Armed'
  BY TimeoutAssumption DEF Check, IInv, TypeOK, Armed, Running, Asking, All, Idle
<1>3. Watched'
  BY TimeoutAssumption DEF Check, IInv, TypeOK, Watched, Running, Asking, All, Idle
<1>4. InTime'
  BY TimeoutAssumption DEF Check, IInv, TypeOK, InTime
<1> QED BY <1>1, <1>2, <1>3, <1>4 DEF IInv

(* A probe returns; "down" only for a dependency that is on record.          *)
LEMMA SettleIInv ==
  ASSUME IInv, NEW c \in Caller, NEW d \in Dependency, NEW result \in {"up", "down"},
         Running(c, d), Settle(c, d, result), result = "down" => d \in troubled[c]
  PROVE  IInv'
<1>1. TypeOK'
  BY DEF Settle, IInv, TypeOK
<1>2. Armed'
  BY DEF Settle, IInv, TypeOK, Armed, Running, Asking
<1>3. Watched'
  BY DEF Settle, IInv, TypeOK, Watched, Running, Asking
<1>4. InTime'
  BY DEF Settle, IInv, InTime
<1> QED BY <1>1, <1>2, <1>3, <1>4 DEF IInv

(* The answer to the caller.                                                 *)
LEMMA ReplyIInv == ASSUME IInv, NEW c \in Caller, Reply(c) PROVE IInv'
<1>1. TypeOK'
  BY TimeoutAssumption DEF Reply, Settled, IInv, TypeOK, All, Idle, Healthy
<1>2. Armed'
  BY DEF Reply, Settled, IInv, TypeOK, Armed, Running, Asking, All, Idle
<1>3. Watched'
  BY DEF Reply, IInv, TypeOK, Watched, Running, Asking, All, Idle
<1>4. InTime'
  BY TimeoutAssumption DEF Reply, IInv, TypeOK, InTime, Idle
<1> QED BY <1>1, <1>2, <1>3, <1>4 DEF IInv

(* A dependency comes or goes.                                               *)
LEMMA ChangeIInv == ASSUME IInv, NEW d \in Dependency, Change(d) PROVE IInv'
<1>1. PICK s \in {"answering", "failing", "silent"} :
        /\ dep' = [dep EXCEPT ![d] = s]
        /\ troubled' = [c \in Caller |-> IF Asking(c) /\ s # "answering"
                                         THEN troubled[c] \cup {d} ELSE troubled[c]]
        /\ UNCHANGED <<age, probe, timer, answer>>
  BY DEF Change
<1>2. TypeOK'
  BY <1>1 DEF IInv, TypeOK
<1>3. Armed' /\ InTime'
  BY <1>1 DEF IInv, Armed, InTime, Running, Asking
<1>4. Watched'
  BY <1>1 DEF IInv, TypeOK, Watched, Running, Asking
<1> QED BY <1>2, <1>3, <1>4 DEF IInv

(* Time passes: some probe of each open check is still running, so its timer *)
(* has not expired.                                                          *)
LEMMA TickIInv == ASSUME IInv, Tick PROVE IInv'
<1>1. \A c \in Caller : Asking(c) => age[c] < Ms
  <2> SUFFICES ASSUME NEW c \in Caller, Asking(c) PROVE age[c] < Ms
    OBVIOUS
  <2>1. PICK d \in Dependency : Running(c, d)
    BY DEF Tick, Settled, Running
  <2> QED BY <2>1, TimeoutAssumption DEF Tick, Expired, IInv, TypeOK, Armed, Idle
<1>2. TypeOK'
  BY TimeoutAssumption DEF Tick, IInv, TypeOK, Idle
<1>3. Armed'
  BY TimeoutAssumption DEF Tick, IInv, TypeOK, Armed, Running, Asking, Idle
<1>4. Watched'
  BY TimeoutAssumption DEF Tick, IInv, TypeOK, Watched, Running, Asking, Idle
<1>5. InTime'
  BY <1>1, TimeoutAssumption DEF Tick, IInv, TypeOK, InTime, Idle
<1> QED BY <1>2, <1>3, <1>4, <1>5 DEF IInv

(* Every step keeps the invariant.                                           *)
LEMMA NextIInv == IInv /\ [Next]_vars => IInv'
<1> SUFFICES ASSUME IInv, [Next]_vars PROVE IInv'
  OBVIOUS
<1>1. CASE \E c \in Caller : Check(c)
  BY <1>1, CheckIInv
<1>2. CASE \E c \in Caller : Reply(c)
  BY <1>2, ReplyIInv
<1>3. ASSUME NEW c \in Caller, NEW d \in Dependency, Resolves(c, d) PROVE IInv'
  BY <1>3, SettleIInv DEF Resolves
<1>4. ASSUME NEW c \in Caller, NEW d \in Dependency, Rejects(c, d) PROVE IInv'
  <2>1. d \in troubled[c]
    BY <1>4 DEF Rejects, Running, IInv, Watched
  <2> QED BY <1>4, <2>1, SettleIInv DEF Rejects
<1>5. ASSUME NEW c \in Caller, NEW d \in Dependency, Expires(c, d) PROVE IInv'
  <2>1. d \in troubled[c]
    BY <1>5, TimeoutAssumption DEF Expires, Expired, Running, IInv, TypeOK, Watched, Idle
  <2> QED BY <1>5, <2>1, SettleIInv DEF Expires, Expired
<1>6. CASE \E d \in Dependency : Change(d)
  BY <1>6, ChangeIInv
<1>7. CASE Tick
  BY <1>7, TickIInv
<1>8. CASE UNCHANGED vars
  BY <1>8 DEF vars, IInv, TypeOK, Armed, Watched, InTime, Running, Asking
<1> QED BY <1>1, <1>2, <1>3, <1>4, <1>5, <1>6, <1>7, <1>8 DEF Next, CallerStep

(* The invariant holds at all times.                                         *)
LEMMA AlwaysIInv == Spec => []IInv
  BY InitIInv, NextIInv, PTL DEF Spec

(* No check outlives the timeout of its probes, and no timer its probe.      *)
THEOREM ChecksEnd == Spec => []AnsweredInTime
<1>1. IInv => AnsweredInTime
  BY DEF IInv, InTime, Armed, AnsweredInTime
<1> QED BY <1>1, AlwaysIInv, PTL

(* A check answers 503 exactly when it names a dependency, and names only    *)
(* those that did not answer at some time of the check.                      *)
THEOREM AnswersHonest == Spec => AnswerHonest
<1> DEFINE Named(c) == {d \in Dependency : answer'[c].details[d] = "down"}
           Honest == \A c \in Caller : (Asking(c) /\ age'[c] = Idle) =>
                        /\ Named(c) \subseteq troubled[c]
                        /\ (answer'[c].status = 200) <=> (Named(c) = {})
<1>1. IInv /\ [Next]_vars => [Honest]_vars
  <2> SUFFICES ASSUME IInv, Next, NEW c \in Caller, Asking(c), age'[c] = Idle
               PROVE  /\ Named(c) \subseteq troubled[c]
                      /\ (answer'[c].status = 200) <=> (Named(c) = {})
    OBVIOUS
  <2>1. Reply(c)
    <3>1. ASSUME NEW b \in Caller, Check(b) PROVE FALSE
      BY <3>1, TimeoutAssumption DEF Check, IInv, TypeOK, Asking, Idle
    <3>2. ASSUME NEW b \in Caller, NEW d \in Dependency, Resolves(b, d) \/ Rejects(b, d) \/ Expires(b, d)
          PROVE  FALSE
      BY <3>2 DEF Resolves, Rejects, Expires, Settle, Asking
    <3>3. ASSUME NEW d \in Dependency, Change(d) PROVE FALSE
      BY <3>3 DEF Change, Asking
    <3>4. ASSUME Tick PROVE FALSE
      BY <3>4, TimeoutAssumption DEF Tick, IInv, TypeOK, Asking, Idle
    <3>5. ASSUME NEW b \in Caller, b # c, Reply(b) PROVE FALSE
      BY <3>5 DEF Reply, IInv, TypeOK, Asking
    <3> QED BY <3>1, <3>2, <3>3, <3>4, <3>5 DEF Next, CallerStep
  <2>2. answer'[c] = [status |-> IF Healthy(probe[c]) THEN 200 ELSE 503, details |-> probe[c]]
    BY <2>1 DEF Reply, IInv, TypeOK
  <2>3. Named(c) \subseteq troubled[c]
    BY <2>2 DEF IInv, Watched
  <2>4. Healthy(probe[c]) <=> Named(c) = {}
    BY <2>1, <2>2 DEF Healthy, Reply, Settled, IInv, TypeOK
  <2> QED BY <2>2, <2>3, <2>4
<1>2. AnswerHonest <=> [][Honest]_vars
  BY DEF AnswerHonest
<1> QED BY <1>1, <1>2, AlwaysIInv, PTL DEF Spec
=============================================================================
