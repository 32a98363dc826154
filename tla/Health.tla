------------------------------ MODULE Health ------------------------------
(* GET /health: two probes in parallel, each a race between the call to a    *)
(* dependency and a timer. Time is counted from the start of each check, one *)
(* tick being half of the timer's 2000 ms when Ms = 2.                       *)
EXTENDS Integers

CONSTANTS
    Caller,      \* who asks: docker's healthcheck, a monitor
    Dependency,  \* Postgres and Redis
    Ms,          \* the timeout of a probe
    Patience     \* the timeout of docker's healthcheck

ASSUME TimeoutAssumption == Ms \in Nat \ {0} /\ Patience \in Nat /\ Ms < Patience

VARIABLES
    dep,         \* each dependency answers, fails calls, or stays silent
    age,         \* the age of the caller's check; Idle when there is none
    probe,       \* per check and dependency: running, or what probe() returned
    timer,       \* per check and dependency: setTimeout is armed
    troubled,    \* history: dependencies that did not answer at some time of the check
    answer       \* the last answer the caller got: HTTP status and details

vars == <<dep, age, probe, timer, troubled, answer>>

Idle == -1
Asking(c) == age[c] # Idle
All(v) == [d \in Dependency |-> v]
Running(c, d) == Asking(c) /\ probe[c][d] = "running"

Init ==
    /\ dep \in [Dependency -> {"answering", "failing", "silent"}]
    /\ age = [c \in Caller |-> Idle]
    /\ probe = [c \in Caller |-> All("down")]
    /\ timer = [c \in Caller |-> All(FALSE)]
    /\ troubled = [c \in Caller |-> {}]
    /\ answer = [c \in Caller |-> [status |-> 0, details |-> All("down")]]

(* Faulty: no timer; a dependency found down is not asked again.             *)
CheckWithoutTimer(c) ==
    /\ ~Asking(c)
    /\ age' = [age EXCEPT ![c] = 0]
    /\ probe' = [probe EXCEPT ![c] = All("running")]
    /\ timer' = [timer EXCEPT ![c] = All(FALSE)]
    /\ troubled' = [troubled EXCEPT ![c] = {d \in Dependency : dep[d] # "answering"}]
    /\ UNCHANGED <<dep, answer>>
CheckRemembering(c) ==
    /\ ~Asking(c)
    /\ age' = [age EXCEPT ![c] = 0]
    /\ probe' = [probe EXCEPT ![c] = [d \in Dependency |->
                   IF answer[c].status = 503 /\ answer[c].details[d] = "down" THEN "down" ELSE "running"]]
    /\ timer' = [timer EXCEPT ![c] = [d \in Dependency |-> probe'[c][d] = "running"]]
    /\ troubled' = [troubled EXCEPT ![c] = {d \in Dependency : dep[d] # "answering"}]
    /\ UNCHANGED <<dep, answer>>

(* Both probes start together: the call and the timer of each.               *)
Check(c) ==
    /\ ~Asking(c)
    /\ age' = [age EXCEPT ![c] = 0]
    /\ probe' = [probe EXCEPT ![c] = All("running")]
    /\ timer' = [timer EXCEPT ![c] = All(TRUE)]
    /\ troubled' = [troubled EXCEPT ![c] = {d \in Dependency : dep[d] # "answering"}]
    /\ UNCHANGED <<dep, answer>>

(* probe() returns, and finally clears its timer: what the losing side of    *)
(* the race does later goes nowhere.                                         *)
Settle(c, d, result) ==
    /\ probe' = [probe EXCEPT ![c][d] = result]
    /\ timer' = [timer EXCEPT ![c][d] = FALSE]
    /\ UNCHANGED <<dep, age, troubled, answer>>

Resolves(c, d) == Running(c, d) /\ dep[d] = "answering" /\ Settle(c, d, "up")
Rejects(c, d)  == Running(c, d) /\ dep[d] = "failing" /\ Settle(c, d, "down")
Expired(c, d)  == Running(c, d) /\ timer[c][d] /\ age[c] >= Ms
Expires(c, d)  == Expired(c, d) /\ Settle(c, d, "down")

(* Faulty: one dependency is enough.                                         *)
HealthyWithOne(results) == \E d \in Dependency : results[d] = "up"

Healthy(results) == \A d \in Dependency : results[d] = "up"

(* Promise.all has both results - a probe never rejects - and the status is  *)
(* set by hand, so that the details reach the caller.                        *)
Settled(c) == Asking(c) /\ \A d \in Dependency : probe[c][d] # "running"
Reply(c) ==
    /\ Settled(c)
    /\ answer' = [answer EXCEPT ![c] = [status |-> IF Healthy(probe[c]) THEN 200 ELSE 503,
                                        details |-> probe[c]]]
    /\ age' = [age EXCEPT ![c] = Idle]
    /\ probe' = [probe EXCEPT ![c] = All("down")]
    /\ troubled' = [troubled EXCEPT ![c] = {}]
    /\ UNCHANGED <<dep, timer>>

(* A dependency comes and goes. "silent" is a hung server or a pool without  *)
(* a free connection.                                                        *)
Change(d) ==
    \E s \in {"answering", "failing", "silent"} \ {dep[d]} :
       /\ dep' = [dep EXCEPT ![d] = s]
       /\ troubled' = [c \in Caller |-> IF Asking(c) /\ s # "answering"
                                        THEN troubled[c] \cup {d} ELSE troubled[c]]
       /\ UNCHANGED <<age, probe, timer, answer>>

(* Time passes while some check is open; what is due - an answer that is     *)
(* there, an expired timer, a reply - is not put off.                        *)
Tick ==
    /\ \E c \in Caller : Asking(c)
    /\ \A c \in Caller : /\ ~Settled(c)
                         /\ \A d \in Dependency : ~Expired(c, d) /\ (Running(c, d) => dep[d] # "answering")
    /\ age' = [c \in Caller |-> IF Asking(c) /\ age[c] < Patience THEN age[c] + 1 ELSE age[c]]
    /\ UNCHANGED <<dep, probe, timer, troubled, answer>>

CallerStep(c) ==
    Check(c) \/ Reply(c) \/ \E d \in Dependency : Resolves(c, d) \/ Rejects(c, d) \/ Expires(c, d)

Next == (\E c \in Caller : CallerStep(c)) \/ (\E d \in Dependency : Change(d)) \/ Tick

Spec == Init /\ [][Next]_vars

(* The callers ask again and again, the event loop runs what is due, time    *)
(* passes.                                                                   *)
Fairness ==
    /\ \A c \in Caller :
          /\ WF_vars(Check(c)) /\ WF_vars(Reply(c))
          /\ \A d \in Dependency : WF_vars(Resolves(c, d)) /\ WF_vars(Expires(c, d))
    /\ WF_vars(Tick)

FairSpec == Spec /\ Fairness

---------------------------------------------------------------------------
(* Properties.                                                             *)

TypeOK ==
    /\ dep \in [Dependency -> {"answering", "failing", "silent"}]
    /\ age \in [Caller -> Idle .. Patience]
    /\ probe \in [Caller -> [Dependency -> {"running", "up", "down"}]]
    /\ timer \in [Caller -> [Dependency -> BOOLEAN]]
    /\ troubled \in [Caller -> SUBSET Dependency]
    /\ answer \in [Caller -> [status : {0, 200, 503}, details : [Dependency -> {"up", "down"}]]]

(* No check outlives the timeout of a probe - whatever hangs, and though two *)
(* probes run - so docker's own timeout never strikes first: it would not    *)
(* say who is dead. No timer is left running behind its probe.               *)
AnsweredInTime ==
    \A c \in Caller : /\ age[c] <= Ms
                      /\ \A d \in Dependency : timer[c][d] => Running(c, d)

(* The answer is true of the check's time: 503 names a dependency, and every *)
(* one it names was failing or silent at some time of the check; 200 names   *)
(* none.                                                                     *)
AnswerHonest ==
    [][\A c \in Caller : (Asking(c) /\ age'[c] = Idle) =>
         LET named == {d \in Dependency : answer'[c].details[d] = "down"}
         IN /\ named \subseteq troubled[c]
            /\ (answer'[c].status = 200) <=> (named = {})]_vars

(* When both dependencies are back for good, every caller ends up with 200:  *)
(* nothing of an earlier failure - a hung call, a late answer - stays.       *)
RecoveryReported ==
    <>[](\A d \in Dependency : dep[d] = "answering") => <>[](\A c \in Caller : answer[c].status = 200)
=============================================================================
