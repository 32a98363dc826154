------------------------ MODULE NotificationsProofs ------------------------
(***************************************************************************)
(* Proofs about Notifications, for any number of workers, cancellations,   *)
(* attempts and failures, and any distances between the dates.             *)
(***************************************************************************)
EXTENDS Notifications, SequenceTheorems, TLAPS

\* m is among the mails of job j.
MailOf(j, m) == \E i \in DOMAIN Mails(j) : Mails(j)[i] = m

\* The mails to master and client, one behind the other.
LEMMA TwoMails ==
  <<"createdMaster">> \o <<"createdClient">> = <<"createdMaster", "createdClient">>
<1> DEFINE s == <<"createdMaster">> \o <<"createdClient">>
           t == <<"createdMaster", "createdClient">>
<1>1. <<"createdMaster">> \in Seq(Mail) /\ <<"createdClient">> \in Seq(Mail)
  BY DEF Mail
<1>2. s \in Seq(Mail) /\ Len(s) = 2 /\ s[1] = "createdMaster" /\ s[2] = "createdClient"
  BY <1>1, ConcatProperties
<1>3. t \in Seq(Mail) /\ Len(t) = 2 /\ t[1] = "createdMaster" /\ t[2] = "createdClient"
  BY DEF Mail
<1> HIDE DEF s, t
<1>4. \A i \in 1..Len(s) : s[i] = t[i]
  BY <1>2, <1>3
<1>5. s = t
  BY <1>2, <1>3, <1>4, SeqEqual
<1> QED BY <1>5 DEF s, t

\* Which mails the three jobs send.
LEMMA MailsOfJobs ==
  ASSUME email \in BOOLEAN
  PROVE  /\ \A j \in Job : Mails(j) \in Seq(Mail)
         /\ \A m : MailOf("created", m) => m \in {"createdMaster", "createdClient"}
         /\ \A m : MailOf("cancelled", m) => m = "cancelledMaster"
         /\ \A m : MailOf("reminder", m) => m = "reminderClient"
<1>1. Mails("created") = <<"createdMaster", "createdClient">>
      \/ Mails("created") = <<"createdMaster">>
  <2>1. Mails("created") = <<"createdMaster">> \o (IF email THEN <<"createdClient">> ELSE <<>>)
    BY DEF Mails
  <2>2. <<"createdMaster">> \o <<>> = <<"createdMaster">>
    OBVIOUS
  <2> QED BY <2>1, <2>2, TwoMails
<1>2. Mails("cancelled") = <<"cancelledMaster">>
  BY DEF Mails
<1>3. Mails("reminder") = <<"reminderClient">> \/ Mails("reminder") = <<>>
  BY DEF Mails
<1>4. \A j \in Job : Mails(j) \in Seq(Mail)
  <2>1. Mails("created") \in Seq(Mail)
    <3>1. <<"createdMaster", "createdClient">> \in Seq(Mail) /\ <<"createdMaster">> \in Seq(Mail)
      BY DEF Mail
    <3> QED BY <1>1, <3>1
  <2>2. Mails("cancelled") \in Seq(Mail)
    BY <1>2 DEF Mail
  <2>3. Mails("reminder") \in Seq(Mail)
    <3>1. <<"reminderClient">> \in Seq(Mail) /\ <<>> \in Seq(Mail)
      BY DEF Mail
    <3> QED BY <1>3, <3>1
  <2> QED BY <2>1, <2>2, <2>3 DEF Job
<1>5. \A m : MailOf("created", m) => m \in {"createdMaster", "createdClient"}
  BY <1>1 DEF MailOf
<1>6. \A m : MailOf("cancelled", m) => m = "cancelledMaster"
  BY <1>2 DEF MailOf
<1>7. \A m : MailOf("reminder", m) => m = "reminderClient"
  BY <1>3 DEF MailOf
<1> QED BY <1>4, <1>5, <1>6, <1>7

\* The first mail of a list, and what is left behind it.
LEMMA HeadAndTail ==
  ASSUME NEW s \in Seq(Mail), s # <<>>
  PROVE  /\ Head(s) \in Mail /\ Head(s) = s[1] /\ 1 \in 1..Len(s)
         /\ Tail(s) \in Seq(Mail)
         /\ \A i \in 1..Len(Tail(s)) : i + 1 \in 1..Len(s) /\ Tail(s)[i] = s[i + 1]
OBVIOUS

-----------------------------------------------------------------------------
\* A job that has used up its attempts has failed, a locked job is active.
JobShape ==
  \A j \in Job : /\ tries[j] = Attempts => job[j] = "failed"
                 /\ owner[j] # NoWorker => job[j] = "active"

QueueOK ==
  /\ job \in [Job -> {"absent", "delayed", "waiting", "active", "backoff", "completed", "failed"}]
  /\ tries \in [Job -> 0..Attempts]
  /\ owner \in [Job -> Worker \cup {NoWorker}]
  /\ stalled \subseteq Job
  /\ JobShape

\* A handler has mails before it only between its load and its end.
Handler == [at : {"idle", "load", "next", "send"}, job : Job, todo : Seq(Mail)]

Shape(h) ==
  /\ h.at \in {"idle", "load"} => h.todo = <<>>
  /\ h.at = "send" => h.todo # <<>>
  /\ h.at = "idle" => h.job = "created"

WorkerOK ==
  /\ worker \in [Worker -> Handler]
  /\ \A w \in Worker : Shape(worker[w])

\* The types of the other variables.
RestOK ==
  /\ now \in Nat /\ email \in BOOLEAN /\ faults \in 0..MaxFaults
  /\ status \in {"confirmed", "cancelled", "completed"}
  /\ creator \in {"queue", "reminder", "done"}
  /\ canceller \in [Canceller -> {"idle", "save", "remove", "queue", "done"}]
  /\ sent \subseteq Mail /\ lost \subseteq Job /\ parallel \in BOOLEAN
  /\ mailed \in [Mail -> Nat] /\ unsure \in [Mail -> Nat] /\ expired \in [Mail -> Nat]

TypeInv == QueueOK /\ WorkerOK /\ RestOK

\* Whatever ends a handler by a throw keeps the shape of the queue.
LEMMA ThrowQueue ==
  ASSUME QueueOK, NEW w \in Worker, worker[w].job \in Job, Throw(w)
  PROVE  QueueOK'
<1> DEFINE j == worker[w].job
<1>1. j \in Job
  OBVIOUS
<1>2. CASE owner[j] = w
  <2>1. job[j] = "active" /\ tries[j] \in 0..Attempts /\ tries[j] # Attempts
    BY <1>1, <1>2, WorkerAssumption DEF QueueOK, JobShape
  <2>2. tries[j] + 1 \in 0..Attempts
    BY <2>1, WorkerAssumption
  <2>3. /\ tries' = [tries EXCEPT ![j] = tries[j] + 1]
        /\ job' = [job EXCEPT ![j] = IF tries'[j] < Attempts THEN "backoff" ELSE "failed"]
        /\ owner' = [owner EXCEPT ![j] = NoWorker]
        /\ stalled' = stalled
    BY <1>2 DEF Throw
  <2> HIDE DEF j
  <2> QED BY <1>1, <2>2, <2>3, WorkerAssumption DEF QueueOK, JobShape
<1>3. CASE owner[j] # w
  BY <1>3 DEF Throw, QueueOK, JobShape
<1> QED BY <1>2, <1>3

\* The queue, action by action.
LEMMA QueueStep ==
  ASSUME TypeInv, [Next]_vars
  PROVE  QueueOK'
<1> USE DEF queue
<1>a. /\ QueueOK /\ \A w \in Worker : worker[w].job \in Job
      /\ "created" \in Job /\ "cancelled" \in Job /\ "reminder" \in Job
  BY DEF TypeInv, WorkerOK, Handler, Job
<1>b. Attempts \in Nat \ {0} /\ NoWorker \notin Worker
  BY WorkerAssumption
<1>1. ASSUME NEW j \in Job, NEW state \in {"waiting", "delayed"}, Add(j, state)
      PROVE  QueueOK'
  BY <1>1, <1>a DEF Add, QueueOK, JobShape
<1>2. ASSUME NEW j \in Job, Drop(j), owner[j] = NoWorker, owner' = owner
      PROVE  QueueOK'
  BY <1>2, <1>a, <1>b DEF Drop, QueueOK, JobShape
<1>3. CASE QueueCreated \/ QueueReminder
  BY <1>1, <1>3, <1>a DEF QueueCreated, QueueReminder
<1>4. ASSUME NEW c \in Canceller, QueueCancelled(c) PROVE QueueOK'
  BY <1>1, <1>4, <1>a DEF QueueCancelled
<1>5. ASSUME NEW c \in Canceller, RemoveReminder(c) PROVE QueueOK'
  <2>1. CASE job["reminder"] = "active"
    BY <1>5, <2>1, <1>a DEF RemoveReminder, QueueOK, JobShape
  <2>2. CASE job["reminder"] # "active"
    BY <1>2, <1>5, <2>2, <1>a DEF RemoveReminder, QueueOK, JobShape
  <2> QED BY <2>1, <2>2
<1>6. ASSUME NEW w \in Worker, Work(w) PROVE QueueOK'
  <2>1. ASSUME NEW j \in Job, Take(w, j) PROVE QueueOK'
    BY <2>1, <1>a, <1>b DEF Take, QueueOK, JobShape
  <2>2. CASE Finish(w)
    BY <2>2, <1>a, <1>b DEF Finish, QueueOK, JobShape
  <2>3. CASE UNCHANGED queue
    BY <2>3, <1>a DEF QueueOK, JobShape
  <2> QED BY <1>6, <2>1, <2>2, <2>3 DEF Work, Load, Claim, Skip, Send
<1>7. ASSUME NEW w \in Worker, WorkFails(w) PROVE QueueOK'
  <2>1. CASE Throw(w)
    BY <2>1, <1>a, ThrowQueue
  <2>2. CASE Crash(w)
    BY <2>2, <1>a, <1>b DEF Crash, QueueOK, JobShape
  <2>3. CASE UNCHANGED queue
    BY <2>3, <1>a DEF QueueOK, JobShape
  <2> QED
    BY <1>7, <2>1, <2>2, <2>3
    DEF WorkFails, HandlerFails, ClaimUnheard, SendFails, SendUnsure, ReleaseFails
<1>8. ASSUME NEW j \in Job, Requeue(j) PROVE QueueOK'
  BY <1>8, <1>a, <1>b DEF Requeue, QueueOK, JobShape
<1>9. ASSUME NEW j \in Job, Retry(j) PROVE QueueOK'
  BY <1>9, <1>a, <1>b DEF Retry, QueueOK, JobShape
<1>10. ASSUME NEW j \in Job, Forget(j) PROVE QueueOK'
  <2>1. owner[j] = NoWorker
    BY <1>10, <1>a DEF Forget, QueueOK, JobShape
  <2> QED BY <1>2, <1>10, <2>1 DEF Forget
<1>11. CASE Remind
  BY <1>11, <1>a, <1>b DEF Remind, QueueOK, JobShape
<1>12. CASE UNCHANGED queue
  BY <1>12, <1>a DEF QueueOK, JobShape
<1> QED
  BY <1>3, <1>4, <1>5, <1>6, <1>7, <1>8, <1>9, <1>10, <1>11, <1>12
  DEF Next, NoReminder, CreatorFails, CancelRead, CancelSave, CancellerFails,
      Stall, SlowStall, KeyExpires, Complete, Tick, vars

\* What a worker's step makes of its handler.
LEMMA HandlerStep ==
  ASSUME TypeInv, NEW w \in Worker, Work(w) \/ WorkFails(w)
  PROVE  /\ worker' = [worker EXCEPT ![w] = worker'[w]]
         /\ worker'[w] \in Handler /\ Shape(worker'[w])
<1>a. /\ worker \in [Worker -> Handler] /\ worker[w] \in Handler /\ Shape(worker[w])
      /\ worker[w].job \in Job /\ worker[w].todo \in Seq(Mail)
      /\ Mails(worker[w].job) \in Seq(Mail)
  BY MailsOfJobs DEF TypeInv, WorkerOK, RestOK, Handler
<1>b. <<>> \in Seq(Mail)
  OBVIOUS
<1>c. Idle \in Handler /\ Shape(Idle)
  BY <1>b DEF Idle, Handler, Shape, Job
<1>1. ASSUME NEW j \in Job, Take(w, j)
      PROVE  /\ worker' = [worker EXCEPT ![w] = worker'[w]]
             /\ worker'[w] \in Handler /\ Shape(worker'[w])
  BY <1>1, <1>a, <1>b DEF Take, Handler, Shape
<1>2. CASE Load(w)
  BY <1>2, <1>a, <1>b DEF Load, Handler, Shape
<1>3. CASE Claim(w)
  BY <1>3, <1>a DEF Claim, Handler, Shape
<1>4. CASE Skip(w) \/ ClaimUnheard(w) \/ Send(w)
  <2>1. Tail(worker[w].todo) \in Seq(Mail)
    BY <1>4, <1>a, HeadAndTail DEF Skip, ClaimUnheard, Send, Shape
  <2>3. CASE worker' = [worker EXCEPT ![w].todo = Tail(@)] /\ worker[w].at = "next"
    BY <2>3, <1>a, <2>1 DEF Handler, Shape
  <2>4. CASE worker' = [worker EXCEPT ![w].at = "next", ![w].todo = Tail(@)]
    BY <2>4, <1>a, <2>1 DEF Handler, Shape
  <2> QED BY <1>4, <2>3, <2>4 DEF Skip, ClaimUnheard, Send
<1>5. CASE worker' = [worker EXCEPT ![w] = Idle]
  BY <1>5, <1>a, <1>c
<1> QED
  BY <1>1, <1>2, <1>3, <1>4, <1>5
  DEF Work, WorkFails, Finish, HandlerFails, SendFails, SendUnsure, ReleaseFails, Crash, Throw

Sending(w, m) == worker[w].at = "send" /\ Head(worker[w].todo) = m

\* A key that expires is nobody's who is sending.
Expires(m) ==
  /\ m \in sent /\ \A w \in Worker : ~Sending(w, m)
  /\ sent' = sent \ {m}
  /\ expired' = [expired EXCEPT ![m] = @ + 1]
  /\ UNCHANGED <<worker, mailed, unsure, parallel>>

\* A step is a worker's, the end of a key, or none of the workers' business.
LEMMA WorkerOrOther ==
  ASSUME [Next]_vars
  PROVE  \/ \E w \in Worker : Work(w) \/ WorkFails(w)
         \/ \E m \in Mail : Expires(m)
         \/ UNCHANGED <<worker, sent, mailed, unsure, expired, parallel>>
BY DEF Next, QueueCreated, QueueReminder, NoReminder, CreatorFails, CancelRead, CancelSave,
       RemoveReminder, QueueCancelled, CancellerFails, Stall, SlowStall, Requeue, Retry,
       Forget, Remind, Complete, Tick, KeyExpires, Expires, Sending, vars, history

LEMMA WorkerStep ==
  ASSUME TypeInv, [Next]_vars
  PROVE  WorkerOK'
<1>1. ASSUME NEW w \in Worker, Work(w) \/ WorkFails(w) PROVE WorkerOK'
  BY <1>1, HandlerStep DEF TypeInv, WorkerOK
<1>2. CASE UNCHANGED worker
  BY <1>2 DEF TypeInv, WorkerOK
<1> QED BY <1>1, <1>2, WorkerOrOther DEF Expires

\* The other variables.
LEMMA RestStep ==
  ASSUME TypeInv, [Next]_vars
  PROVE  RestOK'
<1> USE DEF RestOK, queue, history, Fault
<1>a. /\ RestOK /\ MaxFaults \in Nat
      /\ "created" \in Job /\ "cancelled" \in Job
  BY WorkerAssumption DEF TypeInv, Job
<1>1. CASE QueueCreated \/ QueueReminder \/ NoReminder \/ CreatorFails
  BY <1>1, <1>a DEF QueueCreated, QueueReminder, NoReminder, CreatorFails
<1>2. ASSUME NEW c \in Canceller,
             \/ CancelRead(c) \/ CancelSave(c) \/ RemoveReminder(c) \/ QueueCancelled(c)
             \/ CancellerFails(c)
      PROVE  RestOK'
  BY <1>2, <1>a DEF CancelRead, CancelSave, RemoveReminder, QueueCancelled, CancellerFails
<1>3. ASSUME NEW w \in Worker, Work(w) \/ WorkFails(w) PROVE RestOK'
  <2>1. worker[w].job \in Job
    BY DEF TypeInv, WorkerOK, Handler
  <2>2. worker[w].todo # <<>> => Head(worker[w].todo) \in Mail
    BY HeadAndTail DEF TypeInv, WorkerOK, Handler
  <2>3. worker[w].at = "send" => worker[w].todo # <<>>
    BY DEF TypeInv, WorkerOK, Shape
  <2>4. ASSUME NEW j \in Job, Take(w, j) PROVE RestOK'
    BY <2>4, <1>a DEF Take
  <2>5. CASE Load(w) \/ Claim(w) \/ Skip(w) \/ Finish(w)
    BY <2>5, <2>2, <1>a DEF Load, Claim, Skip, Finish
  <2>6. CASE Send(w)
    <3> DEFINE m == Head(worker[w].todo)
    <3>1. m \in Mail
      BY <2>6, <2>2, <2>3 DEF Send
    <3>2. mailed' = [mailed EXCEPT ![m] = mailed[m] + 1]
      BY <2>6 DEF Send, Delivered
    <3>3. mailed \in [Mail -> Nat]
      BY <1>a
    <3> HIDE DEF m
    <3>4. mailed' \in [Mail -> Nat]
      BY <3>1, <3>2, <3>3
    <3> QED BY <2>6, <3>4, <1>a DEF Send
  <2>7. CASE HandlerFails(w) \/ ClaimUnheard(w) \/ SendFails(w) \/ ReleaseFails(w) \/ Crash(w)
    BY <2>7, <2>1, <2>2, <1>a DEF HandlerFails, ClaimUnheard, SendFails, ReleaseFails, Crash
  <2>8. CASE SendUnsure(w)
    <3> DEFINE m == Head(worker[w].todo)
    <3>1. m \in Mail
      BY <2>8, <2>2, <2>3 DEF SendUnsure
    <3>2. /\ mailed' = [mailed EXCEPT ![m] = mailed[m] + 1]
          /\ unsure' = [unsure EXCEPT ![m] = unsure[m] + 1]
      BY <2>8, <3>1, <1>a DEF SendUnsure, Delivered
    <3>3. sent' \subseteq Mail /\ lost' \subseteq Job /\ faults' \in 0..MaxFaults
      BY <2>8, <2>1, <1>a DEF SendUnsure
    <3>4. UNCHANGED <<now, email, status, creator, canceller, expired, parallel>>
      BY <2>8 DEF SendUnsure
    <3> HIDE DEF m
    <3>5. mailed' \in [Mail -> Nat] /\ unsure' \in [Mail -> Nat]
      BY <3>1, <3>2, <1>a
    <3> QED BY <3>3, <3>4, <3>5, <1>a
  <2> QED BY <1>3, <2>4, <2>5, <2>6, <2>7, <2>8 DEF Work, WorkFails
<1>4. ASSUME NEW j \in Job, Stall(j) \/ SlowStall(j) \/ Retry(j) \/ Forget(j) PROVE RestOK'
  BY <1>4, <1>a DEF Stall, SlowStall, Requeue, Retry, Forget
<1>7. ASSUME NEW m \in Mail, KeyExpires(m) PROVE RestOK'
  BY <1>7, <1>a DEF KeyExpires
<1>5. CASE Remind \/ Complete \/ Tick
  BY <1>5, <1>a DEF Remind, Complete, Tick
<1>6. CASE UNCHANGED vars
  BY <1>6, <1>a DEF vars
<1> QED BY <1>1, <1>2, <1>3, <1>4, <1>5, <1>6, <1>7 DEF Next

\* TypeInv is inductive.
THEOREM QueueInvariant == Spec => []TypeInv
<1>1. Init => TypeInv
  <2> SUFFICES ASSUME Init PROVE TypeInv
    OBVIOUS
  <2>1. QueueOK
    BY WorkerAssumption DEF Init, QueueOK, JobShape
  <2>2. WorkerOK
    BY DEF Init, WorkerOK, Handler, Shape, Idle, Job
  <2>3. RestOK
    <3>1. now \in Nat
      BY TimeAssumption DEF Init
    <3>2. /\ mailed \in [Mail -> Nat] /\ unsure \in [Mail -> Nat] /\ expired \in [Mail -> Nat]
         /\ faults \in 0..MaxFaults
      BY WorkerAssumption DEF Init
    <3> QED BY <3>1, <3>2, AddressAssumption DEF Init, RestOK
  <2> QED BY <2>1, <2>2, <2>3 DEF TypeInv
<1>2. TypeInv /\ [Next]_vars => TypeInv'
  BY QueueStep, WorkerStep, RestStep DEF TypeInv
<1> QED BY <1>1, <1>2, PTL DEF Spec

\* The variables keep their types; that the attempts of a job stay within
\* their bound needs to know when a job fails and what drops its record.
THEOREM QueueTypes == Spec => []TypeOK
<1>1. TypeInv => TypeOK
  BY DEF TypeInv, QueueOK, WorkerOK, RestOK, Handler, TypeOK
<1> QED BY <1>1, QueueInvariant, PTL

-----------------------------------------------------------------------------
(***************************************************************************)
(* Once only.  The key of a mail is its sender's lock: whoever set it may  *)
(* send, and it is deleted only by the sender whose sending failed.        *)
(***************************************************************************)
SenderHasKey == \A w \in Worker, m \in Mail : Sending(w, m) => m \in sent

OneSender == \A v, w \in Worker, m \in Mail : Sending(v, m) /\ Sending(w, m) => v = w

\* Before a mail goes out, each earlier copy was one whose sender heard an error
\* or whose key has expired.
Balance ==
  \A m \in Mail :
    /\ mailed[m] <= 1 + unsure[m] + expired[m]
    /\ m \notin sent \/ (\E w \in Worker : Sending(w, m)) => mailed[m] <= unsure[m] + expired[m]

SendInv == SenderHasKey /\ OneSender /\ Balance

\* What a worker's step does to the mail before it.
Claims(w, m) ==
  /\ m \notin sent /\ sent' = sent \cup {m}
  /\ worker'[w].at = "send" /\ Head(worker'[w].todo) = m
  /\ UNCHANGED <<mailed, unsure, expired>>

\* Who sets a key and does not send, or stops sending and keeps the key, has
\* robbed the job of this mail.
Leaves(w) ==
  /\ worker'[w].at # "send" /\ sent \subseteq sent' /\ UNCHANGED <<mailed, unsure, expired>>
  /\ \A m \in Mail : Sending(w, m) \/ m \in sent' \ sent =>
       /\ worker[w].todo # <<>> /\ m = Head(worker[w].todo)
       /\ worker[w].job \in lost'

Delivers(w, m) ==
  /\ Sending(w, m) /\ worker'[w].at # "send" /\ UNCHANGED <<sent, unsure, expired>>
  /\ mailed' = [mailed EXCEPT ![m] = mailed[m] + 1]

GivesUp(w, m) ==
  /\ Sending(w, m) /\ worker'[w].at # "send" /\ sent' = sent \ {m} /\ UNCHANGED expired
  /\ \/ UNCHANGED <<mailed, unsure>>
     \/ /\ mailed' = [mailed EXCEPT ![m] = mailed[m] + 1]
        /\ unsure' = [unsure EXCEPT ![m] = unsure[m] + 1]

LEMMA WorkerEffect ==
  ASSUME TypeInv, NEW w \in Worker, Work(w) \/ WorkFails(w)
  PROVE  \/ Leaves(w)
         \/ \E m \in Mail : Claims(w, m) \/ Delivers(w, m) \/ GivesUp(w, m)
<1> DEFINE m == Head(worker[w].todo)
<1> USE DEF history
<1>a. worker \in [Worker -> Handler] /\ worker[w] \in Handler /\ worker[w].todo \in Seq(Mail)
  BY DEF TypeInv, WorkerOK, Handler
<1>b. worker[w].todo # <<>> => m \in Mail
  BY <1>a, HeadAndTail
<1>c. worker[w].at = "send" => m \in Mail
  BY <1>b DEF TypeInv, WorkerOK, Shape
<1>d. RestOK
  BY DEF TypeInv
<1>e. worker[w].at = "send" => worker[w].todo # <<>>
  BY DEF TypeInv, WorkerOK, Shape
<1>1. ASSUME NEW j \in Job, Take(w, j) PROVE Leaves(w)
  BY <1>1, <1>a DEF Take, Leaves, Sending
<1>2. CASE Load(w) \/ Skip(w) \/ ClaimUnheard(w)
  BY <1>2, <1>a DEF Load, Skip, ClaimUnheard, Leaves, Handler, Sending
<1>3. CASE Finish(w) \/ HandlerFails(w) \/ ReleaseFails(w) \/ Crash(w)
  BY <1>3, <1>a, <1>e
  DEF Finish, HandlerFails, ReleaseFails, Crash, Throw, Leaves, Idle, Sending
<1>4. CASE Claim(w)
  <2>1. worker'[w].at = "send" /\ worker'[w].todo = worker[w].todo
    BY <1>4, <1>a DEF Claim, Handler
  <2>2. Claims(w, m)
    BY <1>4, <2>1 DEF Claim, Claims
  <2> QED BY <1>4, <1>b, <2>2 DEF Claim
<1>5. CASE Send(w)
  <2>1. worker'[w].at # "send"
    BY <1>5, <1>a DEF Send, Handler
  <2>2. Delivers(w, m)
    BY <1>5, <2>1, <1>c, <1>d DEF Send, Delivered, Delivers, Sending, RestOK
  <2> QED BY <1>5, <1>c, <2>2 DEF Send
<1>6. CASE SendFails(w)
  <2>1. worker'[w].at # "send"
    BY <1>6, <1>a DEF SendFails, Throw, Idle
  <2>2. GivesUp(w, m)
    BY <1>6, <2>1 DEF SendFails, GivesUp, Sending
  <2> QED BY <1>6, <1>c, <2>2 DEF SendFails
<1>7. CASE SendUnsure(w)
  <2>1. worker'[w].at # "send"
    BY <1>7, <1>a DEF SendUnsure, Throw, Idle
  <2>2. /\ mailed' = [mailed EXCEPT ![m] = mailed[m] + 1]
        /\ unsure' = [unsure EXCEPT ![m] = unsure[m] + 1]
    BY <1>7, <1>c, <1>d DEF SendUnsure, Delivered, RestOK
  <2>3. GivesUp(w, m)
    BY <1>7, <2>1, <2>2 DEF SendUnsure, GivesUp, Sending
  <2> QED BY <1>7, <1>c, <2>3 DEF SendUnsure
<1> QED BY <1>1, <1>2, <1>3, <1>4, <1>5, <1>6, <1>7 DEF Work, WorkFails

\* SendInv is inductive.
LEMMA SendInvStep ==
  ASSUME TypeInv, SendInv, [Next]_vars
  PROVE  SendInv'
<1>a. mailed \in [Mail -> Nat] /\ unsure \in [Mail -> Nat] /\ expired \in [Mail -> Nat]
  BY DEF TypeInv, RestOK
<1>1. ASSUME NEW w \in Worker, Work(w) \/ WorkFails(w) PROVE SendInv'
  <2>1. \A v \in Worker \ {w}, m \in Mail : Sending(v, m)' <=> Sending(v, m)
    BY <1>1, HandlerStep DEF TypeInv, WorkerOK, Sending
  <2>2. CASE Leaves(w)
    <3>1. \A v \in Worker, m \in Mail : Sending(v, m)' => Sending(v, m) /\ v # w
      BY <2>1, <2>2 DEF Leaves, Sending
    <3> QED BY <2>2, <3>1 DEF Leaves, SendInv, SenderHasKey, OneSender, Balance
  <2>3. ASSUME NEW m \in Mail, Claims(w, m) PROVE SendInv'
    <3>1. \A n \in Mail : Sending(w, n)' <=> n = m
      BY <2>3 DEF Claims, Sending
    <3>2. \A v \in Worker : ~Sending(v, m)
      BY <2>3 DEF Claims, SendInv, SenderHasKey
    <3> QED BY <2>1, <2>3, <3>1, <3>2, <1>a
            DEF Claims, SendInv, SenderHasKey, OneSender, Balance
  <2>4. ASSUME NEW m \in Mail, Delivers(w, m) \/ GivesUp(w, m) PROVE SendInv'
    <3>1. \A v \in Worker, n \in Mail : Sending(v, n)' => Sending(v, n) /\ v # w
      BY <2>1, <2>4 DEF Delivers, GivesUp, Sending
    <3>2. \A v \in Worker : ~Sending(v, m)'
      BY <2>4, <3>1 DEF Delivers, GivesUp, SendInv, OneSender
    <3>3. m \in sent /\ mailed[m] <= unsure[m] + expired[m]
      BY <2>4 DEF Delivers, GivesUp, SendInv, SenderHasKey, Balance
    <3>4. SenderHasKey' /\ OneSender'
      BY <2>4, <3>1, <3>2 DEF Delivers, GivesUp, SendInv, SenderHasKey, OneSender
    <3>5. Balance'
      BY <2>4, <3>1, <3>2, <3>3, <1>a DEF Delivers, GivesUp, SendInv, Balance
    <3> QED BY <3>4, <3>5 DEF SendInv
  <2> QED BY <1>1, <2>2, <2>3, <2>4, WorkerEffect
<1>2. ASSUME NEW m \in Mail, Expires(m) PROVE SendInv'
  <2>1. \A v \in Worker, n \in Mail : Sending(v, n)' <=> Sending(v, n)
    BY <1>2 DEF Expires, Sending
  <2>2. SenderHasKey' /\ OneSender'
    BY <1>2, <2>1 DEF Expires, SendInv, SenderHasKey, OneSender
  <2>3. mailed[m] <= 1 + unsure[m] + expired[m]
    BY DEF SendInv, Balance
  <2>4. Balance'
    BY <1>2, <2>1, <2>3, <1>a DEF Expires, SendInv, Balance
  <2> QED BY <2>2, <2>4 DEF SendInv
<1>3. CASE UNCHANGED <<worker, sent, mailed, unsure, expired>>
  BY <1>3 DEF SendInv, SenderHasKey, OneSender, Balance, Sending
<1> QED BY <1>1, <1>2, <1>3, WorkerOrOther

\* sendOnce keeps its name for the day its key lasts, whatever stalls, restarts
\* or is cancelled twice, with any number of cancellations.
THEOREM MailsGoOutOnce == Spec => []MailedOnce
<1>1. Init => SendInv
  BY DEF Init, SendInv, SenderHasKey, OneSender, Balance, Sending, Idle
<1>2. TypeInv /\ SendInv /\ [Next]_vars => SendInv'
  BY SendInvStep
<1>3. SendInv => MailedOnce
  BY DEF SendInv, Balance, MailedOnce
<1> QED BY <1>1, <1>2, <1>3, QueueInvariant, PTL DEF Spec

-----------------------------------------------------------------------------
(***************************************************************************)
(* Not too seldom.  A handler has only mails of its job before it, so what *)
(* it leaves unsent behind a key is on the account of that job.            *)
(***************************************************************************)
TodoInv ==
  \A w \in Worker : \A i \in 1..Len(worker[w].todo) : MailOf(worker[w].job, worker[w].todo[i])

\* A mail at the head of a handler's list is one of its job.
LEMMA HeadOfJob ==
  ASSUME TypeInv, TodoInv, NEW w \in Worker, worker[w].todo # <<>>
  PROVE  /\ Head(worker[w].todo) \in Mail
         /\ MailOf(worker[w].job, Head(worker[w].todo))
<1>1. worker[w].todo \in Seq(Mail)
  BY DEF TypeInv, WorkerOK, Handler
<1> QED BY <1>1, HeadAndTail DEF TodoInv

\* The list of mails is what is left of the job's, or empty.
LEMMA TodoEffect ==
  ASSUME TypeInv, NEW w \in Worker, Work(w) \/ WorkFails(w)
  PROVE  \/ worker'[w].todo = <<>>
         \/ /\ worker'[w].job = worker[w].job
            /\ \/ worker'[w].todo = worker[w].todo
               \/ worker'[w].todo = Mails(worker[w].job) /\ status = Wanted(worker[w].job)
               \/ worker[w].todo # <<>> /\ worker'[w].todo = Tail(worker[w].todo)
<1>a. worker \in [Worker -> Handler] /\ worker[w] \in Handler /\ Shape(worker[w])
  BY DEF TypeInv, WorkerOK
<1> USE DEF Handler
<1>1. ASSUME NEW j \in Job, Take(w, j) PROVE worker'[w].todo = <<>>
  BY <1>1, <1>a DEF Take
<1>2. CASE Load(w)
  BY <1>2, <1>a DEF Load
<1>3. CASE Claim(w)
  BY <1>3, <1>a DEF Claim
<1>4. CASE Skip(w) \/ ClaimUnheard(w) \/ Send(w)
  BY <1>4, <1>a DEF Skip, ClaimUnheard, Send, Shape
<1>5. CASE worker' = [worker EXCEPT ![w] = Idle]
  BY <1>5, <1>a DEF Idle
<1> QED
  BY <1>1, <1>2, <1>3, <1>4, <1>5
  DEF Work, WorkFails, Finish, HandlerFails, SendFails, SendUnsure, ReleaseFails, Crash, Throw

\* The address does not change, and histories only grow.
LEMMA HistoryGrows ==
  ASSUME RestOK, [Next]_vars
  PROVE  email' = email /\ lost \subseteq lost'
BY DEF Next, QueueCreated, QueueReminder, NoReminder, CreatorFails, CancelRead, CancelSave,
       RemoveReminder, QueueCancelled, CancellerFails, Stall, SlowStall, Requeue, Retry,
       Forget, Remind, Complete, Tick, Work, WorkFails, Take, Load, Claim, Skip, Send,
       Finish, HandlerFails, ClaimUnheard, SendFails, SendUnsure, ReleaseFails, Crash,
       KeyExpires, vars, history

LEMMA MailsStay ==
  ASSUME RestOK, [Next]_vars
  PROVE  \A j, m : MailOf(j, m)' <=> MailOf(j, m)
<1>1. email' = email
  BY HistoryGrows
<1>2. \A j : Mails(j)' = Mails(j)
  BY <1>1 DEF Mails
<1> QED BY <1>2 DEF MailOf

LEMMA TodoStep ==
  ASSUME TypeInv, TodoInv, [Next]_vars
  PROVE  TodoInv'
<1>a. \A j, m : MailOf(j, m)' <=> MailOf(j, m)
  BY MailsStay DEF TypeInv
<1>1. ASSUME NEW w \in Worker, Work(w) \/ WorkFails(w) PROVE TodoInv'
  <2>1. \A v \in Worker \ {w} : worker'[v] = worker[v]
    BY <1>1, HandlerStep DEF TypeInv, WorkerOK
  <2>2. worker[w].todo \in Seq(Mail) /\ Mails(worker[w].job) \in Seq(Mail)
    BY MailsOfJobs DEF TypeInv, WorkerOK, RestOK, Handler
  <2>3. ASSUME NEW i \in 1..Len(worker'[w].todo)
        PROVE  MailOf(worker'[w].job, worker'[w].todo[i])
    <3>1. CASE worker'[w].todo = <<>>
      BY <3>1
    <3>2. CASE worker'[w].job = worker[w].job /\ worker'[w].todo = worker[w].todo
      BY <3>2 DEF TodoInv
    <3>3. CASE worker'[w].job = worker[w].job /\ worker'[w].todo = Mails(worker[w].job)
      BY <2>2, <3>3 DEF MailOf
    <3>4. CASE /\ worker'[w].job = worker[w].job
               /\ worker[w].todo # <<>> /\ worker'[w].todo = Tail(worker[w].todo)
      <4>1. i + 1 \in 1..Len(worker[w].todo) /\ worker'[w].todo[i] = worker[w].todo[i + 1]
        BY <2>2, <3>4, HeadAndTail
      <4> QED BY <3>4, <4>1 DEF TodoInv
    <3> QED BY <1>1, <3>1, <3>2, <3>3, <3>4, TodoEffect
  <2> QED BY <1>a, <2>1, <2>3 DEF TodoInv
<1>2. CASE UNCHANGED worker
  BY <1>2, <1>a DEF TodoInv
<1> QED BY <1>1, <1>2, WorkerOrOther DEF Expires

\* The three ways to be in order, for a mail whose key is set.
Covered(m) ==
  \/ mailed[m] > 0
  \/ \E w \in Worker : Sending(w, m)
  \/ \E j \in lost : MailOf(j, m)

LEMMA KeyMeans == KeyMeansSent <=> \A m \in sent : Covered(m)
BY DEF KeyMeansSent, Covered, Sending, MailOf

\* KeyMeansSent, kept by every step.
LEMMA KeyMeansStep ==
  ASSUME TypeInv, TodoInv, KeyMeansSent, [Next]_vars
  PROVE  KeyMeansSent'
<1> SUFFICES ASSUME NEW m \in sent' PROVE Covered(m)'
  BY DEF KeyMeansSent, Covered, Sending, MailOf
<1>a. /\ \A j, n : MailOf(j, n)' <=> MailOf(j, n)
      /\ lost \subseteq lost' /\ sent' \subseteq Mail
      /\ mailed \in [Mail -> Nat] /\ unsure \in [Mail -> Nat]
  BY HistoryGrows, MailsStay, RestStep DEF TypeInv, RestOK
<1>b. m \in sent => Covered(m)
  BY KeyMeans
<1>1. ASSUME NEW w \in Worker, Work(w) \/ WorkFails(w) PROVE Covered(m)'
  <2>1. \A v \in Worker \ {w}, n \in Mail : Sending(v, n)' <=> Sending(v, n)
    BY <1>1, HandlerStep DEF TypeInv, WorkerOK, Sending
  <2>2. CASE Leaves(w)
    <3>1. CASE Sending(w, m) \/ m \notin sent
      <4>1. worker[w].job \in lost' /\ MailOf(worker[w].job, m)
        BY <2>2, <3>1, <1>a, HeadOfJob DEF Leaves
      <4> QED BY <4>1, <1>a DEF Covered
    <3>2. CASE ~Sending(w, m) /\ m \in sent
      BY <2>1, <2>2, <3>2, <1>a, <1>b DEF Leaves, Covered
    <3> QED BY <3>1, <3>2
  <2>3. ASSUME NEW n \in Mail, Claims(w, n) PROVE Covered(m)'
    <3>1. Sending(w, n)'
      BY <2>3 DEF Claims, Sending
    <3>2. CASE m = n
      BY <3>1, <3>2 DEF Covered
    <3>3. CASE m # n
      <4>1. m \in sent /\ ~Sending(w, m)
        <5>1. worker[w].at # "send"
          BY <1>1, <2>3 DEF Claims, Work, WorkFails, Take, Load, Claim, Skip, Send, Finish,
             HandlerFails, ClaimUnheard, SendFails, SendUnsure, ReleaseFails, Crash
        <5> QED BY <2>3, <3>3, <5>1 DEF Claims, Sending
      <4> QED BY <2>1, <2>3, <4>1, <1>a, <1>b DEF Claims, Covered
    <3> QED BY <3>2, <3>3
  <2>4. ASSUME NEW n \in Mail, Delivers(w, n) PROVE Covered(m)'
    <3>1. CASE m = n
      BY <2>4, <3>1, <1>a DEF Delivers, Covered
    <3>2. CASE m # n
      BY <2>1, <2>4, <3>2, <1>a, <1>b DEF Delivers, Covered, Sending
    <3> QED BY <3>1, <3>2
  <2>5. ASSUME NEW n \in Mail, GivesUp(w, n) PROVE Covered(m)'
    <3>1. m \in sent /\ m # n
      BY <2>5 DEF GivesUp
    <3> QED BY <2>1, <2>5, <3>1, <1>a, <1>b DEF GivesUp, Covered, Sending
  <2> QED BY <1>1, <2>2, <2>3, <2>4, <2>5, WorkerEffect
<1>2. CASE sent' \subseteq sent /\ UNCHANGED <<worker, mailed>>
  <2>1. Covered(m)
    BY <1>2, <1>b
  <2> QED BY <1>2, <2>1, <1>a DEF Covered, Sending
<1> QED BY <1>1, <1>2, WorkerOrOther DEF Expires

\* The list of a handler belongs to its job.
THEOREM TodoInvariant == Spec => []TodoInv
<1>1. Init => TodoInv
  BY DEF Init, TodoInv, Idle
<1> QED BY <1>1, TodoStep, QueueInvariant, PTL DEF Spec

\* A key stands for a mail that has arrived or is on its way, or for a fault
\* that nobody could answer.
THEOREM KeysMeanSent == Spec => []KeyMeansSent
<1>1. Init => KeyMeansSent
  BY DEF Init, KeyMeansSent
<1> QED BY <1>1, KeyMeansStep, TodoInvariant, QueueInvariant, PTL DEF Spec

-----------------------------------------------------------------------------
(***************************************************************************)
(* What goes out in spite of a cancellation.                               *)
(***************************************************************************)
\* A worker's step leaves the booking alone, and has mails behind it only if
\* it had some or has just found the status that its job wants.
LEMMA WorkAhead ==
  ASSUME TypeInv, NEW w \in Worker, Work(w) \/ WorkFails(w)
  PROVE  /\ UNCHANGED <<now, status, canceller>>
         /\ \A v \in Worker \ {w} : worker'[v] = worker[v]
         /\ worker'[w].todo # <<>> =>
              /\ worker'[w].job = worker[w].job
              /\ worker[w].todo # <<>> \/ status = Wanted(worker[w].job)
<1>1. UNCHANGED <<now, status, canceller>>
  BY DEF Work, WorkFails, Take, Load, Claim, Skip, Send, Finish, HandlerFails,
         ClaimUnheard, SendFails, SendUnsure, ReleaseFails, Crash
<1>2. \A v \in Worker \ {w} : worker'[v] = worker[v]
  BY HandlerStep DEF TypeInv, WorkerOK
<1> QED BY <1>1, <1>2, TodoEffect

\* A mail that arrives was at the head of a handler's list.
LEMMA Arrival ==
  ASSUME TypeInv, TodoInv, [Next]_vars, NEW m \in Mail, mailed'[m] > mailed[m]
  PROVE  \E w \in Worker : /\ worker[w].at # "idle" /\ worker[w].todo # <<>>
                           /\ MailOf(worker[w].job, m)
<1>a. mailed \in [Mail -> Nat]
  BY DEF TypeInv, RestOK
<1>1. PICK w \in Worker : Work(w) \/ WorkFails(w)
  BY <1>a, WorkerOrOther DEF Expires
<1>2. PICK n \in Mail : Delivers(w, n) \/ GivesUp(w, n)
  BY <1>1, <1>a, WorkerEffect DEF Leaves, Claims
<1>3. n = m /\ Sending(w, m)
  BY <1>2, <1>a DEF Delivers, GivesUp
<1>4. worker[w].todo # <<>>
  BY <1>3 DEF Sending, TypeInv, WorkerOK, Shape
<1> QED BY <1>3, <1>4, HeadOfJob DEF Sending

\* Which job a mail belongs to.
LEMMA JobOfMail ==
  ASSUME TypeInv, NEW j \in Job, NEW m, MailOf(j, m)
  PROVE  /\ m = "reminderClient" => j = "reminder"
         /\ m = "cancelledMaster" => j = "cancelled"
         /\ m = "createdMaster" => j = "created"
BY MailsOfJobs DEF TypeInv, RestOK, Job

\* A reminder is due before it is worked on, a cancellation saved not much
\* later than its deadline; when the second comes before the first, none who
\* is about to remind has seen a booking that is cancelled since.
ReminderDue ==
  /\ job["reminder"] \notin {"absent", "delayed"} => now >= Start - Lead
  /\ \A w \in Worker : worker[w].job = "reminder" => now >= Start - Lead

CancelInTime == \A c \in Canceller : canceller[c] = "save" => now <= Start - Deadline + 1

NoneForCancelled ==
  Deadline > Lead + 1 => \A w \in Worker :
    worker[w].job = "reminder" /\ worker[w].todo # <<>> => status # "cancelled"

ReminderInv == ReminderDue /\ CancelInTime /\ NoneForCancelled

LEMMA Dates ==
  ASSUME TypeInv
  PROVE  /\ Start \in Nat /\ Lead \in Nat /\ Deadline \in Nat /\ now \in Nat
         /\ "reminder" \in Job /\ job \in [Job -> {"absent", "delayed", "waiting", "active",
                                              "backoff", "completed", "failed"}]
BY TimeAssumption DEF TypeInv, RestOK, QueueOK, Job

LEMMA ReminderDueStep ==
  ASSUME TypeInv, ReminderDue, [Next]_vars
  PROVE  ReminderDue'
<1> USE Dates DEF ReminderDue, queue
<1>1. CASE QueueCreated \/ QueueReminder
  BY <1>1 DEF QueueCreated, QueueReminder, Add, Job
<1>2. ASSUME NEW c \in Canceller, RemoveReminder(c) \/ QueueCancelled(c) PROVE ReminderDue'
  BY <1>2 DEF RemoveReminder, QueueCancelled, Drop, Add, Job
<1>3. ASSUME NEW w \in Worker, Work(w) \/ WorkFails(w) PROVE ReminderDue'
  <2>1. now' = now /\ \A v \in Worker \ {w} : worker'[v] = worker[v]
    BY <1>3, WorkAhead
  <2>a. worker[w] \in Handler /\ worker \in [Worker -> Handler] /\ Idle.job = "created"
    BY DEF TypeInv, WorkerOK, Idle
  <2>2. ASSUME NEW j \in Job, Take(w, j) PROVE ReminderDue'
    BY <2>1, <2>2, <2>a DEF Take
  <2>3. CASE UNCHANGED job /\ worker'[w].job \in {worker[w].job, "created"}
    BY <2>1, <2>3
  <2>4. CASE Finish(w) \/ Throw(w)
    <3>1. worker'[w].job = "created"
      BY <2>4, <2>a DEF Finish, Throw
    <3>2. job'["reminder"] \notin {"absent", "delayed"} =>
            job["reminder"] \notin {"absent", "delayed"} \/ worker[w].job = "reminder"
      BY <2>4 DEF Finish, Throw
    <3> QED BY <2>1, <3>1, <3>2
  <2>5. CASE Load(w) \/ Claim(w) \/ Skip(w) \/ Send(w) \/ ClaimUnheard(w) \/ Crash(w)
    BY <2>3, <2>5, <2>a DEF Load, Claim, Skip, Send, ClaimUnheard, Crash, Handler
  <2> QED BY <1>3, <2>2, <2>4, <2>5
          DEF Work, WorkFails, HandlerFails, SendFails, SendUnsure, ReleaseFails
<1>4. ASSUME NEW j \in Job, Requeue(j) PROVE ReminderDue'
  BY <1>4 DEF Requeue
<1>5. ASSUME NEW j \in Job, Retry(j) \/ Forget(j) PROVE ReminderDue'
  BY <1>5 DEF Retry, Forget, Drop
<1>6. CASE Remind \/ Tick
  BY <1>6 DEF Remind, Tick
<1>7. CASE UNCHANGED <<now, queue, worker>>
  BY <1>7
<1> QED
  BY <1>1, <1>2, <1>3, <1>4, <1>5, <1>6, <1>7
  DEF Next, NoReminder, CreatorFails, CancelRead, CancelSave, CancellerFails, Stall,
      SlowStall, KeyExpires, Complete, vars

LEMMA CancelInTimeStep ==
  ASSUME TypeInv, CancelInTime, [Next]_vars
  PROVE  CancelInTime'
<1> USE Dates DEF CancelInTime
<1>a. canceller \in [Canceller -> {"idle", "save", "remove", "queue", "done"}]
  BY DEF TypeInv, RestOK
<1>1. ASSUME NEW c \in Canceller,
             \/ CancelRead(c) \/ CancelSave(c) \/ RemoveReminder(c) \/ QueueCancelled(c)
             \/ CancellerFails(c)
      PROVE  CancelInTime'
  BY <1>1, <1>a DEF CancelRead, CancelSave, RemoveReminder, QueueCancelled, CancellerFails
<1>2. CASE Tick
  BY <1>2 DEF Tick
<1>3. ASSUME NEW w \in Worker, Work(w) \/ WorkFails(w) PROVE CancelInTime'
  BY <1>3, WorkAhead
<1>4. CASE UNCHANGED <<now, canceller>>
  BY <1>4
<1> QED
  BY <1>1, <1>2, <1>3, <1>4
  DEF Next, QueueCreated, QueueReminder, NoReminder, CreatorFails, Stall, SlowStall,
      Requeue, Retry, Forget, Remind, KeyExpires, Complete, vars

LEMMA NoneForCancelledStep ==
  ASSUME TypeInv, ReminderInv, [Next]_vars
  PROVE  NoneForCancelled'
<1> USE Dates DEF ReminderInv, NoneForCancelled
<1>1. ASSUME NEW w \in Worker, Work(w) \/ WorkFails(w) PROVE NoneForCancelled'
  BY <1>1, WorkAhead DEF Wanted
<1>2. ASSUME NEW c \in Canceller, CancelSave(c) PROVE NoneForCancelled'
  BY <1>2 DEF CancelSave, ReminderDue, CancelInTime
<1>3. CASE Complete
  BY <1>3 DEF Complete
<1>4. CASE UNCHANGED <<status, worker>>
  BY <1>4
<1> QED
  BY <1>1, <1>2, <1>3, <1>4
  DEF Next, QueueCreated, QueueReminder, NoReminder, CreatorFails, CancelRead,
      RemoveReminder, QueueCancelled, CancellerFails, Stall, SlowStall, Requeue, Retry,
      Forget, Remind, KeyExpires, Tick, vars

\* The inductive invariant behind the reminders.
THEOREM ReminderInvariant == Spec => []ReminderInv
<1>1. Init => ReminderInv
  BY TimeAssumption
  DEF Init, ReminderInv, ReminderDue, CancelInTime, NoneForCancelled, Idle, Job
<1>2. TypeInv /\ ReminderInv /\ [Next]_vars => ReminderInv'
  BY ReminderDueStep, CancelInTimeStep, NoneForCancelledStep DEF ReminderInv
<1> QED BY <1>1, <1>2, QueueInvariant, PTL DEF Spec

\* No reminder goes out for a cancelled booking, whether the cancellation's
\* removal of the job worked or not, if bookings cannot be cancelled any more
\* by the time reminders go out.
THEOREM CancelledNotReminded == Spec => NoReminderWhenCancelled
<1> DEFINE Good == Deadline > Lead + 1 /\ mailed'["reminderClient"] > mailed["reminderClient"]
                     => status # "cancelled"
<1>1. TypeInv /\ TodoInv /\ ReminderInv /\ [Next]_vars => [Good]_vars
  <2> SUFFICES ASSUME TypeInv, TodoInv, ReminderInv, [Next]_vars, Deadline > Lead + 1,
                      mailed'["reminderClient"] > mailed["reminderClient"]
               PROVE  status # "cancelled"
    OBVIOUS
  <2>1. "reminderClient" \in Mail
    BY DEF Mail
  <2>2. PICK w \in Worker : worker[w].todo # <<>> /\ MailOf(worker[w].job, "reminderClient")
    BY <2>1, Arrival
  <2>3. worker[w].job = "reminder"
    BY <2>2, JobOfMail DEF TypeInv, WorkerOK, Handler
  <2> QED BY <2>2, <2>3 DEF ReminderInv, NoneForCancelled
<1> QED
  BY <1>1, QueueInvariant, TodoInvariant, ReminderInvariant, PTL DEF Spec, NoReminderWhenCancelled

-----------------------------------------------------------------------------
\* The news of a cancellation goes out for a cancelled booking, which stays
\* cancelled; with one handler at work at a time, one that is about to announce
\* the booking has seen it confirmed and nobody has told anything since.
CancelledNews ==
  /\ mailed["cancelledMaster"] > 0 => status = "cancelled"
  /\ \A w \in Worker :
       worker[w].job = "cancelled" /\ worker[w].todo # <<>> => status = "cancelled"

Alone ==
  ~parallel => \A v, w \in Worker : worker[v].at # "idle" /\ worker[w].at # "idle" => v = w

CreatedFirst ==
  ~parallel => \A w \in Worker :
    worker[w].job = "created" /\ worker[w].todo # <<>> => mailed["cancelledMaster"] = 0

NewsInv == CancelledNews /\ Alone /\ CreatedFirst

\* What a worker's step means for the others.
LEMMA AloneStep ==
  ASSUME TypeInv, Alone, [Next]_vars
  PROVE  Alone' /\ (parallel => parallel')
<1>1. ASSUME NEW w \in Worker, Work(w) \/ WorkFails(w) PROVE Alone' /\ (parallel => parallel')
  <2>1. \A v \in Worker \ {w} : worker'[v] = worker[v]
    BY <1>1, WorkAhead
  <2>2. ASSUME NEW j \in Job, Take(w, j) PROVE Alone' /\ (parallel => parallel')
    <3>1. parallel' <=> (parallel \/ \E v \in Worker : worker[v].at # "idle")
      BY <2>2 DEF Take
    <3>2. ~parallel' => ~parallel /\ \A v \in Worker \ {w} : worker'[v].at = "idle"
      BY <2>1, <3>1
    <3> QED BY <3>1, <3>2 DEF Alone
  <2>3. ASSUME worker[w].at # "idle", parallel' = parallel
        PROVE  Alone' /\ (parallel => parallel')
    BY <2>1, <2>3 DEF Alone
  <2> QED
    BY <1>1, <2>2, <2>3
    DEF Work, WorkFails, Load, Claim, Skip, Send, Finish, HandlerFails, ClaimUnheard,
        SendFails, SendUnsure, ReleaseFails, Crash, history
<1>2. CASE UNCHANGED <<worker, parallel>>
  BY <1>2 DEF Alone
<1> QED BY <1>1, <1>2, WorkerOrOther DEF Expires

LEMMA CancelledNewsStep ==
  ASSUME TypeInv, TodoInv, CancelledNews, [Next]_vars
  PROVE  CancelledNews'
<1>a. mailed \in [Mail -> Nat] /\ "cancelledMaster" \in Mail /\ RestOK'
  BY RestStep DEF TypeInv, RestOK, Mail
<1>1. mailed'["cancelledMaster"] > 0 =>
        mailed["cancelledMaster"] > 0 \/ mailed'["cancelledMaster"] > mailed["cancelledMaster"]
  BY <1>a DEF RestOK
<1>2. mailed'["cancelledMaster"] > mailed["cancelledMaster"] => status = "cancelled"
  <2> SUFFICES ASSUME mailed'["cancelledMaster"] > mailed["cancelledMaster"]
               PROVE  status = "cancelled"
    OBVIOUS
  <2>1. PICK w \in Worker : worker[w].todo # <<>> /\ MailOf(worker[w].job, "cancelledMaster")
    BY <1>a, Arrival
  <2>2. worker[w].job = "cancelled"
    BY <2>1, JobOfMail DEF TypeInv, WorkerOK, Handler
  <2> QED BY <2>1, <2>2 DEF CancelledNews
<1>3. mailed'["cancelledMaster"] > 0 => status = "cancelled"
  BY <1>1, <1>2 DEF CancelledNews
<1>4. ASSUME NEW w \in Worker, Work(w) \/ WorkFails(w) PROVE CancelledNews'
  BY <1>3, <1>4, WorkAhead DEF CancelledNews, Wanted
<1>5. ASSUME NEW c \in Canceller, CancelSave(c) PROVE CancelledNews'
  BY <1>5 DEF CancelSave, CancelledNews
<1>6. CASE Complete
  BY <1>6, <1>3 DEF Complete, CancelledNews
<1>7. CASE UNCHANGED <<status, worker>>
  BY <1>3, <1>7 DEF CancelledNews
<1> QED
  BY <1>4, <1>5, <1>6, <1>7
  DEF Next, QueueCreated, QueueReminder, NoReminder, CreatorFails, CancelRead,
      RemoveReminder, QueueCancelled, CancellerFails, Stall, SlowStall, Requeue, Retry,
      Forget, Remind, KeyExpires, Tick, vars

LEMMA CreatedFirstStep ==
  ASSUME TypeInv, TodoInv, NewsInv, [Next]_vars
  PROVE  CreatedFirst'
<1>a. mailed \in [Mail -> Nat] /\ "cancelledMaster" \in Mail /\ RestOK'
  BY RestStep DEF TypeInv, RestOK, Mail
<1>b. parallel => parallel'
  BY AloneStep DEF NewsInv
<1> SUFFICES ASSUME ~parallel PROVE CreatedFirst'
  BY <1>b DEF CreatedFirst
<1>1. ASSUME NEW w \in Worker, worker'[w].job = "created", worker'[w].todo # <<>>,
             worker[w].job = "created", worker[w].todo # <<>>
      PROVE  mailed'["cancelledMaster"] = 0
  <2>1. mailed["cancelledMaster"] = 0 /\ worker[w].at # "idle"
    BY <1>1 DEF NewsInv, CreatedFirst, TypeInv, WorkerOK, Shape
  <2> SUFFICES ASSUME mailed'["cancelledMaster"] # 0 PROVE FALSE
    OBVIOUS
  <2>2. mailed'["cancelledMaster"] > mailed["cancelledMaster"]
    BY <2>1, <1>a DEF RestOK
  <2>3. PICK v \in Worker : worker[v].at # "idle" /\ MailOf(worker[v].job, "cancelledMaster")
    BY <1>a, <2>2, Arrival
  <2>4. worker[v].job = "cancelled"
    BY <2>3, JobOfMail DEF TypeInv, WorkerOK, Handler
  <2> QED BY <1>1, <2>1, <2>3, <2>4 DEF NewsInv, Alone
<1>2. ASSUME NEW w \in Worker, Work(w) \/ WorkFails(w) PROVE CreatedFirst'
  <2>1. ASSUME worker'[w].job = "created", worker'[w].todo # <<>>, worker[w].todo = <<>>
        PROVE  mailed'["cancelledMaster"] = 0
    <3>1. status = "confirmed" /\ worker'[w].job = worker[w].job
      BY <1>2, <2>1, WorkAhead DEF Wanted
    <3>2. mailed["cancelledMaster"] = 0
      BY <3>1, <1>a DEF NewsInv, CancelledNews
    <3>3. ~(mailed'["cancelledMaster"] > mailed["cancelledMaster"])
      <4> SUFFICES ASSUME mailed'["cancelledMaster"] > mailed["cancelledMaster"] PROVE FALSE
        OBVIOUS
      <4>1. PICK v \in Worker : worker[v].todo # <<>> /\ MailOf(worker[v].job, "cancelledMaster")
        BY <1>a, Arrival
      <4>2. worker[v].job = "cancelled"
        BY <4>1, JobOfMail DEF TypeInv, WorkerOK, Handler
      <4> QED BY <3>1, <4>1, <4>2 DEF NewsInv, CancelledNews
    <3> QED BY <3>2, <3>3, <1>a DEF RestOK
  <2>2. \A v \in Worker \ {w} : worker'[v] = worker[v]
    BY <1>2, WorkAhead
  <2>3. worker'[w].todo # <<>> => worker'[w].job = worker[w].job
    BY <1>2, WorkAhead
  <2> QED BY <1>1, <2>1, <2>2, <2>3 DEF CreatedFirst
<1>3. CASE UNCHANGED worker
  BY <1>1, <1>3 DEF CreatedFirst
<1> QED BY <1>2, <1>3, WorkerOrOther DEF Expires

\* The inductive invariant behind the order of the news.
THEOREM NewsInvariant == Spec => []NewsInv
<1>1. Init => NewsInv
  BY DEF Init, NewsInv, CancelledNews, Alone, CreatedFirst, Idle, Mail
<1>2. TypeInv /\ TodoInv /\ NewsInv /\ [Next]_vars => NewsInv'
  BY AloneStep, CancelledNewsStep, CreatedFirstStep DEF NewsInv
<1> QED BY <1>1, <1>2, QueueInvariant, TodoInvariant, PTL DEF Spec

\* A master is not told of a new booking after its cancellation, unless two
\* handlers have been at work at once: workers do not wait for each other.
THEOREM NewsOrdered == Spec => NewsInOrder
<1> DEFINE Good == mailed'["createdMaster"] > mailed["createdMaster"] =>
                     mailed["cancelledMaster"] = 0 \/ parallel
<1>1. TypeInv /\ TodoInv /\ NewsInv /\ [Next]_vars => [Good]_vars
  <2> SUFFICES ASSUME TypeInv, TodoInv, NewsInv, [Next]_vars, ~parallel,
                      mailed'["createdMaster"] > mailed["createdMaster"]
               PROVE  mailed["cancelledMaster"] = 0
    OBVIOUS
  <2>1. "createdMaster" \in Mail
    BY DEF Mail
  <2>2. PICK w \in Worker : worker[w].todo # <<>> /\ MailOf(worker[w].job, "createdMaster")
    BY <2>1, Arrival
  <2>3. worker[w].job = "created"
    BY <2>2, JobOfMail DEF TypeInv, WorkerOK, Handler
  <2> QED BY <2>2, <2>3 DEF NewsInv, CreatedFirst
<1> QED
  BY <1>1, QueueInvariant, TodoInvariant, NewsInvariant, PTL DEF Spec, NewsInOrder
=============================================================================
