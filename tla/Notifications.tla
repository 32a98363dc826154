---------------------------- MODULE Notifications ----------------------------
(***************************************************************************)
(* The mails about one booking: createBooking and cancellBooking put jobs  *)
(* in the BullMQ queue 'emails', NotificationsProcessor works them off.    *)
(* Postgres holds the booking's status, Redis the jobs and the keys        *)
(* sent:<mail>:<id>; there is no transaction around any two of them.       *)
(***************************************************************************)
EXTENDS Integers, Sequences, FiniteSets

CONSTANTS
  Worker,      \* processes that run the processor, one job at a time each
  Canceller,   \* calls of cancellBooking
  Start, End,  \* of the visit
  Lead,        \* the reminder goes out that long before Start
  Deadline,    \* cancellationDeadlineHours
  Attempts,    \* of a job
  NoWorker,
  Address,     \* bound: may the client leave an address, or not?
  MaxTime,     \* bound: the clock stops here
  MaxFaults    \* bound: failures, crashes, stalls and keys whose day is over

ASSUME TimeAssumption ==
  /\ Start \in Nat /\ End \in Nat /\ Lead \in Nat /\ Deadline \in Nat /\ MaxTime \in Nat
  /\ Start < End

ASSUME AddressAssumption == Address \subseteq BOOLEAN

ASSUME WorkerAssumption == NoWorker \notin Worker /\ Attempts \in Nat \ {0} /\ MaxFaults \in Nat

VARIABLES
  now,
  email,     \* did the client leave an address?
  status,    \* of the booking
  creator,   \* where createBooking stands behind its commit
  canceller, \* where each call of cancellBooking stands
  job,       \* job[j]: the state of the job with the id j_<booking>
  tries,     \* tries[j]: failed attempts
  owner,     \* owner[j]: who holds the lock of the active job
  stalled,   \* jobs that have stalled once
  worker,    \* worker[w]: the job at hand, the mails left, where the handler stands
  sent,      \* mails m for which the key sent:m exists
  mailed,    \* mailed[m]: mails that reached their receiver (history)
  unsure,    \* unsure[m]: those among them whose sending reported an error (history)
  expired,   \* expired[m]: keys sent:m that Redis dropped after their day (history)
  lost,      \* jobs a fault robbed of a mail (history)
  parallel,  \* have two handlers ever been at work at once? (history)
  faults

queue == <<job, tries, owner, stalled>>
history == <<mailed, unsure, expired, lost, parallel>>
vars == <<now, email, status, creator, canceller, queue, worker, sent, history, faults>>

Job == {"created", "cancelled", "reminder"}
Mail == {"createdMaster", "createdClient", "cancelledMaster", "reminderClient"}

\* What the handler of a job sends, in this order ...
Mails(j) ==
  CASE j = "created"   -> <<"createdMaster">> \o (IF email THEN <<"createdClient">> ELSE <<>>)
    [] j = "cancelled" -> <<"cancelledMaster">>
    [] j = "reminder"  -> IF email THEN <<"reminderClient">> ELSE <<>>

\* ... provided that the booking has this status.
Wanted(j) == IF j = "cancelled" THEN "cancelled" ELSE "confirmed"

Idle == [at |-> "idle", job |-> "created", todo |-> <<>>]

Init ==
  /\ now \in 0..Start
  /\ email \in Address
  /\ status = "confirmed"
  /\ creator = "queue"
  /\ canceller = [c \in Canceller |-> "idle"]
  /\ job = [j \in Job |-> "absent"]
  /\ tries = [j \in Job |-> 0]
  /\ owner = [j \in Job |-> NoWorker]
  /\ stalled = {}
  /\ worker = [w \in Worker |-> Idle]
  /\ sent = {}
  /\ mailed = [m \in Mail |-> 0] /\ unsure = [m \in Mail |-> 0] /\ expired = [m \in Mail |-> 0]
  /\ lost = {} /\ parallel = FALSE
  /\ faults = 0

Fault == faults < MaxFaults /\ faults' = faults + 1

-----------------------------------------------------------------------------
\* queue.add: a job whose id the queue knows, in any state, is not added again.
Add(j, state) ==
  /\ job' = [job EXCEPT ![j] = IF @ = "absent" THEN state ELSE @]
  /\ UNCHANGED <<tries, owner, stalled>>

\* A job is gone with its record, and its id is free again.
Drop(j) ==
  /\ job' = [job EXCEPT ![j] = "absent"]
  /\ tries' = [tries EXCEPT ![j] = 0]
  /\ stalled' = stalled \ {j}

\* createBooking behind its commit: line 285.
QueueCreated ==
  /\ creator = "queue" /\ creator' = "reminder"
  /\ Add("created", "waiting")
  /\ UNCHANGED <<now, email, status, canceller, worker, sent, history, faults>>

\* Lines 288-290: the reminder, delayed until Lead before the visit.
QueueReminder ==
  /\ creator = "reminder" /\ creator' = "done"
  /\ now < Start - Lead
  /\ Add("reminder", "delayed")
  /\ UNCHANGED <<now, email, status, canceller, worker, sent, history, faults>>

\* Line 290: too late for a reminder.
NoReminder ==
  /\ creator = "reminder" /\ creator' = "done"
  /\ now >= Start - Lead
  /\ UNCHANGED <<now, email, status, canceller, queue, worker, sent, history, faults>>

\* An add fails and is swallowed (lines 354-357, 374-377), or the process ends here.
CreatorFails ==
  /\ Fault
  /\ \/ creator = "queue" /\ creator' \in {"reminder", "done"} /\ lost' = lost \cup {"created"}
     \/ creator = "reminder" /\ creator' = "done" /\ UNCHANGED lost
  /\ UNCHANGED <<now, email, status, canceller, queue, worker, sent, mailed, unsure, expired, parallel>>

-----------------------------------------------------------------------------
\* cancellBooking: read and check ...
CancelRead(c) ==
  /\ canceller[c] = "idle"
  /\ now <= Start - Deadline
  /\ canceller' = [canceller EXCEPT ![c] = "save"]
  /\ UNCHANGED <<now, email, status, creator, queue, worker, sent, history, faults>>

\* Faulty: a status outside the entity's union.
CancelSaveMisspelt(c) ==
  /\ canceller[c] = "save"
  /\ canceller' = [canceller EXCEPT ![c] = "remove"]
  /\ status' = "canceled"
  /\ UNCHANGED <<now, email, creator, queue, worker, sent, history, faults>>

\* ... save ...
CancelSave(c) ==
  /\ canceller[c] = "save"
  /\ canceller' = [canceller EXCEPT ![c] = "remove"]
  /\ status' = "cancelled"
  /\ UNCHANGED <<now, email, creator, queue, worker, sent, history, faults>>

\* ... take the reminder off the queue, its record and all; a job that a worker
\* holds stays (line 328) ...
RemoveReminder(c) ==
  /\ canceller[c] = "remove"
  /\ canceller' = [canceller EXCEPT ![c] = "queue"]
  /\ IF job["reminder"] = "active"
     THEN UNCHANGED <<job, tries, stalled>>
     ELSE Drop("reminder")
  /\ UNCHANGED <<now, email, status, creator, owner, worker, sent, history, faults>>

\* ... and announce the cancellation (line 334).
QueueCancelled(c) ==
  /\ canceller[c] = "queue"
  /\ canceller' = [canceller EXCEPT ![c] = "done"]
  /\ Add("cancelled", "waiting")
  /\ UNCHANGED <<now, email, status, creator, worker, sent, history, faults>>

\* The removal or the add fails and is swallowed (lines 329, 335, 354), or the
\* process ends here.
CancellerFails(c) ==
  /\ Fault
  /\ \/ canceller[c] = "remove" /\ canceller' = [canceller EXCEPT ![c] = "queue"] /\ UNCHANGED lost
     \/ /\ canceller[c] \in {"remove", "queue"}
        /\ canceller' = [canceller EXCEPT ![c] = "done"]
        /\ lost' = lost \cup {"cancelled"}
  /\ UNCHANGED <<now, email, status, creator, queue, worker, sent, mailed, unsure, expired, parallel>>

-----------------------------------------------------------------------------
\* The queue hands a job to a worker.
Take(w, j) ==
  /\ worker[w].at = "idle" /\ job[j] = "waiting"
  /\ job' = [job EXCEPT ![j] = "active"]
  /\ owner' = [owner EXCEPT ![j] = w]
  /\ worker' = [worker EXCEPT ![w] = [at |-> "load", job |-> j, todo |-> <<>>]]
  /\ parallel' = (parallel \/ \E v \in Worker : worker[v].at # "idle")
  /\ UNCHANGED <<now, email, status, creator, canceller, tries, stalled, sent,
                 mailed, unsure, expired, lost, faults>>

\* Faulty: the mails go out whatever has become of the booking.
LoadAnyStatus(w) ==
  /\ worker[w].at = "load"
  /\ worker' = [worker EXCEPT ![w].at = "next", ![w].todo = Mails(worker[w].job)]
  /\ UNCHANGED <<now, email, status, creator, canceller, queue, sent, history, faults>>

\* Faulty: one handler lacks the check of the status.
LoadCreatedAnyStatus(w) ==
  /\ worker[w].at = "load"
  /\ worker' = [worker EXCEPT ![w].at = "next",
       ![w].todo = IF worker[w].job = "created" \/ status = Wanted(worker[w].job)
                   THEN Mails(worker[w].job) ELSE <<>>]
  /\ UNCHANGED <<now, email, status, creator, canceller, queue, sent, history, faults>>

\* The handler reads the booking and returns unless its status is the wanted one.
Load(w) ==
  /\ worker[w].at = "load"
  /\ worker' = [worker EXCEPT ![w].at = "next",
       ![w].todo = IF status = Wanted(worker[w].job) THEN Mails(worker[w].job) ELSE <<>>]
  /\ UNCHANGED <<now, email, status, creator, canceller, queue, sent, history, faults>>

\* Faulty: SET without NX.
ClaimAgain(w) ==
  /\ worker[w].at = "next" /\ worker[w].todo # <<>>
  /\ sent' = sent \cup {Head(worker[w].todo)}
  /\ worker' = [worker EXCEPT ![w].at = "send"]
  /\ UNCHANGED <<now, email, status, creator, canceller, queue, history, faults>>

\* sendOnce: SET NX succeeds.
Claim(w) ==
  /\ worker[w].at = "next" /\ worker[w].todo # <<>>
  /\ Head(worker[w].todo) \notin sent
  /\ sent' = sent \cup {Head(worker[w].todo)}
  /\ worker' = [worker EXCEPT ![w].at = "send"]
  /\ UNCHANGED <<now, email, status, creator, canceller, queue, history, faults>>

\* Line 90: somebody has sent this mail, or is about to.
Skip(w) ==
  /\ worker[w].at = "next" /\ worker[w].todo # <<>>
  /\ Head(worker[w].todo) \in sent
  /\ worker' = [worker EXCEPT ![w].todo = Tail(@)]
  /\ UNCHANGED <<now, email, status, creator, canceller, queue, sent, history, faults>>

Delivered(m) == mailed' = [mailed EXCEPT ![m] = @ + 1]

Send(w) ==
  /\ worker[w].at = "send"
  /\ Delivered(Head(worker[w].todo))
  /\ worker' = [worker EXCEPT ![w].at = "next", ![w].todo = Tail(@)]
  /\ UNCHANGED <<now, email, status, creator, canceller, queue, sent,
                 unsure, expired, lost, parallel, faults>>

\* The handler returned.  Who lost the lock of the job changes nothing.
Finish(w) ==
  /\ worker[w].at = "next" /\ worker[w].todo = <<>>
  /\ worker' = [worker EXCEPT ![w] = Idle]
  /\ LET j == worker[w].job IN
       IF owner[j] = w
       THEN /\ job' = [job EXCEPT ![j] = "completed"]
            /\ owner' = [owner EXCEPT ![j] = NoWorker]
       ELSE UNCHANGED <<job, owner>>
  /\ UNCHANGED <<now, email, status, creator, canceller, tries, stalled, sent, history, faults>>

\* Faulty: jobs are added without attempts.
ThrowOnce(w) ==
  LET j == worker[w].job IN
    /\ worker' = [worker EXCEPT ![w] = Idle]
    /\ job' = [job EXCEPT ![j] = IF owner[j] = w THEN "failed" ELSE @]
    /\ owner' = [owner EXCEPT ![j] = IF @ = w THEN NoWorker ELSE @]
    /\ UNCHANGED <<tries, stalled>>

\* The handler threw: a retry with backoff, or the end of the job.
Throw(w) ==
  LET j == worker[w].job IN
    /\ worker' = [worker EXCEPT ![w] = Idle]
    /\ IF owner[j] = w
       THEN /\ tries' = [tries EXCEPT ![j] = @ + 1]
            /\ job' = [job EXCEPT ![j] = IF tries'[j] < Attempts THEN "backoff" ELSE "failed"]
            /\ owner' = [owner EXCEPT ![j] = NoWorker]
       ELSE UNCHANGED <<tries, job, owner>>
    /\ UNCHANGED stalled

\* A throw that no retry follows takes the job's mails with it.
Dooms(w) == owner[worker[w].job] # w \/ tries[worker[w].job] + 1 >= Attempts

\* Postgres or Redis fails under the handler before it holds the key.
HandlerFails(w) ==
  /\ Fault
  /\ worker[w].at = "load" \/ (worker[w].at = "next" /\ worker[w].todo # <<>>)
  /\ Throw(w)
  /\ lost' = IF Dooms(w) THEN lost \cup {worker[w].job} ELSE lost
  /\ UNCHANGED <<now, email, status, creator, canceller, sent, mailed, unsure, expired, parallel>>

\* The answer of a SET that took effect is lost; the client's retry of the
\* command finds the key and the mail is skipped.
ClaimUnheard(w) ==
  /\ Fault
  /\ worker[w].at = "next" /\ worker[w].todo # <<>>
  /\ Head(worker[w].todo) \notin sent
  /\ sent' = sent \cup {Head(worker[w].todo)}
  /\ worker' = [worker EXCEPT ![w].todo = Tail(@)]
  /\ lost' = lost \cup {worker[w].job}
  /\ UNCHANGED <<now, email, status, creator, canceller, queue, mailed, unsure, expired, parallel>>

\* Faulty: the key of a mail that was not sent stays.
SendFailsKeepKey(w) ==
  /\ Fault
  /\ worker[w].at = "send"
  /\ Throw(w)
  /\ lost' = IF Dooms(w) THEN lost \cup {worker[w].job} ELSE lost
  /\ UNCHANGED <<now, email, status, creator, canceller, sent, mailed, unsure, expired, parallel>>

\* Lines 93-95: the mail is not sent, the key is deleted, BullMQ retries.
SendFails(w) ==
  /\ Fault
  /\ worker[w].at = "send"
  /\ sent' = sent \ {Head(worker[w].todo)}
  /\ Throw(w)
  /\ lost' = IF Dooms(w) THEN lost \cup {worker[w].job} ELSE lost
  /\ UNCHANGED <<now, email, status, creator, canceller, mailed, unsure, expired, parallel>>

\* The mail arrives and the connection breaks before the server's answer does.
SendUnsure(w) ==
  /\ Fault
  /\ worker[w].at = "send"
  /\ Delivered(Head(worker[w].todo))
  /\ unsure' = [unsure EXCEPT ![Head(worker[w].todo)] = @ + 1]
  /\ sent' = sent \ {Head(worker[w].todo)}
  /\ Throw(w)
  /\ lost' = IF Dooms(w) THEN lost \cup {worker[w].job} ELSE lost
  /\ UNCHANGED <<now, email, status, creator, canceller, expired, parallel>>

\* Neither the mail nor the DEL of line 94 goes through.
ReleaseFails(w) ==
  /\ Fault
  /\ worker[w].at = "send"
  /\ Throw(w)
  /\ lost' = lost \cup {worker[w].job}
  /\ UNCHANGED <<now, email, status, creator, canceller, sent, mailed, unsure, expired, parallel>>

\* The process ends; between SET and the mail nobody deletes the key.
Crash(w) ==
  /\ Fault
  /\ worker[w].at # "idle"
  /\ worker' = [worker EXCEPT ![w] = Idle]
  /\ owner' = [owner EXCEPT ![worker[w].job] = IF @ = w THEN NoWorker ELSE @]
  /\ lost' = IF worker[w].at = "send" \/ owner[worker[w].job] # w
             THEN lost \cup {worker[w].job} ELSE lost
  /\ UNCHANGED <<now, email, status, creator, canceller, job, tries, stalled, sent,
                 mailed, unsure, expired, parallel>>

-----------------------------------------------------------------------------
\* BullMQ returns a job without a lock to the queue, once (maxStalledCount).
Requeue(j) ==
  /\ job[j] = "active"
  /\ job' = [job EXCEPT ![j] = IF j \in stalled THEN "failed" ELSE "waiting"]
  /\ stalled' = stalled \cup {j}
  /\ owner' = [owner EXCEPT ![j] = NoWorker]
  /\ lost' = IF j \in stalled THEN lost \cup {j} ELSE lost
  /\ UNCHANGED <<now, email, status, creator, canceller, tries, worker, sent,
                 mailed, unsure, expired, parallel>>

Stall(j) == owner[j] = NoWorker /\ Requeue(j) /\ UNCHANGED faults

\* A worker that is alive was too slow to renew its lock.
SlowStall(j) == owner[j] # NoWorker /\ Requeue(j) /\ Fault

\* The backoff is over.
Retry(j) ==
  /\ job[j] = "backoff"
  /\ job' = [job EXCEPT ![j] = "waiting"]
  /\ UNCHANGED <<now, email, status, creator, canceller, tries, owner, stalled, worker, sent,
                 history, faults>>

\* The delay of the reminder is over.
Remind ==
  /\ job["reminder"] = "delayed" /\ now >= Start - Lead
  /\ job' = [job EXCEPT !["reminder"] = "waiting"]
  /\ UNCHANGED <<now, email, status, creator, canceller, tries, owner, stalled, worker, sent,
                 history, faults>>

\* removeOnComplete, removeOnFail: newer jobs displace the record.
Forget(j) ==
  /\ job[j] \in {"completed", "failed"}
  /\ Drop(j)
  /\ UNCHANGED <<now, email, status, creator, canceller, owner, worker, sent, history, faults>>

\* CronService.bookingStatusUpdate.
Complete ==
  /\ status = "confirmed" /\ End < now
  /\ status' = "completed"
  /\ UNCHANGED <<now, email, creator, canceller, queue, worker, sent, history, faults>>

\* A cancellation is saved at most one time unit after the deadline it met.
Tick ==
  /\ now < MaxTime
  /\ \A c \in Canceller : canceller[c] = "save" => now <= Start - Deadline
  /\ now' = now + 1
  /\ UNCHANGED <<email, status, creator, canceller, queue, worker, sent, history, faults>>

\* EX 86400 of line 89: a day after it was set the key is gone.  No sending
\* takes that long.
KeyExpires(m) ==
  /\ Fault
  /\ m \in sent
  /\ \A w \in Worker : worker[w].at = "send" => Head(worker[w].todo) # m
  /\ sent' = sent \ {m}
  /\ expired' = [expired EXCEPT ![m] = @ + 1]
  /\ UNCHANGED <<now, email, status, creator, canceller, queue, worker, mailed, unsure, lost,
                 parallel>>

Work(w) == (\E j \in Job : Take(w, j)) \/ Load(w) \/ Claim(w) \/ Skip(w) \/ Send(w) \/ Finish(w)

WorkFails(w) ==
  HandlerFails(w) \/ ClaimUnheard(w) \/ SendFails(w) \/ SendUnsure(w) \/ ReleaseFails(w) \/ Crash(w)

Next ==
  \/ QueueCreated \/ QueueReminder \/ NoReminder \/ CreatorFails
  \/ \E c \in Canceller :
       CancelRead(c) \/ CancelSave(c) \/ RemoveReminder(c) \/ QueueCancelled(c) \/ CancellerFails(c)
  \/ \E w \in Worker : Work(w) \/ WorkFails(w)
  \/ \E j \in Job : Stall(j) \/ SlowStall(j) \/ Retry(j) \/ Forget(j)
  \/ \E m \in Mail : KeyExpires(m)
  \/ Remind \/ Complete \/ Tick

Spec == Init /\ [][Next]_vars

\* A worker goes on with its job, and the queue looks after what is stalled or
\* backed off.
Fairness ==
  /\ \A w \in Worker : WF_vars(Work(w))
  /\ WF_vars(\E j \in Job : Stall(j) \/ Retry(j))

FairSpec == Spec /\ Fairness

-----------------------------------------------------------------------------
TypeOK ==
  /\ now \in Nat /\ email \in BOOLEAN /\ faults \in 0..MaxFaults
  /\ status \in {"confirmed", "cancelled", "completed"}
  /\ creator \in {"queue", "reminder", "done"}
  /\ canceller \in [Canceller -> {"idle", "save", "remove", "queue", "done"}]
  /\ job \in [Job -> {"absent", "delayed", "waiting", "active", "backoff", "completed", "failed"}]
  /\ tries \in [Job -> 0..Attempts]
  /\ owner \in [Job -> Worker \cup {NoWorker}]
  /\ stalled \subseteq Job /\ sent \subseteq Mail /\ lost \subseteq Job /\ parallel \in BOOLEAN
  /\ worker \in [Worker -> [at : {"idle", "load", "next", "send"}, job : Job, todo : Seq(Mail)]]
  /\ mailed \in [Mail -> Nat] /\ unsure \in [Mail -> Nat] /\ expired \in [Mail -> Nat]

\* sendOnce, for as long as it can keep its name: whatever is retried, stalls,
\* restarts or is cancelled twice, a further copy of a mail arrives only if the
\* sender heard an error for one that did arrive, or the key's day was over.
MailedOnce == \A m \in Mail : mailed[m] <= 1 + unsure[m] + expired[m]

\* The test "without the DEL the retry would see 'already sent', and the mail
\* would be lost for ever": a key stands for a mail that arrived or is being
\* sent, unless a fault nobody could answer robbed the job of it.
KeyMeansSent ==
  \A m \in sent :
    \/ mailed[m] > 0
    \/ \E w \in Worker : worker[w].at = "send" /\ Head(worker[w].todo) = m
    \/ \E j \in lost : \E i \in DOMAIN Mails(j) : Mails(j)[i] = m

\* "The main protection" of the reminder's test: however late the reminder is
\* queued and whether or not it was removed, none goes out for a cancelled
\* booking, when bookings can be cancelled until well before Lead.
NoReminderWhenCancelled ==
  [][Deadline > Lead + 1 /\ mailed'["reminderClient"] > mailed["reminderClient"]
       => status # "cancelled"]_vars

\* A master who knows of the cancellation is not told afterwards that he has a
\* new booking, as long as no two handlers were at work at the same time.
NewsInOrder ==
  [][mailed'["createdMaster"] > mailed["createdMaster"] =>
       mailed["cancelledMaster"] = 0 \/ parallel]_vars

\* README "a failing SMTP": in the end no job that the queue has had to work on,
\* done and failed ones included, owes a mail, however sending fails, unless the
\* booking has moved on or the fault was one of those KeyMeansSent excepts.
Owed(j) ==
  /\ job[j] \notin {"absent", "delayed"}
  /\ \E i \in DOMAIN Mails(j) : mailed[Mails(j)[i]] = 0
  /\ status = Wanted(j)
  /\ j \notin lost

MailArrives == <>[](\A j \in Job : ~Owed(j))
=============================================================================
