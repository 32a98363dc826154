# Verification of the booking API

TLA+ modules about the booking backend in `src/` (NestJS, Postgres, Redis, BullMQ),
TLC configurations that check them on small instances, and TLAPS proofs for all
instances. `BS` below is `src/buisnes/buisnes.service.ts`, `NP` is
`src/notifications/notifications.processor.ts`, `CR` is `src/cron.service.ts`, `AU` is
`src/auth/auth.service.ts`, `HC` is `src/health/health.controller.ts`.

## 1. Inventory

| Part | State | Operations | Meets the others through |
|---|---|---|---|
| Booking and cancellation (`BS:196-339`) | rows of `booking_entity`; row locks on `master_entity`; Redis `idem:<key>` | `createBooking`, `cancellBooking` | the constraint `no_overlap`, the cache, the mail queue |
| Slot search (`BS:130-194`) | none of its own | `getBookingFomDay` | reads rows and schedule; its offers come back as bookings |
| Availability cache (`BS:41-49, 131-135, 192`) | Redis `avail:<master>:<day>:<service>`, 60 s | fill, hit, invalidation | filled by readers, dropped by bookings and cancellations |
| Mail jobs and worker (`BS:341-378`, `NP`) | BullMQ jobs; Redis `sent:*`, 24 h | `queue`, `reminder`, removal; `process`, `sendOnce` | status of the row, SMTP |
| Periodic jobs (`CR`) | - | `bookingStatusUpdate`, `cleanExpiredTokens` | status of the row |
| Accounts and tokens (`AU`) | accounts, one refresh row per sign-in, reset codes | registration, login, refresh, change of password, forgotten password and its reset | the guard, masters_create, cron |
| Salons, services, masters (`BS:50-106`) | salon, service and master rows | buisnes_create, services_create, masters_create, master_login, master_post_week | accounts; the schedule that search and booking read |
| Schema and migrations (`src/migrations`) | tables, keys, indexes, constraints; the table `migrations` | up and down of ten migrations, in transactions | what every other part writes to |
| Health probe (`HC`) | timers of the running probes | `check`, `probe` | Postgres, Redis, docker's healthcheck |
| Direct writers (`scripts/race-demo.ts`) | `booking_entity` | plain INSERT | the constraint and the foreign key |
| Guard, exception filter, validation | none that lasts | - | what accounts and salons take from them |
| Upload, Redis connection, wiring, master's list of bookings | none that lasts | - | - |

What is hard here: every handler is a chain of awaits on three stores with no
transaction around two of them. Between any two awaits another handler, cron, a
worker or a restart may act. The correctness of a booking rests on the order of a
row lock, a query and an INSERT; a client's retry on a Redis key that several exits
must treat alike; a cached answer on an invalidation that races with fills; a mail
on a key that is set before the mail goes out; an account on a unique index that
compares what DTOs made of an email; a schema on downs that undo their ups. `PROJECT.json` lists the hazards line
by line with the property that watches each.

What makes each part correct:

- Booking: no two confirmed bookings, and no two visits, of a master overlap; locks
  are given back; one request per idempotency key, no second booking from a repeat,
  honest answers, no refusal without a reason, no key pending for ever; a row leaves `confirmed` once; everybody is answered, every visit settled.
- Slot search: only free starts, on the grid those that createBooking would take, no gap
  overlooked, an end.
- Cache: a bound on how long an answer can be wrong, and what the invalidation adds.
- Mails: once for as long as the key lasts, never a reminder for a cancelled booking, news in order,
  delivered in spite of failing sends.
- Accounts: one account per person, nobody refused without a reason, a lone sign-in
  leaves one session, a spent code is refused, everybody is answered.
- Masters: never without their account, nor the account without the master.
- Schema: a version means one schema, the last one that of the entities; runs lose no
  data; nothing but rows blocks a migration.
- Health: an answer in time, honest, and a return to 200.

## 2. Plan

| # | Module | Content | State |
|---|---|---|---|
| 1 | `SlotLedger`, `Booking`, `BookingHistory` | abstract ledger; handlers await by await; what properties that look back remember | done |
| 2 | `BookingProofs`, `ReplyProofs` | invariants of Booking, its refinement of SlotLedger, replies and keys, for all instances | done, see 5 |
| 3 | `SlotScan`, `SlotScanProofs` | the search loop against the acceptance rules | done |
| 4 | `Availability`, `AvailabilityProofs` | cache, races, zones | done |
| 5 | `Notifications`, `NotificationsProofs` | jobs, worker, `sendOnce` | done |
| 6 | `Accounts`, `Salon`, `SalonProofs` | accounts, sessions, codes; masters_create over both services | done |
| 7 | `Schema`, `SchemaProofs` | the migrations as statements; versions mean schemas | done |
| 8 | `Health`, `HealthProofs` | the two probes and their timers | done |

Every safety property of a passing run is proved, for all values of the constants; what is
left to TLC is named at the end of 5.

`Booking` composes handlers, cron, cancellers, direct writers and the stores in one
module, because they share the rows; it implements `SlotLedger`. `SlotScan`
assumes of Booking only that a day's rows are disjoint (NoDoubleBooking), and
`Availability` abstracts what SlotScan computes to "the set of free slots".
`Notifications` takes one booking that `Booking` has committed. `Salon` extends
`Accounts` and composes the calls of both, because masters_create writes accounts.
`Schema` justifies the constraint and the foreign key that `Booking` assumes of the
latest version.

## 3. Modules

### Booking (with BookingHistory, MCBooking, MCBookingHistory, SlotLedger)

`pc[r]` is the await at which the handler of request `r` stands. `body`, `status`
(the row), `lock` (row locks), `keyState`/`keyResult` (`idem:*`), `outcome` (the
reply), `cancelling` (what a cancellation has read) and `now` are the rest of the
state. One action is the code between two awaits:

| Code | Actions |
|---|---|
| `BS:197-207` | ArriveWithoutKey, AcquireKey, MissKey, Replay, Busy |
| `BS:210-253` | Accept, Reject (`Valid` is the conjunction of the checks) |
| `BS:255-268` | LockMaster, FindConflict, FindFree |
| `BS:269-282` | Save, SaveRefused |
| `BS:295-309` | Store, Release |
| `BS:312-339` | CancelRead, CancelSave |
| `CR:30-38` | Complete |
| `scripts/race-demo.ts` | RawPlace, RawRefused, RawCommit, RawDeadlock |
| expiry, failures | PendingExpires, StoredExpires, ...Fails, CommitAckLost, Crash, Tick |

Abstractions. Time is a line of units; working hours are windows on it, so zones and
daylight-saving changes do not occur here. The catalogue (services, masters, hours)
is constant. INSERT and COMMIT are one step for a handler: between them the row is
visible to nobody but the constraint, and the lock excludes every other handler of
the master. For a direct writer they are two steps, because its INSERT places the row
first and then waits, in the foreign key's `FOR KEY SHARE` on the master row, for a
handler that holds the row `FOR UPDATE`. `Grace` says how many units past its start
a booking may still be written (the checks of `BS:225` come before the wait for the
lock): at most one, since a unit is long compared with a request. `Slow` is the set of
requests whose handler may live longer than its entry in Redis (3600 s pending, 60 s
stored); their Store and Release then hit an entry that may be another's. A call that
fails may or may not have taken effect. The SET of `BS:199` is sent again by the client
library when its answer is lost (AcquireUnheard): the handler then reads its own `pending`
and answers 409.

`BookingHistory` adds two variables that only record: `setter` (whose SET made a key
pending) and `forgotten` (what was booked under a key before its entry last ran out).
Remember fills them behind every step of Booking; no step waits for them.

### SlotScan

One behaviour is one call: `Day` chooses hours, duration and bookings, then Skip,
Offer and Finish are the two branches and the exit of the `while` loop. `find`
returns some hit; which one depends on the order of the rows, so Skip takes any.
`Accepts` is what createBooking demands of the same start, at any minute `now` of the day
and for a master who has the service or not. A row with `late` starts and ends some
milliseconds behind its minute, which createBooking allows (`BS:229`) and the search cuts off
(`BS:172-173`); `Collides` is the conflict query on the row as it is, `Hits` the search's
condition on the minutes.

### Availability (with MCAvailability)

`work` and `booked` are what Postgres says, `cache[d]` the entry of a day, `reader`
and `writer` where the calls stand. Miss, LoadMaster, LoadBookings and Fill are the
awaits of getBookingFomDay, DayOff its return without an entry; Write is a commit of a booking or cancellation, FindKeys
and DropKeys the KEYS and DEL of its invalidation, ChangeWeek is master_post_week.
`LocalDay` and `UtcDay` are the two ways the code names a day. `changed` and `commits`
are history: when, and with which commit, a slot was last freed or lost. `MaxLag`
bounds the length of a call: without such a bound a suspended fill could write an
answer of any age.

### Notifications

One booking. `creator` and `canceller` stand in the tails of the two handlers, `job`
holds BullMQ's state of the three job ids, `worker` the handler at work, `sent` the
keys of sendOnce. What BullMQ does was modelled from the options the code passes and
marked external: an id that is known is not added again; a throw is retried with
backoff up to `attempts`; a job whose lock has expired is run again once; records of
ended jobs are displaced and free their id, and a removed job takes its record along
(`Drop`: the id starts again with no attempt made). Several workers are several replicas of
the process, which `docker-compose.yml` mentions. Histories: `mailed`, `unsure` (the
mail arrived, the send reported an error), `expired` (keys whose day was over), `lost` (jobs that lost a mail to a fault
no later step can notice), `parallel`.

KeyExpires is the `EX 86400` of `NP:89`. The model does not measure the day: the key of a
mail may go at any time when nobody is sending that mail, since no sending lasts a day. Behind
it a second cancellation (once the record of the first one's job is displaced) or a job that is
run again mails once more, and MailedOnce counts that.

### Accounts and Salon (with MCSalon)

`call[c]` is a request: what it asks (`op`), the await at which its handler stands
(`step`), what the handler has learnt (`user`, `records`, `victims`) and its answer
(`status`). `account`, `session`, `code`, `salon`, `service` and `master` are the
tables; `draft` holds accounts that a transaction has inserted and not committed.

| Code | Actions |
|---|---|
| `AU:44-51`, registration | Registration, RegistrationFind, RegistrationInsert, SaveSession |
| `AU:61-72`, login; master_login | Login, MasterLogin, LoginFind |
| `AU:28-42`, createAndSaveTokens | DeleteStarts, DeleteEnds, CommitSession |
| `AU:75-82`, changePassword | ChangePassword, ChangeMatch, UpdatePassword |
| `AU:84-94`, forgotPass | ForgotPassword, ForgotFind, ForgotSave |
| `AU:104-130`, changeForgotenPass | ChangeForgotten, ResetFind, ResetMatch, UpdatePassword, ResetClear |
| `AU:132-141`, refreshToken | Refresh |
| `CR:20-28` | CleanExpiredTokens |
| buisnes_create, services_create | BuisnesCreate, BuisnesSave; ServicesCreate, ServicesFind, ServicesSave |
| masters_create and createMaster (`AU:53-59`) | MastersCreate, MastersFind, MastersServices, CreateMasterFind, CreateMasterInsert, MastersCommit |
| failing statements, restarts | Fail, Crash |

Abstractions. An email is whose it is and how it is spelled; a DTO is what it does to
the spelling, so a DTO that forgot to normalise would show. Rows are named by the
call that inserts them: nothing but the code and its indexes keeps two from being
about one person. A password is named by the call that sets it, a code by the call
that asked for it; hashes compare as names. Statements are transactions under READ
COMMITTED: an INSERT waits for an uncommitted row of the same email and is refused
(23505, an answer of 500) when that commits; a DELETE takes the rows it sees when it
starts and finds gone what another transaction deletes meanwhile. JWTs do not expire
in the model, and refreshToken never reads the row of its token, as in the code.
Histories: `ground` (the reason to refuse a call was there at some time of it),
`raced`, `spent`, `late`.

### Schema

A schema is a set of objects (tables, columns with type, indexes, foreign keys, the
constraint `no_overlap`). A migration is the sequence of statements of its `up` or
`down`; each statement has conditions (what it adds is not there, what it drops is;
a required column needs an empty table; the constraint needs bookings that do not
overlap) and an effect; neighbouring statements of one kind that commute are written as one.
MigrationRun is the container `migrate`: everything pending
in one transaction; MigrationRevert takes the last one back. `rows` says which tables
hold rows, `overlapping` whether two confirmed bookings overlap. AddByHand is the
hand-added constraint that the last but one migration reckons with. `Entities` is
what the decorators of `src/*/entities` declare. Nothing is bounded.

### Health

`age[c]` counts from the start of the caller's check, `probe` and `timer` are the two
races, `dep` what each dependency does with a call. Check starts both probes;
Resolves, Rejects and Expires are the ends of a race, each clearing the timer;
Reply is what follows Promise.all. `troubled` is history. A check is one per caller:
docker's healthcheck does not overlap itself, and different callers do overlap.
Time does not pass an expired timer: the event loop is never late by a whole tick.

## 4. Runs

| Run | Question |
|---|---|
| booking_lock | Does the row lock alone (no constraint) keep slots apart: three handlers, adjacent and overlapping bodies, a canceller, cron, one fault? |
| booking_key | Who works under a shared key, what is answered, is there ever a second booking, what stays behind and by whom, with a slow handler and a fault; and do clients see SlotLedger (the refinement is a PROPERTY)? |
| booking_live | With a direct writer and the constraint: still no overlap; nobody refused a slot that is free when the 409 is decided; everybody answered, every visit settled, every key reusable? |
| slot_scan | Is what the search offers what createBooking takes, are no gaps overlooked, does it end? |
| availability | How long can an answer be wrong, and when does the invalidation prevent it? |
| notifications | Which mails go out, how often, in which order, with two cancellations; does a job stay that owes a mail? |
| salon | Do accounts, masters, sessions and codes stay right when operations meet, fail and are cut off; is everybody answered, with reason? |
| schema | What schema does a version mean, is the last one that of the code, what can block or lose data? |
| health | How long does a check last, what is its answer worth, does it come back to 200? |

Runs that must find a violation, each of a sentence in the repository:

| Run | Sentence | What TLC shows |
|---|---|---|
| booking_stuck_key | a failed booking frees its key (`buisnes.service.spec.ts:561`) | a rejection by `BS:210-253` throws before the `try`: the key is pending for an hour |
| slot_grid | slots have a step of 15 minutes (`README.md:10`) | behind a booking of, say, 20 minutes all offers are off the grid and refused |
| availability_zone | the cached answer is dropped when a booking is made, in the salon's zone (`README.md:10-11`) | the invalidation looks under the UTC day, the entry lies under the local one |

Disagreements met on the way that no run is about:

- `BS:355` says a failing queue does not fail the 201 ("не роняем 201"); a failing
  Redis at `BS:296`, also behind the commit, answers 500 for a booking that exists.
  ReplyHonest is stated so that it allows it.
- `README.md:10`: a fill that read before a booking writes its old answer behind the
  invalidation. StaleIsBounded says how long that lasts, StaleOnlyByRace that
  nothing else but zones does it.
- `auth.controller.ts:42` documents 409 for a taken email; a registration that loses the
  race against another is refused by the index and answered 500. The comment of
  `test/registration-race.e2e-spec.ts` says there is no index; there is one
  (`auth.entity.ts`).
- `README.md:13` says a repeat with the same key makes no second booking. The entry of a
  booking lasts 60 s (`BS:296`), and it goes at once when the 201 cannot be stored: a repeat with
  another time may then book again. NoSecondBooking says how far the promise holds.
- The search asks neither whether a start is past (`BS:225`) nor whether the master has the
  service (`BS:219-220`), and it cuts off the milliseconds of a booking (`BS:172-173`), which
  createBooking lets through (`BS:229`): it offers starts that createBooking refuses.
  OffersAreExact says that it is these three and no others.
- `NP:89`: the key of a mail lasts a day, so a second cancellation after that mails again.
- `README.md:111` says cron removes refresh tokens; it removes reset codes
  (`CR:20-28`). The text of the commented-out mail (`AU:98`) says one hour where the code
  lives 15 minutes (`AU:88`).
- `BS:73` compares the length of the list of services with the rows found: a service listed
  twice is answered 404 with an empty list of missing ids.
- `down` of BookingServiceFK fails where `no_overlap` was added by hand (the
  exception in BlockedByRowsOnly).
- `buisnes.controller.ts:117` asks for a master's bookings with the id of his account.
- `scripts/race-demo.ts:20` inserts a `service_id` that is no uuid, which the column has been
  since BookingServiceFK.

Bounds, and why they are enough to be interesting:

- booking_lock: three requests so that a third can slip between two, two durations and
  three starts so that bookings overlap, touch and contain each other; `MaxTime` past the
  last end so that cron acts.
- booking_key: one key and three requests that share it with acceptable and
  unacceptable bodies, one of them with a slow handler, so that its Store and Release meet the
  entries of the others, who follow or overtake it; one fault.
- booking_live: two handlers and a direct writer with overlapping bodies; no symmetry,
  because of liveness.
- slot_scan: a step of 3 on a day of 10 is the smallest with hours on and off the grid;
  durations below, at and above the step; three bookings so that a gap lies between two
  others, each late or not.
- availability: two slots on two local days, one of them another day in UTC; two readers
  and two writers so that fills overtake invalidations; the clock goes one unit past
  the life of an entry and a call.
- notifications: two workers and two cancellations that race for the job's id; one fault or
  expiry anywhere, and two attempts instead of five, which is one more than faults. A unit of
  time is longer than the hour of the reminder (`Lead` 0), and the deadline is two of them, the
  least that keeps cancellations and reminders apart. The client has left an address
  (`Address`): without one there are the same jobs with fewer mails.
- salon: two persons in two spellings, and three calls at a time. `Plans` names the five
  meetings that share rows: emails and drafts; codes; a password; sessions; a
  salon with its services. The clock passes the life of the code that is there at
  first (`Ttl` 1, `MaxTime` 2); one fault, which is enough to cut off any step.
- schema: none; the run visits every state of the model.
- health: two callers and the two dependencies; `Ms` 2 so that there is a time before
  the timer, `Patience` the ratio of docker's timeout to the probe's.
- Deadlock is not checked in availability, notifications and salon: there the clock
  stops at its bound and all calls may have ended. The other modules stutter
  explicitly when everything is done, or never stop.

Fairness. Booking's FairSpec: each step a handler, a direct writer or the expiry of a
key can take is taken some time (the event loop and Postgres' lock queue see to that),
the clock moves, cron runs; no fairness for arrivals, cancellations or failures.
SlotScan: the loop runs. Notifications: a worker with something to do does it, stalled and
backed-off jobs come back; nothing is assumed of SMTP, which may fail as often as the
bound on faults allows. Salon: handlers go on; nothing
is assumed of arrivals or cron, and CallAnswered has to hold although INSERTs and DELETEs wait for
other transactions. Health: the callers ask again, due timers and answers that are there
are handled, time passes; a silent dependency need never speak, and RecoveryReported
asks only for what follows when both answer for good.

## 5. Proofs

TLAPS checks the following for every value of the constants that meets the named
assumptions; no bound of the runs is used.

BookingProofs: NeverDoubleBooked, CheckNeverStale, LocksReleased, TypeCorrect from the
inductive invariant `BookingInv`. NoDoubleBooking alone is not inductive: a handler
about to insert must know that its conflict query still holds (CheckStaysTrue), which
holds because only the owner of the master's lock can commit a row
(LockHeldInTransaction), except for direct writers, whose placed rows exclude others
through the constraint (RawSlotsClear). NeverDoubleVisit and StatusMovesOnce add `TimeInv`: cron
completes only what has ended, and a booking or cancellation that passed its checks is
written before the booking in question ends, which needs `Grace <= 1` and durations of
at least one unit.

The last part of BookingProofs is BookingImplementsLedger, that is `Spec => Ledger!Spec` under the mapping
`slot <- SlotOf(body[.])`, `state <- status`. Save, CommitAckLost and RawCommit map to
Book (CheckStaysTrue and RawSlotsClear give the free slot), CancelSave to Cancel or, the
second time, to a stutter, Complete to Complete, every other step to a stutter; the step
uses the invariant `VisitInv`.

ReplyProofs: what clients are told, from `ReplyInv`, which adds to VisitInv what a reply may
be at each await and what it says about the row (ReplyStage), and that a stored key names a
committed booking made under it (KeyStored). Rows appear at the INSERT of their own request
and never vanish (RowsStay), so what a reply says stays true; RepliesHonest and
ReplaysFaithful follow.

ConflictsJustified, an action property: the step that answers 409 has just seen a confirmed row
in the slot, or met the placed row of a direct writer (NewConflict); an overlap is a shared unit
of time (OverlapShares). A row that a direct writer placed is taken to justify the refusal even
if its COMMIT fails later.

KeysExclusive and PendingKeysExplained: SET NX is the only way to begin to hold a key, and every
exit of the handler that set it frees it, fills it, was a rejection, a failure or the
unheard SET. A slow handler may free or fill another's entry, so PendingKeysExplained is about
the request that made the key pending and holds with slow handlers too; KeysExclusive holds until
one has begun under the key. NeverBookedTwice: while the entry lasts, the bookings made under a key
are those of its holder and those answered with an error (OneBookingStep), and two visits of
one body would overlap, which NeverDoubleVisit excludes. PendingKeysExplained and
NeverBookedTwice are about HSpec, Booking with its histories; HistoryOnly says that its
behaviours are Booking's.

SlotScanProofs: OffersFree and OffersExact from `ScanInv`: what the search compares are minutes,
what createBooking compares are the rows, and the two differ at the minute in which a late row
ends and nowhere else (ClearIsFree). The exactness needs further that on
the grid the loop variable stays on the grid and has offered every acceptable start
before it, and the lemma that two grid points are equal or a step apart. GapsOffered: a jump
over a booking passes no free start, and a step passes no start at the opening
or behind a booking, if a visit is no shorter than the step (GapInv). ScanAdvancing: every turn
lowers the number of turns left (Turns, at most DayLength + 2), since a booking that is in the way
ends behind the loop; this is what ScanEnds rests on, besides that the loop is given turns.

AvailabilityProofs: StaleBounded and FillRecent from `CacheInv`. What a call has read is
wrong only about slots that changed since the call began (Recent); an entry therefore
dies within `MaxLag + TTL` of the change (Bounded). The invalidation plays no part in
it, so the bound also covers zones, races, failures and changes of the schedule.
StaleByRaceOnly says what the invalidation adds, from OldEntriesChased: an entry older than the
last commit about one of its slots is chased by the writer of that commit, who is about to
look for it or has found it. The entry cannot get out of sight between KEYS and DEL, since
only a fill replaces it, and a fill is younger than the commit.

NotificationsProofs: QueueTypes needs that a job which has used up its attempts has failed,
and that removal and displacement drop its record (JobShape). MailsGoOutOnce from `SendInv`: the
key of a mail is its sender's lock (SenderHasKey, OneSender), and copies that went out are
balanced against sendings that reported an error and keys that ran out (Balance). KeysMeanSent needs `TodoInv`, that a
handler has only mails of its job before it, so that a mail left unsent behind its key is on the
account of that job. CancelledNotReminded from `ReminderInv`: a reminder is worked on
only when it is due, a cancellation is saved at most a unit behind its deadline, and a handler
with a reminder before it has not seen a cancelled booking; the property's condition
`Deadline > Lead + 1` keeps the two apart. NewsOrdered from `NewsInv`: with one
handler at work at a time, one that announces the booking has seen it confirmed, and nobody
has been told of a cancellation since. All for any number of workers, cancellations, attempts
and faults and any distances of the dates.

SalonProofs: OnePersonOneAccount from `PersonInv`. OneAccountPerPerson is not inductive:
the index has to cover the uncommitted rows as well (Distinct speaks of `account` and
`draft`), a draft belongs to a masters_create that is about to commit (Drafts), and every
call that may insert carries a canonical spelling (CallInv). MastersAreWhole adds
`MasterInv`: a masters_create keeps to its way (MasterSteps, MasterWay), from its second step
on the salon is the caller's, at the commit its draft is there, and the call that made a
master is over. OneSession from `SignInv`: a sign-in past the start of its DELETE that met
nobody has in hand every session of its user, because only a call that opens a session for
that user, which it would have met, could add one. SpentCodesRefused from `CodeInv` and
`SpentInv`: names of codes are inserted once; the codes a reset has fetched are those of its user
until they are deleted, and are gone for good from then on (an answered reset has deleted them),
so a later call with one of them ends at the comparison. RefusalsJustified from
`GroundInv`: whatever a handler refuses, it has its reason in the tables just then (Refusing,
handler by handler), which `ground` has on record since the call was open. That needs unique
names of codes and services, canonical spellings behind every DTO, that a reset looks at the
codes of the account its email is about, and for the length comparison of masters_create a
bijection between the list and the services found (ListFound). All hold for any `Plans`, so
for any number of calls at once.

HealthProofs: ChecksEnd from the inductive invariant `IInv` (a running
probe is armed, no check is older than the timer, and what did not answer since the check
began is on record), and the action property AnswersHonest from
the same invariant: a probe is down only if its dependency was in trouble or its timer
ran out, and a timer runs out only where no answer was there to be had.

SchemaProofs: the four properties of Schema from `IInv`: the schema is `Version(applied)`,
with no_overlap in addition at most in versions 7 and 8, and no_overlap never stands over
overlapping rows, without which LatestIsSound is not inductive. Each up and down is executed
symbolically on the version it starts from, for any rows (UpEarly to EmailMigration); that a
statement succeeds rests on what the version knows of the names it touches (V3Objects,
V5Objects, V7Objects). UpStep and DownStep join the ten, PendingStep carries them
over a run of several migrations in one transaction, LatestEntities compares version 10
with the entities table by table. Schema has no constants, and its run visits every
state; what the proof adds is the reason: which migration needs which table empty, and that
nothing else about the rows matters.

Executing a list of statements is a recursion. What it computes for every list
is not stated as a theorem about an operator; SetInduction, an induction over sets from the
well-foundedness of `<`, is enough for the two facts needed: a trace that follows the statements
ends where Execute does (ExecuteByTrace), and a run steps from migration to migration
(PendingSteps).

Only model-checked: liveness and everything under fairness (RequestAnswered, VisitSettled,
KeyReusable, ScanEnds, MailArrives, CallAnswered, RecoveryReported), out of the
prover's reach, as is ENABLED. No module that is proved about uses RECURSIVE: the loop of
SlotScan is a state machine, and Schema's recursions are recursive functions.

## 6. Not modelled

`getBookingTime` only reads and groups. Of the guard its read of the account and role is
modelled, not the check of the token; of the validators what they do to an email; of the
exception filter the status. The check of the environment at start, uploads, Swagger, rate
limits and wiring keep no state that others depend on. JWTs do not expire. In Salon a call
is made once: a client's repeated registration or login is another call. Types of columns
are names in Schema, and rows are whether a table holds any. Clocks are lines: no change
of local time, so `pass_token_expired_at` without a zone is as good as one with it
(`reset-token.entity.ts:22`; the containers run in UTC). Redis is taken to keep what it
was told: a restart of Redis may lose up to 20 s of writes (`docker-compose.yml:28`), and
with them keys and jobs. A client library that waits for a lost connection instead of
failing (`app.module.ts:40`) is a step that is not taken.

## 7. Running

    tlc -workers 2 -config BookingLock.cfg MCBooking.tla
    tlc -workers 2 -config BookingKey.cfg MCBookingHistory.tla
    tlc -workers 2 -config SlotScan.cfg SlotScan.tla
    tlc -workers 2 -config Notifications.cfg Notifications.tla
    tlc -workers 2 -config Salon.cfg MCSalon.tla
    tlc -workers 2 -config Schema.cfg Schema.tla
    tlapm BookingProofs.tla
    tlapm ReplyProofs.tla
    tlapm NotificationsProofs.tla
    tlapm SalonProofs.tla
    tlapm SchemaProofs.tla

Definitions marked faulty are variants of the definition below them, each with one
plausible mistake; with the variant in its place the property named for it in
`PROJECT.json` fails.
