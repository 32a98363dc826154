----------------------------- MODULE Accounts -----------------------------
(* Accounts, sessions and reset codes: AuthService behind AuthController,    *)
(* one step per await. Each statement is a transaction of its own, except    *)
(* where the code opens one. The module Salon adds the owner's calls and     *)
(* composes both.                                                            *)
(*                                                                           *)
(* A row is named by the call that inserts it, so that nothing but the code  *)
(* and its unique indexes keeps two rows from being about one person. A      *)
(* password is named by the call that sets it, a reset code by the call that *)
(* asked for it.                                                             *)
EXTENDS Integers, FiniteSets

CONSTANTS
    Call,       \* HTTP requests; each is received once
    Person,     \* owners of a mailbox
    Seed,       \* names the rows, the password and the code that are there at first
    Founder,    \* the person whose account that is
    None,
    Ttl,        \* how long a reset code is good: 15 minutes
    MaxTime,    \* bound: the clock stops here
    MaxFaults   \* bound: failing statements and restarts

ASSUME AccountsAssumption ==
    /\ Founder \in Person /\ Seed \notin Call /\ None \notin Call \cup {Seed}
    /\ Ttl \in Nat /\ MaxTime \in Nat /\ MaxFaults \in Nat

VARIABLES
    now,
    account,    \* committed rows of auth_entity
    draft,      \* rows of auth_entity inserted by a transaction still open
    session,    \* rows of refresh_token_entity
    code,       \* rows of reset_token_entity
    call,       \* each request: what it asks, where its handler stands, its answer
    faults

tables == <<account, draft, session, code>>
accountVars == <<now, tables, call, faults>>

Name == Call \cup {Seed}

(* An email as it is typed: whose it is, and in which spelling.              *)
Email == [person : Person, spelling : {"canonical", "other"}]

(* The decorator trims and lowers; the body of every call carries it.        *)
NormalizeEmail(e) == [e EXCEPT !.spelling = "canonical"]
CreateAuthDto(e) == NormalizeEmail(e)
LoginDtoAsTyped(e) == e                                            \* faulty
LoginDto(e) == NormalizeEmail(e)
ForgotPasswordDto(e) == NormalizeEmail(e)
ChangeForgottenPasswordDto(e) == NormalizeEmail(e)

Row(email) == {r \in account : r.email = email}
SessionsOf(u) == {s \in session : s.user = u}
Expired(k) == k.expires < now

AccountRow(c, role) ==
    [id |-> c, email |-> call[c].email, password |-> c, role |-> role]

Blank == [op |-> "none", step |-> "idle", email |-> None, password |-> None, token |-> None,
          user |-> None, records |-> {}, victims |-> {}, status |-> 0]

AccountsInit ==
    /\ now = 0 /\ faults = 0 /\ draft = {}
    /\ account = {[id |-> Seed, email |-> [person |-> Founder, spelling |-> "canonical"],
                   password |-> Seed, role |-> "owner"]}
    /\ session = {[user |-> Seed, by |-> Seed]}
    /\ code = {[id |-> Seed, user |-> Seed, expires |-> Ttl]}
    /\ call = [c \in Call |-> Blank]

---------------------------------------------------------------------------
(* Control.                                                                *)

At(c, op, step)  == call[c].op = op /\ call[c].step = step
Open(c)          == call[c].step \notin {"idle", "done"}
Goto(c, step)    == call' = [call EXCEPT ![c].step = step]
Know(c, u, step) == call' = [call EXCEPT ![c].step = step, ![c].user = u]

(* The answer: a result, or what AllExceptionsFilter makes of an exception - *)
(* the status of an HttpException, 500 for anything else.                    *)
Reply(c, status) == call' = [call EXCEPT ![c].step = "done", ![c].status = status]

Receive(c, request) ==
    /\ call[c].step = "idle"
    /\ call' = [call EXCEPT ![c] = request]
    /\ UNCHANGED tables

---------------------------------------------------------------------------
(* createAndSaveTokens. Behind registration the session is just saved.       *)
(* Elsewhere one transaction deletes the user's sessions and inserts the new *)
(* one: the DELETE takes the rows it sees when it starts, waits for those    *)
(* another transaction is deleting, and finds them gone.                     *)

SaveSession(c) ==
    /\ At(c, "registration", "session")
    /\ session' = session \cup {[user |-> call[c].user, by |-> c]}
    /\ Reply(c, 201)
    /\ UNCHANGED <<account, draft, code>>

(* Faulty: the flag "transaction" is forgotten.                              *)
DeleteNothing(c) ==
    /\ call[c].step = "rotate"
    /\ call' = [call EXCEPT ![c].step = "delete", ![c].victims = {}]
    /\ UNCHANGED tables

DeleteStarts(c) ==
    /\ call[c].step = "rotate"
    /\ call' = [call EXCEPT ![c].step = "delete", ![c].victims = SessionsOf(call[c].user)]
    /\ UNCHANGED tables

DeleteEnds(c) ==
    /\ call[c].step = "delete"
    /\ \A d \in Call \ {c} : call[d].step = "commit" => call[d].victims \cap call[c].victims = {}
    /\ call' = [call EXCEPT ![c].step = "commit", ![c].victims = @ \cap session]
    /\ UNCHANGED tables

CommitSession(c) ==
    /\ call[c].step = "commit"
    /\ session' = (session \ call[c].victims) \cup {[user |-> call[c].user, by |-> c]}
    /\ call' = [call EXCEPT ![c].step = "done", ![c].status = 201, ![c].victims = {}]
    /\ UNCHANGED <<account, draft, code>>

---------------------------------------------------------------------------
(* create: registration of an owner.                                       *)

Registration(c) ==
    \E e \in Email : Receive(c, [Blank EXCEPT !.op = "registration", !.step = "find",
                                              !.email = CreateAuthDto(e)])

RegistrationFind(c) ==
    /\ At(c, "registration", "find")
    /\ IF Row(call[c].email) # {} THEN Reply(c, 409) ELSE Goto(c, "insert")
    /\ UNCHANGED tables

(* The unique index makes the INSERT wait for a transaction that has the     *)
(* same email, and refuses it (23505) when that is there: no HttpException.  *)
RegistrationInsert(c) ==
    /\ At(c, "registration", "insert")
    /\ \A r \in draft : r.email # call[c].email
    /\ IF Row(call[c].email) # {}
       THEN Reply(c, 500) /\ UNCHANGED account
       ELSE Know(c, c, "session") /\ account' = account \cup {AccountRow(c, "owner")}
    /\ UNCHANGED <<draft, session, code>>

---------------------------------------------------------------------------
(* login, also of a master (master_login).                                 *)

Login(c) ==
    \E e \in Email, p \in {r.password : r \in account} \cup {c} :
       Receive(c, [Blank EXCEPT !.op = "login", !.step = "find", !.email = LoginDto(e), !.password = p])

LoginFind(c) ==
    /\ At(c, "login", "find")
    /\ \/ \E r \in Row(call[c].email) : r.password = call[c].password /\ Know(c, r.id, "rotate")
       \/ /\ \A r \in Row(call[c].email) : r.password # call[c].password
          /\ Reply(c, 401)
    /\ UNCHANGED tables

---------------------------------------------------------------------------
(* changePassword: the guard's row is what the current password is matched   *)
(* with.                                                                     *)

ChangePassword(c) ==
    \E r \in account, p \in {s.password : s \in account} \cup {c} :
       Receive(c, [Blank EXCEPT !.op = "change", !.step = "guard", !.user = r.id, !.password = p])

ChangeMatch(c) ==
    /\ At(c, "change", "guard")
    /\ IF \E r \in account : r.id = call[c].user /\ r.password = call[c].password
       THEN Goto(c, "update") ELSE Reply(c, 401)
    /\ UNCHANGED tables

(* The new password is stored; changeForgotenPass then deletes codes.        *)
UpdatePassword(c) ==
    /\ call[c].step = "update"
    /\ account' = {IF r.id = call[c].user THEN [r EXCEPT !.password = c] ELSE r : r \in account}
    /\ Goto(c, IF call[c].op = "change" THEN "rotate" ELSE "clear")
    /\ UNCHANGED <<draft, session, code>>

---------------------------------------------------------------------------
(* forgotPass and changeForgotenPass.                                      *)

ForgotPassword(c) ==
    \E e \in Email : Receive(c, [Blank EXCEPT !.op = "forgot", !.step = "find",
                                              !.email = ForgotPasswordDto(e)])

ForgotFind(c) ==
    /\ At(c, "forgot", "find")
    /\ \/ \E r \in Row(call[c].email) : Know(c, r.id, "save")
       \/ Row(call[c].email) = {} /\ Reply(c, 200)
    /\ UNCHANGED tables

ForgotSave(c) ==
    /\ At(c, "forgot", "save")
    /\ code' = code \cup {[id |-> c, user |-> call[c].user, expires |-> now + Ttl]}
    /\ Reply(c, 200)
    /\ UNCHANGED <<account, draft, session>>

(* Codes that were mailed, spent and removed ones included.                  *)
Mailed == {Seed} \cup {d \in Call : call[d].op = "forgot" /\ call[d].status = 200}

ChangeForgotten(c) ==
    \E e \in Email, k \in Mailed \cup {c} :
       Receive(c, [Blank EXCEPT !.op = "reset", !.step = "find",
                                !.email = ChangeForgottenPasswordDto(e), !.token = k])

ResetFind(c) ==
    /\ At(c, "reset", "find")
    /\ \/ \E r \in Row(call[c].email) : Know(c, r.id, "records")
       \/ Row(call[c].email) = {} /\ Reply(c, 400)
    /\ UNCHANGED tables

(* All codes of the user are fetched and compared with the one given.        *)
ResetMatch(c) ==
    /\ At(c, "reset", "records")
    /\ LET records == {k \in code : k.user = call[c].user}
           matched == {k \in records : k.id = call[c].token}
       IN IF matched = {} \/ \E k \in matched : Expired(k)
          THEN Reply(c, 400)
          ELSE call' = [call EXCEPT ![c].step = "update", ![c].records = {k.id : k \in records}]
    /\ UNCHANGED tables

(* Faulty: only the code that was used is deleted.                           *)
ResetClearUsed(c) ==
    /\ At(c, "reset", "clear")
    /\ code' = {k \in code : k.id # call[c].token}
    /\ Goto(c, "rotate")
    /\ UNCHANGED <<account, draft, session>>

ResetClear(c) ==
    /\ At(c, "reset", "clear")
    /\ code' = {k \in code : k.user # call[c].user}
    /\ Goto(c, "rotate")
    /\ UNCHANGED <<account, draft, session>>

---------------------------------------------------------------------------
(* refreshToken: the token is verified, its row is never read.             *)

Refresh(c) ==
    \E s \in session : Receive(c, [Blank EXCEPT !.op = "refresh", !.step = "rotate", !.user = s.user])

---------------------------------------------------------------------------
(* A statement fails, or the process restarts: open transactions roll back. *)
(* refreshToken turns any error into 401.                                    *)

(* Faulty: the transaction of the failed call stays open.                    *)
FailLeavingOpen(c) ==
    /\ Open(c) /\ faults < MaxFaults
    /\ faults' = faults + 1
    /\ Reply(c, 500)
    /\ UNCHANGED <<now, tables>>

Fail(c) ==
    /\ Open(c) /\ faults < MaxFaults
    /\ faults' = faults + 1
    /\ call' = [call EXCEPT ![c].step = "done", ![c].victims = {},
                            ![c].status = IF call[c].op = "refresh" THEN 401 ELSE 500]
    /\ draft' = {r \in draft : r.id # c}
    /\ UNCHANGED <<now, account, session, code>>

Crash ==
    /\ faults < MaxFaults /\ \E c \in Call : Open(c)
    /\ faults' = faults + 1
    /\ call' = [c \in Call |-> IF Open(c) THEN [call[c] EXCEPT !.step = "done", !.victims = {}] ELSE call[c]]
    /\ draft' = {}
    /\ UNCHANGED <<now, account, session, code>>

(* Cron, every hour.                                                         *)
CleanExpiredTokens ==
    /\ \E k \in code : Expired(k)
    /\ code' = {k \in code : ~Expired(k)}
    /\ UNCHANGED <<now, account, draft, session, call, faults>>

Tick ==
    /\ now < MaxTime
    /\ now' = now + 1
    /\ UNCHANGED <<tables, call, faults>>

HandleAccount(c) ==
    \/ RegistrationFind(c) \/ RegistrationInsert(c) \/ SaveSession(c)
    \/ LoginFind(c) \/ ChangeMatch(c) \/ UpdatePassword(c)
    \/ ForgotFind(c) \/ ForgotSave(c) \/ ResetFind(c) \/ ResetMatch(c) \/ ResetClear(c)
    \/ DeleteStarts(c) \/ DeleteEnds(c) \/ CommitSession(c)
=============================================================================
