---------------------------- MODULE SalonProofs ----------------------------
(* One account per person, masters that are whole, one session, spent codes  *)
(* and justified refusals, for any number of calls, persons and failures.    *)
EXTENDS Salon, FiniteSetTheorems, TLAPS

---------------------------------------------------------------------------
(* Calls.                                                                  *)

Fields == {"op", "step", "email", "password", "token", "user", "records", "victims", "status"}

(* What a call keeps from its arrival on.                                    *)
Shape ==
    /\ DOMAIN call = Call
    /\ \A c \in Call : /\ Fields \subseteq DOMAIN call[c]
                       /\ call[c].op = "master" => {"salon", "services"} \subseteq DOMAIN call[c]

Canonical == {e \in Email : e.spelling = "canonical"}

ByEmail == {"registration", "login", "forgot", "reset", "master"}
CallInv == Shape /\ \A c \in Call : call[c].op \in ByEmail => call[c].email \in Canonical

(* A step of the handler of c is one of c alone, and what was asked stays.   *)
Keeps(c) ==
    /\ call'[c].op = call[c].op /\ call'[c].email = call[c].email /\ call'[c].token = call[c].token
    /\ call'[c].step = "done" \/ call'[c].status = call[c].status
    /\ call[c].op = "master" => /\ call'[c].salon = call[c].salon
                                /\ call'[c].services = call[c].services
Alone(c) == \A d \in Call \ {c} : call'[d] = call[d]

(* The three ways a handler moves on.                                        *)
LEMMA Moves ==
  ASSUME Shape, NEW c \in Call, NEW s, NEW u, Goto(c, s) \/ Reply(c, u) \/ Know(c, u, s)
  PROVE  Shape' /\ Keeps(c) /\ Alone(c)
  BY DEF Shape, Goto, Reply, Know, Keeps, Alone, Fields

(* Every step of a handler.                                                  *)
LEMMA Handling ==
  ASSUME Shape, NEW c \in Call, Handle(c)
  PROVE  Shape' /\ Keeps(c) /\ Alone(c)
<1>1. CASE RegistrationFind(c) \/ RegistrationInsert(c) \/ SaveSession(c) \/ LoginFind(c)
  BY <1>1, Moves DEF RegistrationFind, RegistrationInsert, SaveSession, LoginFind
<1>2. CASE ChangeMatch(c) \/ UpdatePassword(c) \/ ForgotFind(c) \/ ForgotSave(c)
  BY <1>2, Moves DEF ChangeMatch, UpdatePassword, ForgotFind, ForgotSave
<1>3. CASE ResetFind(c) \/ ResetClear(c)
  BY <1>3, Moves DEF ResetFind, ResetClear
<1>4. CASE ResetMatch(c)
  <2>1. CASE Reply(c, 400)
    BY <2>1, Moves
  <2>2. CASE ~Reply(c, 400)
    BY <1>4, <2>2 DEF ResetMatch, Shape, Keeps, Alone, Fields
  <2> QED BY <2>1, <2>2
<1>5. CASE DeleteStarts(c) \/ DeleteEnds(c) \/ CommitSession(c)
  BY <1>5 DEF DeleteStarts, DeleteEnds, CommitSession, Shape, Keeps, Alone, Fields
<1>6. CASE BuisnesSave(c) \/ ServicesFind(c) \/ ServicesSave(c)
  BY <1>6, Moves DEF BuisnesSave, ServicesFind, ServicesSave
<1>7. CASE MastersFind(c) \/ MastersServices(c)
  BY <1>7, Moves DEF MastersFind, MastersServices
<1>8. CASE CreateMasterFind(c) \/ CreateMasterInsert(c) \/ MastersCommit(c)
  BY <1>8, Moves DEF CreateMasterFind, CreateMasterInsert, MastersCommit
<1> QED BY <1>1, <1>2, <1>3, <1>4, <1>5, <1>6, <1>7, <1>8 DEF Handle, HandleAccount

(* An arriving call stands at its first step and has done nothing yet.       *)
Fresh(c) ==
    /\ call'[c].op \in ByEmail => call'[c].email \in Canonical
    /\ call'[c].op = "master" => call'[c].step = "find" /\ call'[c].services \in Lists
    /\ call'[c].op = "forgot" => call'[c].step = "find"
    /\ call'[c].op = "reset" => call'[c].step = "find"
    /\ call'[c].op # "reset" => call'[c].token = None
    /\ call'[c].step \in {"find", "guard", "rotate"}
    /\ call'[c].status = 0 /\ call'[c].records = {}

LEMMA Arriving ==
  ASSUME Shape, NEW c \in Call, ReceiveAny(c)
  PROVE  /\ Shape' /\ Alone(c) /\ call[c].step = "idle" /\ Fresh(c)
         /\ UNCHANGED <<tables, salonVars>>
<1>1. \A e \in Email : NormalizeEmail(e) \in Canonical
  BY DEF NormalizeEmail, Canonical, Email
<1>2. CASE Registration(c) /\ UNCHANGED salonVars
  BY <1>1, <1>2 DEF Registration, CreateAuthDto, Receive, Blank, Shape, Fields, Alone, Fresh
<1>3. CASE (Login(c) \/ MasterLogin(c)) /\ UNCHANGED salonVars
  <2>1. PICK e \in Email, p \in {r.password : r \in account} \cup {c} :
          Receive(c, [Blank EXCEPT !.op = "login", !.step = "find",
                                  !.email = LoginDto(e), !.password = p])
    BY <1>3 DEF MasterLogin, Login
  <2> QED BY <1>1, <1>3, <2>1 DEF LoginDto, Receive, Blank, Shape, Fields, Alone, Fresh, ByEmail
<1>4. CASE ChangePassword(c) /\ UNCHANGED salonVars
  BY <1>4 DEF ChangePassword, Receive, Blank, Shape, Fields, Alone, Fresh, ByEmail
<1>5. CASE ForgotPassword(c) /\ UNCHANGED salonVars
  BY <1>1, <1>5 DEF ForgotPassword, ForgotPasswordDto, Receive, Blank, Shape, Fields, Alone, Fresh, ByEmail
<1>6. CASE ChangeForgotten(c) /\ UNCHANGED salonVars
  BY <1>1, <1>6 DEF ChangeForgotten, ChangeForgottenPasswordDto, Receive, Blank, Shape, Fields, Alone, Fresh, ByEmail
<1>7. CASE Refresh(c) /\ UNCHANGED salonVars
  BY <1>7 DEF Refresh, Receive, Blank, Shape, Fields, Alone, Fresh, ByEmail
<1>8. CASE BuisnesCreate(c) \/ ServicesCreate(c)
  <2>1. CASE BuisnesCreate(c)
    BY <2>1 DEF BuisnesCreate, Ask, Receive, Shape, Fields, Alone, Fresh, ByEmail
  <2>2. CASE ServicesCreate(c)
    <3>1. PICK r \in account, x \in salon : Receive(c, [Ask("service", r.id) EXCEPT !.salon = x.id])
      BY <2>2 DEF ServicesCreate
    <3> QED BY <2>2, <3>1 DEF ServicesCreate, Ask, Receive, Shape, Fields, Alone, Fresh, ByEmail
  <2> QED BY <1>8, <2>1, <2>2
<1>9. CASE MastersCreate(c)
  <2>1. PICK r \in account, x \in salon, e \in Email, ids \in Lists :
          Receive(c, [Ask("master", r.id) EXCEPT !.salon = x.id, !.services = ids,
                                                 !.email = CreateMasterDto(e)])
    BY <1>9 DEF MastersCreate
  <2>2. CreateMasterDto(e) \in Canonical
    BY <1>1 DEF CreateMasterDto
  <2>3. UNCHANGED salonVars
    BY <1>9 DEF MastersCreate
  <2> QED BY <2>1, <2>2, <2>3 DEF Ask, Receive, Shape, Fields, Alone, Fresh
<1> QED BY <1>2, <1>3, <1>4, <1>5, <1>6, <1>7, <1>8, <1>9 DEF ReceiveAny

(* Failing calls and restarts end calls and drop their drafts.               *)
Ends(D) ==
    /\ \A c \in Call \ D : call'[c] = call[c]
    /\ \A c \in D : /\ call'[c].step = "done" /\ call'[c].status # 201 /\ call'[c].user = call[c].user
                    /\ call'[c].records = call[c].records /\ Keeps(c)
    /\ draft' = {r \in draft : r.id \notin D}
    /\ UNCHANGED <<account, session, code, salonVars>>

LEMMA Ending ==
  ASSUME Shape, \A c \in Call : Open(c) => call[c].status = 0,
         \A r \in draft : r.id \in Call /\ Open(r.id),
         UNCHANGED salonVars, (\E c \in Call : Fail(c)) \/ Crash
  PROVE  Shape' /\ \E D \in SUBSET Call : (\A c \in D : Open(c)) /\ Ends(D)
<1>1. ASSUME NEW c \in Call, Fail(c) PROVE Shape' /\ Open(c) /\ Ends({c})
  <2>1. Shape'
    BY <1>1 DEF Fail, Shape, Fields
  <2>2. \A d \in Call \ {c} : call'[d] = call[d]
    BY <1>1 DEF Fail, Shape
  <2>3. call'[c].step = "done" /\ call'[c].user = call[c].user /\ call'[c].records = call[c].records
    BY <1>1 DEF Fail, Shape, Fields
  <2>4. call'[c].status # 201
    <3>1. call'[c].status = IF call[c].op = "refresh" THEN 401 ELSE 500
      BY <1>1 DEF Fail, Shape, Fields
    <3> QED BY <3>1
  <2>5. Keeps(c)
    BY <1>1, ZenonT(60) DEF Fail, Shape, Fields, Keeps
  <2>6. draft' = {r \in draft : r.id \notin {c}}
    BY <1>1 DEF Fail
  <2>7. Open(c) /\ UNCHANGED <<account, session, code, salonVars>>
    BY <1>1 DEF Fail
  <2> QED BY <2>1, <2>2, <2>3, <2>4, <2>5, <2>6, <2>7 DEF Ends
<1>2. ASSUME Crash PROVE Shape' /\ Ends({c \in Call : Open(c)})
  <2>1. Shape'
    BY <1>2 DEF Crash, Shape, Fields
  <2>2. \A c \in Call : Open(c) => /\ call'[c].step = "done" /\ call'[c].status = call[c].status
                                   /\ call'[c].user = call[c].user
                                   /\ call'[c].records = call[c].records /\ Keeps(c)
    BY <1>2 DEF Crash, Shape, Fields, Keeps
  <2>3. \A c \in Call : ~Open(c) => call'[c] = call[c]
    BY <1>2 DEF Crash
  <2>4. draft' = {r \in draft : r.id \notin {c \in Call : Open(c)}}
    BY <1>2 DEF Crash
  <2>5. UNCHANGED <<account, session, code, salonVars>>
    BY <1>2 DEF Crash
  <2> QED BY <2>1, <2>2, <2>3, <2>4, <2>5 DEF Ends
<1> QED BY <1>1, <1>2

---------------------------------------------------------------------------
(* One account per person.                                                 *)

Rows == [id : Name, email : Canonical, password : Name, role : {"owner", "master"}]

(* An uncommitted account is that of a master whose call is about to commit. *)
Drafts == \A r \in draft : r.id \in Call /\ At(r.id, "master", "commit master") /\ r.role = "master"

Distinct ==
    /\ \A r, s \in account : r.email = s.email => r = s
    /\ \A r, s \in draft : r.email = s.email => r = s
    /\ \A r \in account, d \in draft : r.email # d.email

(* The unique index as an inductive invariant: it covers the rows that are   *)
(* committed and those that are not, and sees canonical spellings only.      *)
PersonInv ==
    /\ CallInv
    /\ \A c \in Call : Open(c) => call[c].status = 0
    /\ account \subseteq Rows /\ draft \subseteq Rows
    /\ Drafts /\ Distinct

LEMMA InitPerson == Init => PersonInv
<1> SUFFICES ASSUME Init PROVE PersonInv
  OBVIOUS
<1>1. CallInv /\ \A c \in Call : Open(c) => call[c].status = 0
  BY DEF Init, AccountsInit, Blank, CallInv, Shape, Fields, Open, ByEmail
<1>2. account \subseteq Rows
  BY AccountsAssumption DEF Init, AccountsInit, Rows, Canonical, Email, Name
<1>3. draft = {} /\ \A r, s \in account : r = s
  BY DEF Init, AccountsInit
<1> QED BY <1>1, <1>2, <1>3 DEF PersonInv, Drafts, Distinct

(* A handler that takes a step is open.                                      *)
LEMMA HandlesOpen ==
  ASSUME NEW c \in Call, Handle(c)
  PROVE  Open(c)
  BY DEF Handle, HandleAccount, At, Open, RegistrationFind, RegistrationInsert, SaveSession, LoginFind,
         ChangeMatch, UpdatePassword, ForgotFind, ForgotSave, ResetFind, ResetMatch, ResetClear,
         DeleteStarts, DeleteEnds, CommitSession, BuisnesSave, ServicesFind, ServicesSave,
         MastersFind, MastersServices, CreateMasterFind, CreateMasterInsert, MastersCommit

(* Calls stay in order whatever handler runs or call arrives.                *)
LEMMA HandlePersonCalls ==
  ASSUME PersonInv, NEW c \in Call, Handle(c)
  PROVE  CallInv' /\ \A d \in Call : (Open(d) => call[d].status = 0)'
<1>1. Shape' /\ Keeps(c) /\ Alone(c)
  BY Handling DEF PersonInv, CallInv
<1>2. CallInv'
  BY <1>1 DEF PersonInv, CallInv, Keeps, Alone
<1>3. Open(c)
  BY HandlesOpen
<1>4. ASSUME NEW d \in Call, Open(d)' PROVE call'[d].status = 0
  BY <1>1, <1>3, <1>4 DEF PersonInv, Keeps, Alone, Open
<1> QED BY <1>2, <1>4

(* The handlers that write accounts, and the one that may end a draft.       *)
LEMMA Writers ==
  ASSUME NEW c \in Call, Handle(c)
  PROVE  /\ RegistrationInsert(c) \/ UpdatePassword(c) \/ CreateMasterInsert(c) \/ MastersCommit(c)
            \/ UNCHANGED <<account, draft>>
         /\ At(c, "master", "commit master") => MastersCommit(c)
<1>1. RegistrationInsert(c) \/ UpdatePassword(c) \/ CreateMasterInsert(c) \/ MastersCommit(c)
      \/ UNCHANGED <<account, draft>>
  BY DEF tables, Handle, HandleAccount, RegistrationFind, SaveSession, LoginFind,
         ChangeMatch, ForgotFind, ForgotSave, ResetFind, ResetMatch, ResetClear,
         DeleteStarts, DeleteEnds, CommitSession, BuisnesSave, ServicesFind, ServicesSave,
         MastersFind, MastersServices, CreateMasterFind
<1>2. ASSUME At(c, "master", "commit master") PROVE MastersCommit(c)
  BY <1>2 DEF At, Handle, HandleAccount, RegistrationFind, RegistrationInsert, SaveSession, LoginFind,
         ChangeMatch, UpdatePassword, ForgotFind, ForgotSave, ResetFind, ResetMatch, ResetClear,
         DeleteStarts, DeleteEnds, CommitSession, BuisnesSave, ServicesFind, ServicesSave,
         MastersFind, MastersServices, CreateMasterFind, CreateMasterInsert
<1> QED BY <1>1, <1>2

(* The drafts of other calls stay where they are.                            *)
LEMMA OtherDrafts ==
  ASSUME PersonInv, NEW c \in Call, Alone(c), NEW r \in draft, r.id # c
  PROVE  r.id \in Call /\ At(r.id, "master", "commit master")' /\ r.role = "master"
  BY DEF PersonInv, Drafts, Alone, At

LEMMA HandlePerson ==
  ASSUME PersonInv, NEW c \in Call, Handle(c)
  PROVE  PersonInv'
<1>1. CallInv' /\ \A d \in Call : (Open(d) => call[d].status = 0)'
  BY HandlePersonCalls
<1>2. Shape' /\ Keeps(c) /\ Alone(c)
  BY Handling DEF PersonInv, CallInv
<1>3. At(c, "master", "commit master") => MastersCommit(c)
  BY Writers
<1>4. CASE UNCHANGED <<account, draft>>
  <2>1. ASSUME NEW r \in draft PROVE r.id # c
    BY <1>3, <1>4, <2>1 DEF PersonInv, Drafts, MastersCommit
  <2>2. Drafts'
    BY <1>2, <1>4, <2>1, OtherDrafts DEF Drafts
  <2> QED BY <1>1, <1>4, <2>2 DEF PersonInv, Distinct
<1>5. CASE RegistrationInsert(c)
  <2>1. call[c].op = "registration" /\ draft' = draft /\ \A r \in draft : r.email # call[c].email
    BY <1>5 DEF RegistrationInsert, At
  <2>2. CASE account' = account
    BY <1>4, <2>1, <2>2
  <2>3. CASE account' = account \cup {AccountRow(c, "owner")} /\ Row(call[c].email) = {}
    <3>1. AccountRow(c, "owner") \in Rows /\ AccountRow(c, "owner").email = call[c].email
      BY <2>1 DEF AccountRow, Rows, PersonInv, CallInv, Name, ByEmail
    <3>2. \A r \in account : r.email # call[c].email
      BY <2>3 DEF Row
    <3>3. Distinct'
      BY <2>1, <2>3, <3>1, <3>2 DEF PersonInv, Distinct
    <3>4. Drafts'
      <4>1. ASSUME NEW r \in draft PROVE r.id # c
        BY <2>1, <4>1 DEF PersonInv, Drafts, At
      <4> QED BY <1>2, <2>1, <4>1, OtherDrafts DEF Drafts
    <3> QED BY <1>1, <2>1, <2>3, <3>1, <3>3, <3>4 DEF PersonInv
  <2> QED BY <1>5, <2>2, <2>3 DEF RegistrationInsert
<1>6. CASE UpdatePassword(c)
  <2> DEFINE f(r) == IF r.id = call[c].user THEN [r EXCEPT !.password = c] ELSE r
  <2>1. account' = {f(r) : r \in account} /\ draft' = draft
    BY <1>6 DEF UpdatePassword
  <2>2. \A r \in Rows : f(r) \in Rows /\ f(r).email = r.email
    BY DEF Rows, Name
  <2>3. account' \subseteq Rows
    BY <2>1, <2>2 DEF PersonInv
  <2>4. ASSUME NEW r \in account', NEW s \in account', r.email = s.email PROVE r = s
    <3>1. PICK a \in account, b \in account : r = f(a) /\ s = f(b)
      BY <2>1
    <3>2. a.email = b.email
      BY <2>2, <2>4, <3>1 DEF PersonInv
    <3> QED BY <3>1, <3>2 DEF PersonInv, Distinct
  <2>5. ASSUME NEW r \in account', NEW d \in draft PROVE r.email # d.email
    <3>1. PICK a \in account : r = f(a)
      BY <2>1
    <3>2. r.email = a.email
      BY <2>2, <3>1 DEF PersonInv
    <3> QED BY <3>2 DEF PersonInv, Distinct
  <2>6. Drafts'
    <3>1. ASSUME NEW r \in draft PROVE r.id # c
      BY <1>6, <3>1 DEF PersonInv, Drafts, At, UpdatePassword
    <3> QED BY <1>2, <2>1, <3>1, OtherDrafts DEF Drafts
  <2>7. Distinct'
    BY <2>1, <2>4, <2>5 DEF Distinct, PersonInv
  <2> QED BY <1>1, <2>1, <2>3, <2>6, <2>7 DEF PersonInv
<1>7. CASE CreateMasterInsert(c)
  <2>1. At(c, "master", "insert") /\ account' = account /\ \A r \in draft : r.email # call[c].email
    BY <1>7 DEF CreateMasterInsert
  <2>2. CASE draft' = draft
    BY <1>4, <2>1, <2>2
  <2>3. CASE /\ draft' = draft \cup {AccountRow(c, "master")} /\ Row(call[c].email) = {}
             /\ Goto(c, "commit master")
    <3>1. AccountRow(c, "master") \in Rows /\ AccountRow(c, "master").email = call[c].email
          /\ AccountRow(c, "master").id = c /\ AccountRow(c, "master").role = "master"
      BY <2>1 DEF AccountRow, Rows, PersonInv, CallInv, Name, At, ByEmail
    <3>2. \A r \in account : r.email # call[c].email
      BY <2>3 DEF Row
    <3>3. Distinct'
      BY <2>1, <2>3, <3>1, <3>2 DEF PersonInv, Distinct
    <3>4. At(c, "master", "commit master")'
      BY <2>1, <2>3 DEF At, Goto, PersonInv, CallInv, Shape, Fields
    <3>5. ASSUME NEW r \in draft PROVE r.id # c
      BY <2>1, <3>5 DEF PersonInv, Drafts, At
    <3>6. Drafts'
      BY <1>2, <2>3, <3>1, <3>4, <3>5, OtherDrafts DEF Drafts
    <3> QED BY <1>1, <2>1, <2>3, <3>1, <3>3, <3>6 DEF PersonInv
  <2> QED BY <1>7, <2>2, <2>3 DEF CreateMasterInsert
<1>8. CASE MastersCommit(c)
  <2>1. /\ account' = account \cup {r \in draft : r.id = c}
        /\ draft' = {r \in draft : r.id # c}
    BY <1>8 DEF MastersCommit
  <2>2. Distinct'
    BY <2>1 DEF PersonInv, Distinct
  <2>3. Drafts'
    BY <1>2, <2>1, OtherDrafts DEF Drafts
  <2> QED BY <1>1, <2>1, <2>2, <2>3 DEF PersonInv
<1> QED BY <1>4, <1>5, <1>6, <1>7, <1>8, Writers

LEMMA ReceivePerson ==
  ASSUME PersonInv, NEW c \in Call, ReceiveAny(c)
  PROVE  PersonInv'
<1>1. /\ Shape' /\ Alone(c) /\ call[c].step = "idle" /\ Fresh(c)
      /\ UNCHANGED <<account, draft>>
  BY Arriving DEF PersonInv, CallInv, tables
<1>2. CallInv' /\ \A d \in Call : (Open(d) => call[d].status = 0)'
  BY <1>1 DEF PersonInv, CallInv, Alone, Fresh, Open
<1>3. ASSUME NEW r \in draft PROVE r.id # c
  BY <1>1, <1>3 DEF PersonInv, Drafts, At
<1>4. Drafts'
  BY <1>1, <1>3, OtherDrafts DEF Drafts
<1> QED BY <1>1, <1>2, <1>4 DEF PersonInv, Distinct

LEMMA EndPerson ==
  ASSUME PersonInv, UNCHANGED salonVars, (\E c \in Call : Fail(c)) \/ Crash
  PROVE  PersonInv'
<1>1. Shape
  BY DEF PersonInv, CallInv
<1>2. \A r \in draft : r.id \in Call /\ Open(r.id)
  BY DEF PersonInv, Drafts, At, Open
<1>3. PICK D \in SUBSET Call : (\A c \in D : Open(c)) /\ Ends(D)
  BY <1>1, <1>2, Ending DEF PersonInv
<1>4. Shape'
  BY <1>1, <1>2, Ending DEF PersonInv
<1>5. CallInv' /\ \A d \in Call : (Open(d) => call[d].status = 0)'
  BY <1>3, <1>4 DEF PersonInv, CallInv, Ends, Keeps, Open
<1>6. Drafts'
  <2> SUFFICES ASSUME NEW r \in draft'
               PROVE  r.id \in Call /\ At(r.id, "master", "commit master")' /\ r.role = "master"
    BY DEF Drafts
  <2>1. r \in draft /\ r.id \notin D
    BY <1>3 DEF Ends
  <2>2. call'[r.id] = call[r.id]
    BY <1>3, <2>1 DEF PersonInv, Drafts, Ends
  <2> QED BY <2>1, <2>2 DEF PersonInv, Drafts, At
<1>7. Distinct' /\ draft' \subseteq Rows /\ account' \subseteq Rows
  BY <1>3 DEF PersonInv, Distinct, Ends
<1> QED BY <1>5, <1>6, <1>7 DEF PersonInv

LEMMA NextPerson == PersonInv /\ [Next]_vars => PersonInv'
<1> SUFFICES ASSUME PersonInv, [Next]_vars PROVE PersonInv'
  OBVIOUS
<1>1. CASE \E c \in Call : ReceiveAny(c)
  BY <1>1, ReceivePerson
<1>2. CASE \E c \in Call : Handle(c)
  BY <1>2, HandlePerson
<1>3. CASE ((\E c \in Call : Fail(c)) \/ Crash) /\ UNCHANGED salonVars
  BY <1>3, EndPerson
<1>4. CASE UNCHANGED <<account, draft, call>>
  BY <1>4 DEF PersonInv, CallInv, Shape, Drafts, Distinct, At, Open
<1>5. CleanExpiredTokens \/ Tick \/ UNCHANGED vars => UNCHANGED <<account, draft, call>>
  BY DEF CleanExpiredTokens, Tick, vars, accountVars, tables
<1> QED BY <1>1, <1>2, <1>3, <1>4, <1>5 DEF Next

LEMMA AlwaysPerson == Spec => []PersonInv
  BY InitPerson, NextPerson, PTL DEF Spec

(* Two accounts are never about one person, however the lookups and INSERTs  *)
(* of registrations and masters_create interleave and fail.                  *)
THEOREM OnePersonOneAccount == Spec => []OneAccountPerPerson
<1>1. PersonInv => OneAccountPerPerson
  <2> SUFFICES ASSUME PersonInv, NEW r \in account, NEW s \in account, r.email.person = s.email.person
               PROVE  r = s
    BY DEF OneAccountPerPerson
  <2>1. r.email \in Canonical /\ s.email \in Canonical
    BY DEF PersonInv, Rows
  <2>2. r.email = s.email
    BY <2>1 DEF Canonical, Email
  <2> QED BY <2>2 DEF PersonInv, Distinct
<1> QED BY <1>1, AlwaysPerson, PTL

---------------------------------------------------------------------------
(* Masters are whole.                                                      *)

(* The ids of the masters' accounts.                                         *)
MasterIds(rows) == {r.id : r \in {s \in rows : s.role = "master"}}

MasterSteps == \A c \in Call : call[c].op = "master" =>
    call[c].step \in {"find", "services", "account", "insert", "commit master", "done"}

(* Once the salon has been looked up, the caller owns it; a call that is     *)
(* about to commit has its draft; the call that made a master is over.       *)
Owns(c) == OwnSalon(call[c].salon, call[c].user)
MasterInv ==
    /\ PersonInv /\ MasterSteps
    /\ \A c \in Call : (call[c].op = "master"
                        /\ call[c].step \in {"services", "account", "insert", "commit master"})
                       => Owns(c)
    /\ \A c \in Call : At(c, "master", "commit master") => \E r \in draft : r.id = c
    /\ MasterIds(account) = {m.auth : m \in master}
    /\ \A m \in master :
          /\ m.auth \in Call /\ call[m.auth].step = "done"
          /\ OwnSalon(m.salon, call[m.auth].user)
          /\ \A i \in m.services : \E s \in service : s.id = i /\ s.salon = m.salon

LEMMA InitMaster == Init => MasterInv
<1> SUFFICES ASSUME Init PROVE MasterInv
  OBVIOUS
<1>1. PersonInv
  BY InitPerson
<1>2. \A c \in Call : call[c].op = "none"
  BY DEF Init, AccountsInit, Blank
<1>3. master = {} /\ MasterIds(account) = {}
  BY DEF Init, AccountsInit, MasterIds
<1> QED BY <1>1, <1>2, <1>3 DEF MasterInv, MasterSteps, At

(* What the handlers do to salons, services and masters.                     *)
LEMMA SalonWriters ==
  ASSUME NEW c \in Call, Handle(c)
  PROVE  /\ salon \subseteq salon' /\ service \subseteq service' /\ call[c].step # "done"
         /\ MastersCommit(c) \/ UNCHANGED master
<1>1. salon \subseteq salon' /\ service \subseteq service' /\ (MastersCommit(c) \/ UNCHANGED master)
  BY DEF salonVars, Handle, BuisnesSave, ServicesFind, ServicesSave,
         MastersFind, MastersServices, CreateMasterFind, CreateMasterInsert, MastersCommit
<1>2. call[c].step # "done"
  BY DEF Handle, HandleAccount, At, RegistrationFind, RegistrationInsert, SaveSession, LoginFind,
         ChangeMatch, UpdatePassword, ForgotFind, ForgotSave, ResetFind, ResetMatch, ResetClear,
         DeleteStarts, DeleteEnds, CommitSession, BuisnesSave, ServicesFind, ServicesSave,
         MastersFind, MastersServices, CreateMasterFind, CreateMasterInsert, MastersCommit
<1> QED BY <1>1, <1>2

(* Where a handler goes, and that it does not forget for whom.               *)
LEMMA Goes ==
  ASSUME Shape, NEW c \in Call, NEW s, NEW u
  PROVE  /\ Goto(c, s) => call'[c].step = s /\ call'[c].user = call[c].user
         /\ Reply(c, u) => call'[c].step = "done" /\ call'[c].user = call[c].user
  BY DEF Shape, Fields, Goto, Reply

(* The way of a masters_create, and what it has learnt on it.                *)
MasterGoes(c) ==
    /\ call'[c].step \in {"services", "account", "insert", "commit master", "done"}
    /\ call'[c].user = call[c].user
    /\ call'[c].step = "services" => OwnSalon(call[c].salon, call[c].user)
    /\ call'[c].step \in {"account", "insert", "commit master"} =>
         call[c].step \in {"services", "account", "insert"}
    /\ call'[c].step = "commit master" => \E r \in draft' : r.id = c
    /\ MastersCommit(c) => call'[c].step = "done"

LEMMA MasterWay ==
  ASSUME Shape, MasterSteps, NEW c \in Call, Handle(c), call[c].op = "master"
  PROVE  MasterGoes(c)
<1>1. MastersFind(c) \/ MastersServices(c) \/ CreateMasterFind(c) \/ CreateMasterInsert(c)
      \/ MastersCommit(c)
  BY DEF MasterSteps, Handle, HandleAccount, At, RegistrationFind, RegistrationInsert, SaveSession,
         LoginFind, ChangeMatch, UpdatePassword, ForgotFind, ForgotSave, ResetFind, ResetMatch,
         ResetClear, DeleteStarts, DeleteEnds, CommitSession, BuisnesSave, ServicesFind, ServicesSave
<1>2. ASSUME NEW u, Reply(c, u) PROVE MasterGoes(c)
  BY <1>2, Goes DEF MasterGoes
<1>3. call[c].step # "commit master" => ~MastersCommit(c)
  BY DEF MastersCommit, At
<1>4. CASE MastersFind(c)
  <2>1. (\E u : Reply(c, u)) \/ (Goto(c, "services") /\ OwnSalon(call[c].salon, call[c].user))
    BY <1>4 DEF MastersFind
  <2>2. call[c].step # "commit master"
    BY <1>4 DEF MastersFind, At
  <2>3. CASE Goto(c, "services") /\ OwnSalon(call[c].salon, call[c].user)
    <3>1. call'[c].step = "services" /\ call'[c].user = call[c].user
      BY <2>3, Goes
    <3> QED BY <1>3, <2>2, <2>3, <3>1 DEF MasterGoes
  <2> QED BY <1>2, <2>1, <2>3
<1>5. CASE MastersServices(c) \/ CreateMasterFind(c)
  <2>1. (\E u : Reply(c, u)) \/ Goto(c, "account") \/ Goto(c, "insert")
    BY <1>5 DEF MastersServices, CreateMasterFind
  <2>2. call[c].step \in {"services", "account"}
    BY <1>5 DEF MastersServices, CreateMasterFind, At
  <2>3. CASE Goto(c, "account") \/ Goto(c, "insert")
    <3>1. call'[c].step \in {"account", "insert"} /\ call'[c].user = call[c].user
      BY <2>3, Goes
    <3> QED BY <1>3, <2>2, <3>1 DEF MasterGoes
  <2> QED BY <1>2, <2>1, <2>3
<1>6. CASE CreateMasterInsert(c)
  <2>1. (\E u : Reply(c, u))
        \/ (Goto(c, "commit master") /\ draft' = draft \cup {AccountRow(c, "master")})
    BY <1>6 DEF CreateMasterInsert
  <2>2. call[c].step = "insert"
    BY <1>6 DEF CreateMasterInsert, At
  <2>3. CASE Goto(c, "commit master") /\ draft' = draft \cup {AccountRow(c, "master")}
    <3>1. call'[c].step = "commit master" /\ call'[c].user = call[c].user
      BY <2>3, Goes
    <3>2. AccountRow(c, "master") \in draft' /\ AccountRow(c, "master").id = c
      BY <2>3 DEF AccountRow
    <3> QED BY <1>3, <2>2, <3>1, <3>2 DEF MasterGoes
  <2> QED BY <1>2, <2>1, <2>3
<1>7. CASE MastersCommit(c)
  <2>1. Reply(c, 201)
    BY <1>7 DEF MastersCommit
  <2> QED BY <1>2, <2>1
<1> QED BY <1>1, <1>4, <1>5, <1>6, <1>7

(* A row that keeps its id and role keeps the masters' ids.                  *)
LEMMA IdsKept ==
  ASSUME PersonInv, NEW c \in Call, UpdatePassword(c)
  PROVE  MasterIds(account') = MasterIds(account)
<1> DEFINE f(r) == IF r.id = call[c].user THEN [r EXCEPT !.password = c] ELSE r
<1>1. account' = {f(r) : r \in account}
  BY DEF UpdatePassword
<1>2. \A r \in account : f(r).id = r.id /\ f(r).role = r.role
  BY DEF PersonInv, Rows
<1>3. \A x : x \in MasterIds(account') <=> \E r \in account : f(r).role = "master" /\ f(r).id = x
  BY <1>1 DEF MasterIds
<1>4. \A x : x \in MasterIds(account) <=> \E r \in account : r.role = "master" /\ r.id = x
  BY DEF MasterIds
<1> HIDE DEF f
<1>5. \A x : x \in MasterIds(account') <=> x \in MasterIds(account)
  BY <1>2, <1>3, <1>4
<1> QED BY <1>5 DEF MasterIds

(* The masters' accounts and the masters, over a step of a handler.          *)
LEMMA HandleIds ==
  ASSUME MasterInv, NEW c \in Call, Handle(c)
  PROVE  MasterIds(account') = {m.auth : m \in master'}
<1>1. MasterIds(account) = {m.auth : m \in master}
  BY DEF MasterInv
<1>2. ~MastersCommit(c) => UNCHANGED master
  BY SalonWriters
<1>3. CASE RegistrationInsert(c)
  <2>1. AccountRow(c, "owner").role # "master"
    BY DEF AccountRow
  <2>2. account' = account \/ account' = account \cup {AccountRow(c, "owner")}
    BY <1>3 DEF RegistrationInsert
  <2>3. MasterIds(account') = MasterIds(account)
    BY <2>1, <2>2 DEF MasterIds
  <2>4. ~MastersCommit(c)
    BY <1>3 DEF RegistrationInsert, MastersCommit, At
  <2> QED BY <1>1, <1>2, <2>3, <2>4
<1>4. CASE UpdatePassword(c)
  <2>1. ~MastersCommit(c)
    BY <1>4 DEF UpdatePassword, MastersCommit, At
  <2> QED BY <1>1, <1>2, <1>4, <2>1, IdsKept DEF MasterInv
<1>5. CASE CreateMasterInsert(c)
  <2>1. ~MastersCommit(c) /\ account' = account
    BY <1>5 DEF CreateMasterInsert, MastersCommit, At
  <2> QED BY <1>1, <1>2, <2>1
<1>6. CASE MastersCommit(c)
  <2>1. PICK d \in draft : d.id = c
    BY <1>6 DEF MasterInv, MastersCommit
  <2>2. \A r \in draft : r.role = "master"
    BY DEF MasterInv, PersonInv, Drafts
  <2>3. account' = account \cup {r \in draft : r.id = c}
    BY <1>6 DEF MastersCommit
  <2>4. MasterIds(account') = MasterIds(account) \cup {c}
    BY <2>1, <2>2, <2>3 DEF MasterIds
  <2>5. {m.auth : m \in master'} = {m.auth : m \in master} \cup {c}
    <3> DEFINE new == [auth |-> c, salon |-> call[c].salon,
                       services |-> {s.id : s \in FoundServices(c)}]
    <3>1. master' = master \cup {new}
      BY <1>6 DEF MastersCommit
    <3>2. new.auth = c
      OBVIOUS
    <3> HIDE DEF new
    <3> QED BY <3>1, <3>2
  <2> QED BY <1>1, <2>4, <2>5
<1>7. CASE ~MastersCommit(c) /\ account' = account
  BY <1>1, <1>2, <1>7
<1> QED BY <1>3, <1>4, <1>5, <1>6, <1>7, Writers

LEMMA HandleMaster ==
  ASSUME MasterInv, NEW c \in Call, Handle(c)
  PROVE  MasterInv'
<1>1. PersonInv' /\ Shape
  BY HandlePerson DEF MasterInv, PersonInv, CallInv
<1>2. Keeps(c) /\ Alone(c)
  BY <1>1, Handling
<1>3. /\ salon \subseteq salon' /\ service \subseteq service' /\ call[c].step # "done"
      /\ MastersCommit(c) \/ UNCHANGED master
  BY SalonWriters
<1>4. call[c].op = "master" => MasterGoes(c)
  BY <1>1, MasterWay DEF MasterInv
<1>5. MasterSteps'
  <2>1. call[c].op = "master" =>
          call'[c].step \in {"services", "account", "insert", "commit master", "done"}
    BY <1>4 DEF MasterGoes
  <2>2. call'[c].op = call[c].op
    BY <1>2 DEF Keeps
  <2> QED BY <1>2, <2>1, <2>2 DEF MasterInv, MasterSteps, Alone
<1>6. \A b, u : OwnSalon(b, u) => OwnSalon(b, u)'
  BY <1>3 DEF OwnSalon
<1>7. ASSUME NEW d \in Call, call'[d].op = "master",
             call'[d].step \in {"services", "account", "insert", "commit master"}
      PROVE  Owns(d)'
  <2>1. CASE d = c
    <3>1. call[c].op = "master" /\ call'[c].salon = call[c].salon
      BY <1>2, <1>7, <2>1 DEF Keeps
    <3>2. call'[c].user = call[c].user
      BY <1>4, <3>1 DEF MasterGoes
    <3>3. CASE call'[c].step = "services"
      <4>1. OwnSalon(call[c].salon, call[c].user)
        BY <1>4, <3>1, <3>3 DEF MasterGoes
      <4> QED BY <1>3, <2>1, <3>1, <3>2, <4>1 DEF Owns, OwnSalon
    <3>4. CASE call'[c].step \in {"account", "insert", "commit master"}
      <4>1. call[c].step \in {"services", "account", "insert"}
        BY <1>4, <3>1, <3>4 DEF MasterGoes
      <4>2. Owns(c)
        BY <3>1, <4>1 DEF MasterInv
      <4> QED BY <1>3, <2>1, <3>1, <3>2, <4>2 DEF Owns, OwnSalon
    <3> QED BY <1>7, <2>1, <3>3, <3>4
  <2>2. CASE d # c
    <3>1. call'[d] = call[d]
      BY <1>2, <2>2 DEF Alone
    <3>2. Owns(d)
      BY <1>7, <3>1 DEF MasterInv
    <3> QED BY <1>3, <3>1, <3>2 DEF Owns, OwnSalon
  <2> QED BY <2>1, <2>2
<1>8. ASSUME NEW d \in Call, At(d, "master", "commit master")' PROVE \E r \in draft' : r.id = d
  <2>1. CASE d = c
    BY <1>2, <1>4, <1>8, <2>1 DEF At, Keeps, MasterGoes
  <2>2. CASE d # c
    <3>1. At(d, "master", "commit master")
      BY <1>2, <1>8, <2>2 DEF At, Alone
    <3>2. PICK r \in draft : r.id = d
      BY <3>1 DEF MasterInv
    <3>3. r \in draft'
      BY <2>2, <3>2, Writers DEF RegistrationInsert, UpdatePassword, CreateMasterInsert, MastersCommit
    <3> QED BY <3>2, <3>3
  <2> QED BY <2>1, <2>2
<1>9. ASSUME NEW m \in master'
      PROVE  /\ m.auth \in Call /\ call'[m.auth].step = "done"
             /\ OwnSalon(m.salon, call[m.auth].user)'
             /\ \A i \in m.services : \E s \in service' : s.id = i /\ s.salon = m.salon
  <2>1. CASE m \in master
    <3>1. m.auth # c /\ m.auth \in Call
      BY <1>3, <2>1 DEF MasterInv
    <3>2. call'[m.auth] = call[m.auth]
      BY <1>2, <3>1 DEF Alone
    <3>3. OwnSalon(m.salon, call[m.auth].user) /\ call[m.auth].step = "done"
      BY <2>1 DEF MasterInv
    <3>4. OwnSalon(m.salon, call[m.auth].user)'
      BY <3>2, <3>3, <1>3 DEF OwnSalon
    <3>5. \A i \in m.services : \E s \in service : s.id = i /\ s.salon = m.salon
      BY <2>1 DEF MasterInv
    <3> QED BY <1>3, <3>1, <3>2, <3>3, <3>4, <3>5
  <2>2. CASE m \notin master
    <3>1. MastersCommit(c)
      BY <1>3, <2>2
    <3>2. call[c].op = "master" /\ call[c].step = "commit master"
      BY <3>1 DEF MastersCommit, At
    <3>3. m = [auth |-> c, salon |-> call[c].salon, services |-> {s.id : s \in FoundServices(c)}]
      BY <2>2, <3>1 DEF MastersCommit
    <3>4. call'[c].step = "done" /\ call'[c].user = call[c].user
      BY <1>4, <3>1, <3>2 DEF MasterGoes
    <3>5. OwnSalon(call[c].salon, call[c].user)
      BY <3>2 DEF MasterInv, Owns
    <3>6. \A i \in m.services : \E s \in service : s.id = i /\ s.salon = m.salon
      BY <3>3 DEF FoundServices
    <3> QED BY <1>3, <3>3, <3>4, <3>5, <3>6 DEF OwnSalon
  <2> QED BY <2>1, <2>2
<1>10. MasterIds(account') = {m.auth : m \in master'}
  BY HandleIds
<1> QED BY <1>1, <1>5, <1>7, <1>8, <1>9, <1>10 DEF MasterInv, MasterIds

(* Where nothing is written, calls that arrive or end change nothing.        *)
LEMMA CallsMoved ==
  ASSUME MasterInv, PersonInv', UNCHANGED <<account, salon, service, master>>,
         NEW D \in SUBSET Call,
         \A d \in Call : d \notin D => call'[d] = call[d],
         \A d \in D : call'[d].op = "master" => call'[d].step \in {"find", "done"},
         \A d \in D : call[d].step # "done",
         \A r \in draft : r.id \notin D => r \in draft'
  PROVE  MasterInv'
<1>1. MasterSteps'
  BY DEF MasterInv, MasterSteps
<1>2. ASSUME NEW d \in Call, call'[d].op = "master",
             call'[d].step \in {"services", "account", "insert", "commit master"}
      PROVE  Owns(d)'
  <2>1. call'[d] = call[d]
    BY <1>2
  <2>2. Owns(d)
    BY <1>2, <2>1 DEF MasterInv
  <2> QED BY <2>1, <2>2 DEF Owns, OwnSalon
<1>3. ASSUME NEW d \in Call, At(d, "master", "commit master")' PROVE \E r \in draft' : r.id = d
  <2>1. d \notin D /\ call'[d] = call[d]
    BY <1>3 DEF At
  <2>2. At(d, "master", "commit master")
    BY <1>3, <2>1 DEF At
  <2>3. PICK r \in draft : r.id = d
    BY <2>2 DEF MasterInv
  <2> QED BY <2>1, <2>3
<1>4. ASSUME NEW m \in master
      PROVE  /\ m.auth \in Call /\ call'[m.auth].step = "done"
             /\ OwnSalon(m.salon, call[m.auth].user)'
             /\ \A i \in m.services : \E s \in service : s.id = i /\ s.salon = m.salon
  <2>1. /\ m.auth \in Call /\ call[m.auth].step = "done"
        /\ OwnSalon(m.salon, call[m.auth].user)
        /\ \A i \in m.services : \E s \in service : s.id = i /\ s.salon = m.salon
    BY DEF MasterInv
  <2>2. call'[m.auth] = call[m.auth]
    BY <2>1
  <2> QED BY <2>1, <2>2 DEF OwnSalon
<1>5. MasterIds(account) = {m.auth : m \in master}
  BY DEF MasterInv
<1> QED BY <1>1, <1>2, <1>3, <1>4, <1>5, ZenonT(60) DEF MasterInv, MasterIds

LEMMA ReceiveMaster ==
  ASSUME MasterInv, NEW c \in Call, ReceiveAny(c)
  PROVE  MasterInv'
<1>1. PersonInv' /\ Shape
  BY ReceivePerson DEF MasterInv, PersonInv, CallInv
<1>2. /\ Alone(c) /\ call[c].step = "idle" /\ Fresh(c)
      /\ UNCHANGED <<account, draft, salon, service, master>>
  BY <1>1, Arriving DEF tables, salonVars
<1>3. \A d \in Call : d # c => call'[d] = call[d]
  BY <1>2 DEF Alone
<1>4. call'[c].op = "master" => call'[c].step = "find"
  BY <1>2 DEF Fresh
<1> DEFINE D == {c}
<1>5. D \in SUBSET Call /\ \A d \in D : d = c
  OBVIOUS
<1>6. c \in D
  OBVIOUS
<1> HIDE DEF D
<1>7. \A d \in Call : d \notin D => call'[d] = call[d]
  BY <1>3, <1>6
<1>8. \A d \in D : /\ call'[d].op = "master" => call'[d].step \in {"find", "done"}
                   /\ call[d].step # "done"
  BY <1>2, <1>4, <1>5
<1> QED BY <1>1, <1>2, <1>5, <1>7, <1>8, CallsMoved

LEMMA EndMaster ==
  ASSUME MasterInv, UNCHANGED salonVars, (\E c \in Call : Fail(c)) \/ Crash
  PROVE  MasterInv'
<1>1. PersonInv' /\ Shape
  BY EndPerson DEF MasterInv, PersonInv, CallInv
<1>2. \A r \in draft : r.id \in Call /\ Open(r.id)
  BY DEF MasterInv, PersonInv, Drafts, At, Open
<1>3. PICK D \in SUBSET Call : (\A c \in D : Open(c)) /\ Ends(D)
  BY <1>1, <1>2, Ending DEF MasterInv, PersonInv
<1>4. UNCHANGED <<account, salon, service, master>> /\ draft' = {r \in draft : r.id \notin D}
  BY <1>3 DEF Ends, salonVars
<1>5. \A c \in Call : c \in D \/ call'[c] = call[c]
  BY <1>3 DEF Ends
<1>6. \A c \in D : call'[c].step = "done" /\ call'[c].op = call[c].op
  BY <1>3 DEF Ends, Keeps
<1>7. \A c \in D : call[c].step # "done"
  BY <1>3 DEF Open
<1> QED BY <1>1, <1>4, <1>5, <1>6, <1>7, CallsMoved

LEMMA NextMaster == MasterInv /\ [Next]_vars => MasterInv'
<1> SUFFICES ASSUME MasterInv, [Next]_vars PROVE MasterInv'
  OBVIOUS
<1>1. CASE \E c \in Call : ReceiveAny(c)
  BY <1>1, ReceiveMaster
<1>2. CASE \E c \in Call : Handle(c)
  BY <1>2, HandleMaster
<1>3. CASE ((\E c \in Call : Fail(c)) \/ Crash) /\ UNCHANGED salonVars
  BY <1>3, EndMaster
<1>4. CASE UNCHANGED <<account, draft, call, salonVars>>
  <2>1. PersonInv'
    BY NextPerson DEF MasterInv
  <2>2. UNCHANGED <<account, salon, service, master>> /\ draft' = draft /\ call' = call
    BY <1>4 DEF salonVars
  <2> DEFINE D == {}
  <2>3. D \in SUBSET Call /\ \A d \in D : FALSE
    OBVIOUS
  <2> HIDE DEF D
  <2> QED BY <2>1, <2>2, <2>3, CallsMoved
<1>5. (CleanExpiredTokens \/ Tick) /\ UNCHANGED salonVars => UNCHANGED <<account, draft, call, salonVars>>
  BY DEF CleanExpiredTokens, Tick, tables
<1>6. UNCHANGED vars => UNCHANGED <<account, draft, call, salonVars>>
  BY DEF vars, accountVars, tables
<1> QED BY <1>1, <1>2, <1>3, <1>4, <1>5, <1>6 DEF Next

LEMMA AlwaysMaster == Spec => []MasterInv
  BY InitMaster, NextMaster, PTL DEF Spec

(* No master without his account and no master's account without its master, *)
(* whichever INSERT fails and wherever the process stops; his salon belongs  *)
(* to the caller and his services to the salon.                              *)
THEOREM MastersAreWhole == Spec => []MasterWhole
<1>1. MasterInv => MasterWhole
  BY DEF MasterInv, MasterWhole, MasterIds
<1> QED BY <1>1, AlwaysMaster, PTL
---------------------------------------------------------------------------
(* One session.                                                            *)

(* A meeting has been noted; and a call that has started to delete, and that *)
(* has met nobody, has in hand every session its user has: nobody but a call *)
(* that opens a session for that user could add one.                         *)
SignInv ==
    /\ PersonInv
    /\ \A c \in Call : Meets(c) => raced[c]
    /\ \A c \in Call : (call[c].step \in {"delete", "commit"} /\ ~raced[c])
                       => SessionsOf(call[c].user) \subseteq call[c].victims

LEMMA SessionWriters ==
  ASSUME NEW c \in Call, Handle(c)
  PROVE  SaveSession(c) \/ CommitSession(c) \/ UNCHANGED session
  BY DEF tables, Handle, HandleAccount, RegistrationFind, RegistrationInsert, LoginFind, ChangeMatch,
         UpdatePassword, ForgotFind, ForgotSave, ResetFind, ResetMatch, ResetClear,
         DeleteStarts, DeleteEnds, BuisnesSave, ServicesFind, ServicesSave,
         MastersFind, MastersServices, CreateMasterFind, CreateMasterInsert, MastersCommit

(* Nothing but the DELETE takes a call to these two steps.                   *)
LEMMA ToDelete ==
  ASSUME Shape, NEW c \in Call, Handle(c), call'[c].step \in {"delete", "commit"}
  PROVE  DeleteStarts(c) \/ DeleteEnds(c)
<1>1. /\ \A s : Goto(c, s) => s \in {"delete", "commit"}
      /\ \A s, u : Know(c, u, s) => s \in {"delete", "commit"}
  BY DEF Shape, Fields, Goto, Know
<1>2. ASSUME NEW u, Reply(c, u) PROVE FALSE
  BY <1>2 DEF Shape, Fields, Reply
<1>3. ~RegistrationFind(c) /\ ~LoginFind(c) /\ ~ChangeMatch(c)
  BY <1>1, <1>2 DEF RegistrationFind, LoginFind, ChangeMatch
<1>4. ~RegistrationInsert(c) /\ ~SaveSession(c)
  <2>1. RegistrationInsert(c) => Know(c, c, "session") \/ Reply(c, 500)
    BY DEF RegistrationInsert
  <2> QED BY <1>1, <1>2, <2>1 DEF SaveSession
<1>5. ~UpdatePassword(c) /\ ~ForgotFind(c) /\ ~ForgotSave(c) /\ ~ResetFind(c) /\ ~ResetClear(c)
  <2>1. UpdatePassword(c) => Goto(c, "rotate") \/ Goto(c, "clear")
    BY DEF UpdatePassword
  <2> QED BY <1>1, <1>2, <2>1 DEF ForgotFind, ForgotSave, ResetFind, ResetClear
<1>6. ~ResetMatch(c) /\ ~CommitSession(c)
  BY <1>2 DEF ResetMatch, CommitSession, Shape, Fields
<1>7. ~BuisnesSave(c) /\ ~ServicesFind(c) /\ ~ServicesSave(c)
  BY <1>1, <1>2 DEF BuisnesSave, ServicesFind, ServicesSave
<1>8. ~MastersFind(c) /\ ~MastersServices(c) /\ ~CreateMasterFind(c)
  BY <1>1, <1>2 DEF MastersFind, MastersServices, CreateMasterFind
<1>9. ~CreateMasterInsert(c) /\ ~MastersCommit(c)
  <2>1. CreateMasterInsert(c) => Reply(c, 500) \/ Goto(c, "commit master")
    BY DEF CreateMasterInsert
  <2>2. MastersCommit(c) => Reply(c, 201)
    BY DEF MastersCommit
  <2>3. Goto(c, "commit master") => "commit master" \in {"delete", "commit"}
    BY <1>1, Zenon
  <2>4. ~Reply(c, 201) /\ ~Reply(c, 500)
    BY <1>2
  <2>5. "commit master" \notin {"delete", "commit"}
    BY Zenon
  <2> QED BY <2>1, <2>2, <2>3, <2>4, <2>5
<1> QED BY <1>3, <1>4, <1>5, <1>6, <1>7, <1>8, <1>9 DEF Handle, HandleAccount

LEMMA InitSign == Init => SignInv
<1> SUFFICES ASSUME Init PROVE SignInv
  OBVIOUS
<1>1. \A c \in Call : call[c].step = "idle"
  BY DEF Init, AccountsInit, Blank
<1> QED BY <1>1, InitPerson DEF SignInv, Meets, OpensSession

LEMMA NextSign == SignInv /\ [Next]_vars => SignInv'
<1> SUFFICES ASSUME SignInv, [Next]_vars PROVE SignInv'
  OBVIOUS
<1>1. PersonInv' /\ Shape
  BY NextPerson DEF SignInv, PersonInv, CallInv
<1>2. \A c \in Call : (Meets(c)' => raced'[c]) /\ (raced[c] => raced'[c])
  <2>1. CASE Next
    BY <2>1 DEF Next, Observe
  <2>2. CASE UNCHANGED vars
    BY <2>2 DEF SignInv, vars, accountVars, history, Meets, OpensSession
  <2> QED BY <2>1, <2>2
<1>3. SUFFICES ASSUME NEW c \in Call, call'[c].step \in {"delete", "commit"}, ~raced'[c]
               PROVE  SessionsOf(call[c].user)' \subseteq call'[c].victims
  BY <1>1, <1>2 DEF SignInv
<1>4. ~raced[c] /\ ~Meets(c)
  BY <1>2, <1>3 DEF SignInv
<1>5. CASE call'[c] = call[c] /\ session' \subseteq session
  BY <1>3, <1>4, <1>5 DEF SignInv, SessionsOf
<1>6. ASSUME NEW d \in Call, Handle(d) PROVE SessionsOf(call[c].user)' \subseteq call'[c].victims
  <2>1. CASE d = c
    <3>1. DeleteStarts(c) \/ DeleteEnds(c)
      BY <1>1, <1>3, <1>6, <2>1, ToDelete
    <3>2. CASE DeleteStarts(c)
      <4>1. session' = session /\ call'[c].user = call[c].user
            /\ call'[c].victims = SessionsOf(call[c].user)
        BY <1>1, <3>2 DEF DeleteStarts, tables, Shape, Fields
      <4> QED BY <4>1 DEF SessionsOf
    <3>3. CASE DeleteEnds(c)
      <4>1. session' = session /\ call'[c].user = call[c].user
            /\ call'[c].victims = call[c].victims \cap session /\ call[c].step = "delete"
        BY <1>1, <3>3 DEF DeleteEnds, tables, Shape, Fields
      <4>2. SessionsOf(call[c].user) \subseteq call[c].victims
        BY <1>4, <4>1 DEF SignInv
      <4> QED BY <4>1, <4>2 DEF SessionsOf
    <3> QED BY <3>1, <3>2, <3>3
  <2>2. CASE d # c
    <3>1. call'[c] = call[c]
      BY <1>1, <1>6, <2>2, Handling DEF Alone
    <3>2. SessionsOf(call[c].user) \subseteq call[c].victims
      BY <1>3, <1>4, <3>1 DEF SignInv
    <3>3. CASE SaveSession(d) \/ CommitSession(d)
      <4>1. OpensSession(c) /\ OpensSession(d)
        BY <1>3, <3>1, <3>3 DEF OpensSession, SaveSession, CommitSession, At
      <4>2. call[d].user # call[c].user
        BY <1>4, <2>2, <4>1 DEF Meets
      <4>3. session' \subseteq session \cup {[user |-> call[d].user, by |-> d]}
        BY <3>3 DEF SaveSession, CommitSession
      <4> QED BY <3>1, <3>2, <4>2, <4>3 DEF SessionsOf
    <3> QED BY <1>5, <1>6, <3>1, <3>3, SessionWriters
  <2> QED BY <2>1, <2>2
<1>7. ASSUME NEW d \in Call, ReceiveAny(d) PROVE call'[c] = call[c] /\ session' = session
  <2>1. Alone(d) /\ Fresh(d) /\ session' = session
    BY <1>1, <1>7, Arriving DEF tables
  <2> QED BY <1>3, <2>1 DEF Alone, Fresh
<1>8. ASSUME UNCHANGED salonVars, (\E d \in Call : Fail(d)) \/ Crash
      PROVE  call'[c] = call[c] /\ session' = session
  <2>1. \A r \in draft : r.id \in Call /\ Open(r.id)
    BY DEF SignInv, PersonInv, Drafts, At, Open
  <2>2. \E D \in SUBSET Call : (\A d \in D : Open(d)) /\ Ends(D)
    BY <1>1, <1>8, <2>1, Ending DEF SignInv, PersonInv
  <2> QED BY <1>3, <2>2 DEF Ends
<1>9. CleanExpiredTokens \/ Tick \/ UNCHANGED vars => call' = call /\ session' = session
  BY DEF CleanExpiredTokens, Tick, vars, accountVars, tables
<1> QED BY <1>5, <1>6, <1>7, <1>8, <1>9 DEF Next

(* The answer to a sign-in that met no other one of that user names the only *)
(* session he then has, for any number of calls and failures.                *)
THEOREM OneSession == Spec => LoneSignIn
<1>1. SignInv /\ [Next]_vars =>
        [\A c \in Call : (call[c].step = "commit" /\ call'[c].status = 201 /\ ~raced[c]) =>
           {s \in session' : s.user = call[c].user} = {[user |-> call[c].user, by |-> c]}]_vars
  <2> SUFFICES ASSUME SignInv, Next, NEW c \in Call,
                      call[c].step = "commit", call'[c].status = 201, ~raced[c]
               PROVE  {s \in session' : s.user = call[c].user} = {[user |-> call[c].user, by |-> c]}
    OBVIOUS
  <2>1. call[c].status = 0 /\ Shape
    BY DEF SignInv, PersonInv, CallInv, Open
  <2>2. CommitSession(c)
    <3>1. ASSUME NEW d \in Call, ReceiveAny(d) PROVE FALSE
      <4>1. call[d].step = "idle" /\ Alone(d)
        BY <2>1, <3>1, Arriving
      <4> QED BY <2>1, <4>1 DEF Alone
    <3>2. ASSUME UNCHANGED salonVars, (\E d \in Call : Fail(d)) \/ Crash PROVE FALSE
      <4>1. \A r \in draft : r.id \in Call /\ Open(r.id)
        BY DEF SignInv, PersonInv, Drafts, At, Open
      <4>2. \E D \in SUBSET Call : (\A d \in D : Open(d)) /\ Ends(D)
        BY <2>1, <3>2, <4>1, Ending DEF SignInv, PersonInv
      <4> QED BY <2>1, <4>2 DEF Ends
    <3>3. ~CleanExpiredTokens /\ ~Tick
      BY <2>1 DEF CleanExpiredTokens, Tick
    <3>4. ASSUME NEW d \in Call, Handle(d) PROVE d = c
      BY <2>1, <3>4, Handling DEF Alone
    <3>5. Handle(c) => CommitSession(c)
      BY DEF Handle, HandleAccount, At, RegistrationFind, RegistrationInsert, SaveSession, LoginFind,
             ChangeMatch, UpdatePassword, ForgotFind, ForgotSave, ResetFind, ResetMatch, ResetClear,
             DeleteStarts, DeleteEnds, BuisnesSave, ServicesFind, ServicesSave,
             MastersFind, MastersServices, CreateMasterFind, CreateMasterInsert, MastersCommit
    <3> QED BY <3>1, <3>2, <3>3, <3>4, <3>5 DEF Next
  <2>3. SessionsOf(call[c].user) \subseteq call[c].victims
    BY DEF SignInv
  <2>4. session' = (session \ call[c].victims) \cup {[user |-> call[c].user, by |-> c]}
    BY <2>2 DEF CommitSession
  <2> QED BY <2>3, <2>4 DEF SessionsOf
<1>2. Spec => []SignInv
  BY InitSign, NextSign, PTL DEF Spec
<1> QED BY <1>1, <1>2, PTL DEF Spec, LoneSignIn
---------------------------------------------------------------------------
(* Codes.                                                                  *)

(* Names under which no code will be inserted any more.                      *)
Given == {Seed} \cup {d \in Call : At(d, "forgot", "done")}
CodeIds(K) == {k.id : k \in K}

ResetSteps == {"find", "records", "update", "clear", "rotate", "delete", "commit", "done"}

CodeInv ==
    /\ PersonInv
    /\ CodeIds(code) \subseteq Given
    /\ \A k, l \in code : k.id = l.id => k = l
    /\ \A c \in Call : call[c].records \subseteq Given
    /\ \A c \in Call : call[c].op # "reset" => call[c].token = None
    /\ \A c \in Call : call[c].op = "reset" => call[c].step \in ResetSteps

LEMMA InitCode == Init => CodeInv
<1> SUFFICES ASSUME Init PROVE CodeInv
  OBVIOUS
<1>1. \A c \in Call : call[c] = Blank
  BY DEF Init, AccountsInit
<1>2. code = {[id |-> Seed, user |-> Seed, expires |-> Ttl]}
  BY DEF Init, AccountsInit
<1> QED BY <1>1, <1>2, InitPerson DEF CodeInv, Blank, CodeIds, Given

(* The kinds of steps, as the invariants about codes and refusals use them.  *)
LEMMA Kinds ==
  ASSUME PersonInv, [Next]_vars
  PROVE  \/ \E c \in Call : Handle(c) /\ Keeps(c) /\ Alone(c)
         \/ \E c \in Call : /\ Alone(c) /\ Fresh(c) /\ call[c].step = "idle"
                            /\ UNCHANGED <<tables, salonVars>>
         \/ \E D \in SUBSET Call : (\A c \in D : Open(c)) /\ Ends(D)
         \/ /\ UNCHANGED <<call, account, draft, session, salonVars>>
            /\ code' = code \/ code' = {k \in code : ~Expired(k)}
<1>1. Shape /\ (\A c \in Call : Open(c) => call[c].status = 0) /\ \A r \in draft : r.id \in Call /\ Open(r.id)
  BY DEF PersonInv, CallInv, Drafts, At, Open
<1>2. ASSUME NEW c \in Call, Handle(c) PROVE Keeps(c) /\ Alone(c)
  BY <1>1, <1>2, Handling
<1>3. ASSUME NEW c \in Call, ReceiveAny(c)
      PROVE  Alone(c) /\ Fresh(c) /\ call[c].step = "idle" /\ UNCHANGED <<tables, salonVars>>
  BY <1>1, <1>3, Arriving
<1>4. ASSUME UNCHANGED salonVars, (\E c \in Call : Fail(c)) \/ Crash
      PROVE  \E D \in SUBSET Call : (\A c \in D : Open(c)) /\ Ends(D)
  BY <1>1, <1>4, Ending
<1>5. (CleanExpiredTokens \/ Tick) /\ UNCHANGED salonVars =>
        /\ UNCHANGED <<call, account, draft, session, salonVars>>
        /\ code' = code \/ code' = {k \in code : ~Expired(k)}
  BY DEF CleanExpiredTokens, Tick, tables
<1>6. UNCHANGED vars => UNCHANGED <<call, account, draft, session, salonVars>> /\ code' = code
  BY DEF vars, accountVars, tables
<1> QED BY <1>2, <1>3, <1>4, <1>5, <1>6 DEF Next

(* Nothing happens to a call that is over.                                   *)
LEMMA DoneStays ==
  ASSUME PersonInv, [Next]_vars, NEW d \in Call, call[d].step = "done"
  PROVE  call'[d] = call[d]
<1>1. ASSUME NEW c \in Call, Handle(c), Alone(c) PROVE call'[d] = call[d]
  BY <1>1, SalonWriters DEF Alone
<1> QED BY <1>1, Kinds DEF Alone, Ends, Open

(* A name that is given stays given.                                         *)
LEMMA GivenGrows ==
  ASSUME CodeInv, [Next]_vars
  PROVE  Given \subseteq Given'
  BY DoneStays DEF CodeInv, Given, At

(* What the handlers do to codes.                                            *)
LEMMA CodeWriters ==
  ASSUME NEW c \in Call, Handle(c)
  PROVE  ForgotSave(c) \/ ResetClear(c) \/ UNCHANGED code
  BY DEF tables, Handle, HandleAccount, RegistrationFind, RegistrationInsert, SaveSession, LoginFind,
         ChangeMatch, UpdatePassword, ForgotFind, ResetFind, ResetMatch,
         DeleteStarts, DeleteEnds, CommitSession, BuisnesSave, ServicesFind, ServicesSave,
         MastersFind, MastersServices, CreateMasterFind, CreateMasterInsert, MastersCommit

(* The handlers of a reset.                                                  *)
ResetHandle(c) ==
    \/ ResetFind(c) \/ ResetMatch(c) \/ UpdatePassword(c) \/ ResetClear(c)
    \/ DeleteStarts(c) \/ DeleteEnds(c) \/ CommitSession(c)

LEMMA ResetHandles ==
  ASSUME NEW c \in Call, Handle(c), call[c].op = "reset", call[c].step \in ResetSteps
  PROVE  ResetHandle(c)
  BY DEF ResetHandle, ResetSteps, Handle, HandleAccount, At, RegistrationFind, RegistrationInsert,
         SaveSession, LoginFind, ChangeMatch, ForgotFind, ForgotSave, BuisnesSave, ServicesFind,
         ServicesSave, MastersFind, MastersServices, CreateMasterFind, CreateMasterInsert, MastersCommit

(* The way of a reset: codes are fetched once, while the one given is among  *)
(* them; the user is the one found first; before the tokens are answered the *)
(* user's codes are deleted.                                                 *)
ResetGoes(c) ==
    LET records == {k \in code : k.user = call[c].user} IN
    /\ call'[c].step \in ResetSteps \ {"find"}
    /\ call'[c].step = "records" => call[c].step = "find"
    /\ call'[c].step = "update" =>
         /\ call[c].step = "records" /\ code' = code /\ call'[c].user = call[c].user
         /\ call'[c].records = CodeIds(records) /\ call[c].token \in CodeIds(records)
    /\ call'[c].step # "update" => call'[c].records = call[c].records
    /\ call'[c].step = "clear" =>
         call[c].step = "update" /\ code' = code /\ call'[c].user = call[c].user
    /\ call'[c].step = "rotate" =>
         call[c].step = "clear" /\ code' = {k \in code : k.user # call[c].user}
    /\ call'[c].step = "delete" => call[c].step = "rotate" /\ code' = code
    /\ call'[c].step = "commit" => call[c].step = "delete" /\ code' = code
    /\ call'[c].step = "done" =>
         /\ code' = code
         /\ call'[c].status = 201 => call[c].step = "commit"

LEMMA ResetWay ==
  ASSUME Shape, NEW c \in Call, Handle(c), call[c].op = "reset", call[c].step \in ResetSteps
  PROVE  ResetGoes(c)
<1> USE DEF ResetGoes, ResetSteps
<1>1. ResetHandle(c)
  BY ResetHandles
<1>2. CASE ResetFind(c)
  <2>1. call[c].step = "find" /\ code' = code /\ ((\E u : Know(c, u, "records")) \/ Reply(c, 400))
    BY <1>2 DEF ResetFind, At, tables
  <2> QED BY <2>1 DEF Shape, Fields, Know, Reply
<1>3. CASE ResetMatch(c)
  <2> DEFINE records == {k \in code : k.user = call[c].user}
             matched == {k \in records : k.id = call[c].token}
  <2>1. call[c].step = "records" /\ code' = code
    BY <1>3 DEF ResetMatch, At, tables
  <2>2. CASE Reply(c, 400)
    BY <2>1, <2>2 DEF Shape, Fields, Reply
  <2>3. CASE ~Reply(c, 400)
    <3>1. /\ matched # {}
          /\ call' = [call EXCEPT ![c].step = "update", ![c].records = CodeIds(records)]
      BY <1>3, <2>3 DEF ResetMatch, CodeIds
    <3>2. call[c].token \in CodeIds(records)
      BY <3>1 DEF CodeIds
    <3> HIDE DEF records, matched
    <3>3. /\ call'[c].step = "update" /\ call'[c].user = call[c].user
          /\ call'[c].records = CodeIds(records)
      BY <3>1 DEF Shape, Fields
    <3> QED BY <2>1, <3>2, <3>3 DEF records
  <2> QED BY <2>2, <2>3
<1>4. CASE UpdatePassword(c)
  <2>1. call[c].step = "update" /\ code' = code /\ Goto(c, "clear")
    BY <1>4 DEF UpdatePassword
  <2> QED BY <2>1 DEF Shape, Fields, Goto
<1>5. CASE ResetClear(c)
  <2>1. call[c].step = "clear" /\ code' = {k \in code : k.user # call[c].user} /\ Goto(c, "rotate")
    BY <1>5 DEF ResetClear, At
  <2> QED BY <2>1 DEF Shape, Fields, Goto
<1>6. CASE DeleteStarts(c) \/ DeleteEnds(c) \/ CommitSession(c)
  BY <1>6 DEF DeleteStarts, DeleteEnds, CommitSession, tables, Shape, Fields
<1> QED BY <1>1, <1>2, <1>3, <1>4, <1>5, <1>6 DEF ResetHandle

(* Only the comparison fetches codes.                                        *)
LEMMA RecordsKept ==
  ASSUME Shape, NEW c \in Call, Handle(c), ~ResetMatch(c)
  PROVE  call'[c].records = call[c].records
<1>1. ASSUME NEW s, NEW u, Goto(c, s) \/ Know(c, u, s) \/ Reply(c, u) PROVE call'[c].records = call[c].records
  BY <1>1 DEF Shape, Fields, Goto, Know, Reply
<1>2. RegistrationFind(c) \/ RegistrationInsert(c) \/ SaveSession(c) \/ LoginFind(c) \/ ChangeMatch(c)
      => \E s, u : Goto(c, s) \/ Know(c, u, s) \/ Reply(c, u)
  BY DEF RegistrationFind, RegistrationInsert, SaveSession, LoginFind, ChangeMatch
<1>3. UpdatePassword(c) \/ ForgotFind(c) \/ ForgotSave(c) \/ ResetFind(c) \/ ResetClear(c)
      => \E s, u : Goto(c, s) \/ Know(c, u, s) \/ Reply(c, u)
  BY DEF UpdatePassword, ForgotFind, ForgotSave, ResetFind, ResetClear
<1>4. DeleteStarts(c) \/ DeleteEnds(c) \/ CommitSession(c) => call'[c].records = call[c].records
  BY DEF DeleteStarts, DeleteEnds, CommitSession, Shape, Fields
<1>5. BuisnesSave(c) \/ ServicesFind(c) \/ ServicesSave(c) => \E s, u : Goto(c, s) \/ Reply(c, u)
  BY DEF BuisnesSave, ServicesFind, ServicesSave
<1>6. MastersFind(c) \/ MastersServices(c) \/ CreateMasterFind(c) => \E s, u : Goto(c, s) \/ Reply(c, u)
  BY DEF MastersFind, MastersServices, CreateMasterFind
<1>7. CreateMasterInsert(c) => \E s, u : Goto(c, s) \/ Reply(c, u)
  BY ZenonT(60) DEF CreateMasterInsert
<1>8. MastersCommit(c) => \E u : Reply(c, u)
  BY ZenonT(60) DEF MastersCommit
<1> QED BY <1>1, <1>2, <1>3, <1>4, <1>5, <1>6, <1>7, <1>8 DEF Handle, HandleAccount

(* A code is inserted under a name that is given only then.                  *)
LEMMA CodeStep ==
  ASSUME CodeInv, [Next]_vars
  PROVE  \/ code' \subseteq code
         \/ \E c \in Call : /\ c \notin Given /\ c \in Given' /\ ForgotSave(c)
                            /\ code' = code \cup {[id |-> c, user |-> call[c].user, expires |-> now + Ttl]}
<1>1. Shape
  BY DEF CodeInv, PersonInv, CallInv
<1>2. ASSUME NEW c \in Call, ForgotSave(c)
      PROVE  /\ c \notin Given /\ c \in Given'
             /\ code' = code \cup {[id |-> c, user |-> call[c].user, expires |-> now + Ttl]}
  <2>1. call[c].step = "save" /\ call[c].op = "forgot" /\ Reply(c, 200)
    BY <1>2 DEF ForgotSave, At
  <2>2. At(c, "forgot", "done")'
    BY <1>1, <2>1 DEF Shape, Fields, Reply, At
  <2> QED BY <1>2, <2>1, <2>2, AccountsAssumption DEF ForgotSave, Given, At
<1>3. ASSUME NEW c \in Call, Handle(c), ~ForgotSave(c) PROVE code' \subseteq code
  BY <1>3, CodeWriters DEF ResetClear
<1> QED BY <1>2, <1>3, Kinds DEF CodeInv, Ends, tables

LEMMA NextCode == CodeInv /\ [Next]_vars => CodeInv'
<1> SUFFICES ASSUME CodeInv, [Next]_vars PROVE CodeInv'
  OBVIOUS
<1>1. PersonInv' /\ PersonInv /\ Shape
  BY NextPerson DEF CodeInv, PersonInv, CallInv
<1>2. Given \subseteq Given'
  BY GivenGrows
<1>3. CodeIds(code') \subseteq Given' /\ \A k, l \in code' : k.id = l.id => k = l
  <2>1. CASE code' \subseteq code
    BY <1>2, <2>1 DEF CodeInv, CodeIds
  <2>2. ASSUME NEW c \in Call, c \notin Given, c \in Given',
               code' = code \cup {[id |-> c, user |-> call[c].user, expires |-> now + Ttl]}
        PROVE  CodeIds(code') \subseteq Given' /\ \A k, l \in code' : k.id = l.id => k = l
    <3>1. \A k \in code : k.id # c /\ k.id \in Given'
      BY <1>2, <2>2 DEF CodeInv, CodeIds
    <3> QED BY <2>2, <3>1 DEF CodeInv, CodeIds
  <2> QED BY <2>1, <2>2, CodeStep
<1>4. ASSUME NEW c \in Call
      PROVE  /\ call'[c].records \subseteq Given
             /\ call'[c].op # "reset" => call'[c].token = None
             /\ call'[c].op = "reset" => call'[c].step \in ResetSteps
  <2>1. CASE call'[c] = call[c]
    BY <2>1 DEF CodeInv
  <2>2. CASE Handle(c) /\ Keeps(c)
    <3>1. call[c].op = "reset" => ResetGoes(c)
      BY <1>1, <2>2, ResetWay DEF CodeInv
    <3>2. CASE ResetMatch(c)
      <4>1. call[c].op = "reset"
        BY <3>2 DEF ResetMatch, At
      <4> QED BY <2>2, <3>1, <4>1 DEF CodeInv, ResetGoes, CodeIds, Keeps
    <3>3. CASE ~ResetMatch(c)
      BY <1>1, <2>2, <3>1, <3>3, RecordsKept DEF CodeInv, ResetGoes, Keeps
    <3> QED BY <3>2, <3>3
  <2>3. CASE Fresh(c)
    BY <2>3 DEF Fresh, ResetSteps
  <2>4. ASSUME NEW D \in SUBSET Call, Ends(D), c \in D
        PROVE  /\ call'[c].records = call[c].records /\ call'[c].op = call[c].op
               /\ call'[c].token = call[c].token /\ call'[c].step = "done"
    BY <2>4 DEF Ends, Keeps
  <2> QED BY <1>1, <2>1, <2>2, <2>3, <2>4, Kinds DEF Alone, Ends, CodeInv, ResetSteps
<1> QED BY <1>1, <1>2, <1>3, <1>4 DEF CodeInv
Cleared(c) == call[c].op = "reset" /\ (call[c].step \in {"rotate", "delete", "commit"} \/ call[c].status = 201)

(* What makes a spent code useless: the codes a reset has fetched are those  *)
(* of its user, until they are deleted; from then on they are gone for good; *)
(* so a call that comes with one of them never gets past the comparison.     *)
SpentInv ==
    /\ CodeInv
    /\ \A c \in Call : (call[c].op = "reset" /\ call[c].step \in {"update", "clear"}) =>
          \A k \in code : k.id \in call[c].records => k.user = call[c].user
    /\ \A c \in Call : Cleared(c) => call[c].records \cap CodeIds(code) = {}
    /\ spent \subseteq Given /\ spent \cap CodeIds(code) = {}
    /\ \A c \in late : /\ c \in Call /\ call[c].op = "reset" /\ call[c].token \in spent
                       /\ call[c].step \in {"find", "records", "done"}

LEMMA InitSpent == Init => SpentInv
<1> SUFFICES ASSUME Init PROVE SpentInv
  OBVIOUS
<1>1. \A c \in Call : call[c].op = "none"
  BY DEF Init, AccountsInit, Blank
<1>2. spent = {} /\ late = {}
  BY DEF Init
<1> QED BY <1>1, <1>2, InitCode DEF SpentInv, Cleared

LEMMA NextSpent == SpentInv /\ [Next]_vars => SpentInv'
<1> SUFFICES ASSUME SpentInv, [Next]_vars PROVE SpentInv'
  OBVIOUS
<1>1. CodeInv /\ CodeInv' /\ PersonInv /\ Shape /\ Given \subseteq Given'
  BY NextCode, GivenGrows DEF SpentInv, CodeInv, PersonInv, CallInv
<1>2. \A k \in code' : k.id \in Given => k \in code
  BY CodeStep DEF SpentInv
<1>3. ASSUME NEW c \in Call
      PROVE  \/ call'[c] = call[c]
             \/ Handle(c) /\ Keeps(c) /\ (call[c].op = "reset" => ResetGoes(c))
             \/ Fresh(c) /\ call[c].step = "idle"
             \/ Keeps(c) /\ call'[c].step = "done" /\ call'[c].status # 201
  <2>1. Handle(c) /\ call[c].op = "reset" => ResetGoes(c)
    BY <1>1, ResetWay DEF CodeInv
  <2> QED BY <1>1, <2>1, Kinds DEF Alone, Ends
<1>4. ASSUME NEW c \in Call, call'[c].op = "reset", call'[c].step \in {"update", "clear"},
             NEW k \in code', k.id \in call'[c].records
      PROVE  k.user = call'[c].user
  <2>1. k \in code
    <3>1. \A d \in Call : call[d].records \subseteq Given
      BY <1>1 DEF CodeInv
    <3>2. CASE k.id \in Given
      BY <1>2, <3>2
    <3>3. CASE code' = code
      BY <3>3
    <3>4. CASE call'[c] = call[c]
      BY <1>4, <3>1, <3>2, <3>4
    <3>5. CASE Keeps(c) /\ ResetGoes(c)
      BY <1>4, <3>3, <3>5 DEF ResetGoes
    <3>6. ~(Fresh(c) \/ call'[c].step = "done")
      BY <1>4 DEF Fresh
    <3> QED BY <1>3, <1>4, <3>4, <3>5, <3>6 DEF Keeps
  <2>2. CASE call'[c] = call[c]
    BY <1>4, <2>1, <2>2 DEF SpentInv
  <2>3. CASE Keeps(c) /\ ResetGoes(c)
    <3>1. CASE call'[c].step = "update"
      <4>1. PICK l \in code : l.user = call[c].user /\ l.id = k.id
        BY <1>4, <2>3, <3>1 DEF ResetGoes, CodeIds
      <4> QED BY <1>1, <2>1, <2>3, <3>1, <4>1 DEF CodeInv, ResetGoes
    <3>2. CASE call'[c].step = "clear"
      BY <1>4, <2>1, <2>3, <3>2 DEF SpentInv, ResetGoes, Keeps
    <3> QED BY <1>4, <3>1, <3>2
  <2>4. ~(Fresh(c) \/ call'[c].step = "done")
    BY <1>4 DEF Fresh
  <2> QED BY <1>3, <1>4, <2>2, <2>3, <2>4 DEF Keeps
<1>5. ASSUME NEW c \in Call, Cleared(c)' PROVE call'[c].records \cap CodeIds(code') = {}
  <2>1. CASE Cleared(c) /\ call'[c].records = call[c].records
    <3>1. call[c].records \subseteq Given /\ call[c].records \cap CodeIds(code) = {}
      BY <1>1, <2>1 DEF SpentInv, CodeInv
    <3> QED BY <1>2, <2>1, <3>1 DEF CodeIds
  <2>2. CASE call'[c] = call[c]
    BY <1>5, <2>1, <2>2 DEF Cleared
  <2>3. CASE Keeps(c) /\ ResetGoes(c)
    <3>1. call[c].op = "reset" /\ call'[c].step \in {"rotate", "delete", "commit", "done"}
      <4>1. call'[c].status = 201 => call'[c].step \in {"idle", "done"}
        BY <1>1 DEF CodeInv, PersonInv, Open
      <4> QED BY <1>5, <2>3, <4>1 DEF Cleared, Keeps, ResetGoes, ResetSteps
    <3>2. CASE call'[c].step = "rotate"
      <4>1. /\ call[c].step = "clear" /\ call'[c].records = call[c].records
            /\ code' = {k \in code : k.user # call[c].user}
        BY <2>3, <3>2 DEF ResetGoes
      <4>2. \A k \in code : k.id \in call[c].records => k.user = call[c].user
        BY <3>1, <4>1 DEF SpentInv
      <4> QED BY <4>1, <4>2 DEF CodeIds
    <3>3. CASE call'[c].step # "rotate"
      <4>1. call'[c].records = call[c].records
        BY <2>3, <3>1 DEF ResetGoes
      <4>2. Cleared(c)
        BY <1>5, <2>3, <3>1, <3>3 DEF ResetGoes, Cleared
      <4> QED BY <2>1, <4>1, <4>2
    <3> QED BY <3>2, <3>3
  <2>4. ~Fresh(c)
    BY <1>5 DEF Fresh, Cleared
  <2>5. ~(call'[c].step = "done" /\ call'[c].status # 201)
    BY <1>5 DEF Cleared
  <2> QED BY <1>3, <1>5, <2>2, <2>3, <2>4, <2>5 DEF Cleared, Keeps
<1>6. spent' \subseteq Given' /\ spent' \cap CodeIds(code') = {}
  <2>1. spent \subseteq Given' /\ spent \cap CodeIds(code') = {}
    BY <1>1, <1>2 DEF SpentInv, CodeIds
  <2>2. ASSUME NEW c \in Call, call[c].op = "reset", call'[c].status = 201
        PROVE  call'[c].records \subseteq Given' /\ call'[c].records \cap CodeIds(code') = {}
    <3>1. call[c].step # "idle"
      BY <1>1, <2>2 DEF CodeInv, ResetSteps
    <3>2. call'[c].op = "reset"
      BY <1>3, <2>2, <3>1 DEF Keeps
    <3> QED BY <1>1, <1>5, <2>2, <3>2 DEF Cleared, CodeInv
  <2>3. \A x \in spent' : x \in spent \/ \E c \in Call : /\ call[c].op = "reset" /\ call'[c].status = 201
                                                         /\ x \in call'[c].records
    <3>1. Next => spent' = spent \cup UNION {call'[c].records : c \in {d \in Call :
                                              call[d].op = "reset" /\ call'[d].status = 201}}
      BY DEF Next, Observe
    <3>2. UNCHANGED vars => spent' = spent
      BY DEF vars, history
    <3> QED BY <3>1, <3>2
  <2> QED BY <2>1, <2>2, <2>3
<1>7. ASSUME NEW c \in late'
      PROVE  /\ c \in Call /\ call'[c].op = "reset" /\ call'[c].token \in spent'
             /\ call'[c].step \in {"find", "records", "done"}
  <2>1. c \in late \/ (c \in Call /\ call[c].step = "idle" /\ call'[c].token \in spent)
    BY <1>7 DEF Next, Observe, vars, history
  <2>2. spent \subseteq spent'
    BY DEF Next, Observe, vars, history
  <2>3. CASE c \in late
    <3>1. /\ c \in Call /\ call[c].op = "reset" /\ call[c].token \in spent
          /\ call[c].step \in {"find", "records", "done"}
      BY <2>3 DEF SpentInv
    <3>2. CASE call'[c] = call[c]
      BY <2>2, <3>1, <3>2
    <3>3. CASE Keeps(c) /\ ResetGoes(c)
      <4>1. call[c].token \notin CodeIds(code)
        BY <3>1 DEF SpentInv
      <4>2. call'[c].step # "update"
        BY <3>3, <4>1 DEF ResetGoes, CodeIds
      <4>3. call'[c].step \in {"records", "done"}
        BY <3>1, <3>3, <4>2 DEF ResetGoes, ResetSteps
      <4> QED BY <2>2, <3>1, <3>3, <4>3 DEF Keeps
    <3>4. CASE Keeps(c) /\ call'[c].step = "done"
      BY <2>2, <3>1, <3>4 DEF Keeps
    <3> QED BY <1>3, <3>1, <3>2, <3>3, <3>4
  <2>4. CASE c \in Call /\ call[c].step = "idle" /\ call'[c].token \in spent
    <3>1. call'[c].token # None
      BY <2>4, AccountsAssumption DEF SpentInv, Given
    <3>2. call'[c].op = "reset"
      BY <1>1, <2>4, <3>1 DEF CodeInv
    <3>3. call[c].op # "reset"
      BY <1>1, <2>4 DEF CodeInv, ResetSteps
    <3>4. Fresh(c)
      BY <1>3, <2>4, <3>2, <3>3 DEF Keeps
    <3> QED BY <2>2, <2>4, <3>2, <3>4 DEF Fresh
  <2> QED BY <2>1, <2>3, <2>4
<1> QED BY <1>1, <1>4, <1>5, <1>6, <1>7 DEF SpentInv

(* An answered reset spends its code and the user's older ones for good,     *)
(* though two resets may be under way at once, codes are deleted long after  *)
(* the comparison, and new ones are asked for meanwhile.                     *)
THEOREM SpentCodesRefused == Spec => []SpentCodeRefused
<1>1. SpentInv => SpentCodeRefused
  BY DEF SpentInv, SpentCodeRefused
<1>2. Spec => []SpentInv
  BY InitSpent, NextSpent, PTL DEF Spec
<1> QED BY <1>1, <1>2, PTL
---------------------------------------------------------------------------
(* Refusals.                                                               *)

Refusals == {400, 401, 403, 404, 409}

(* The reason for a refusal is noted while the call is open; what makes the  *)
(* handlers find it: names of codes and services are unique, a reset looks   *)
(* at the codes of the account its email is about.                           *)
GroundInv ==
    /\ CodeInv
    /\ \A c \in Call : Open(c) /\ Reason(c) => ground[c]
    /\ RefusalJustified
    /\ \A c \in Call : At(c, "reset", "records") =>
          \E r \in account : r.id = call[c].user /\ r.email = call[c].email
    /\ \A r, s \in service : r.id = s.id => r = s
    /\ \A s \in service : s.id \in {Seed, None} \/ (s.id \in Call /\ At(s.id, "service", "done"))
    /\ \A c \in Call : call[c].op = "master" => call[c].services \in Seq(Name \cup {None})

(* An account is found by its email if and only if it is that person's.      *)
LEMMA SamePerson ==
  ASSUME PersonInv, NEW c \in Call, call[c].op \in ByEmail, NEW r \in account
  PROVE  r.email.person = call[c].email.person <=> r.email = call[c].email
<1>1. r.email \in Canonical /\ call[c].email \in Canonical
  BY DEF PersonInv, Rows, CallInv
<1> QED BY <1>1 DEF Canonical, Email

(* A list of distinct services of the salon is as long as what is found.     *)
LEMMA ListFound ==
  ASSUME NEW c \in Call, call[c].services \in Seq(Name \cup {None}), ~Twice(call[c].services),
         \A r, s \in service : r.id = s.id => r = s,
         \A i \in DOMAIN call[c].services :
            \E s \in service : s.id = call[c].services[i] /\ s.salon = call[c].salon
  PROVE  Cardinality(FoundServices(c)) = Len(call[c].services)
<1> DEFINE ids == call[c].services
           n == Len(ids)
           f == [i \in 1 .. n |-> CHOOSE s \in FoundServices(c) : s.id = ids[i]]
<1>1. n \in Nat /\ DOMAIN ids = 1 .. n
  OBVIOUS
<1>2. ASSUME NEW i \in 1 .. n PROVE f[i] \in FoundServices(c) /\ f[i].id = ids[i]
  <2>1. \E s \in FoundServices(c) : s.id = ids[i]
    BY <1>1 DEF FoundServices, ListedServices
  <2> QED BY <2>1
<1>3. ASSUME NEW s \in FoundServices(c) PROVE \E i \in 1 .. n : f[i] = s
  <2>1. PICK i \in 1 .. n : s.id = ids[i]
    BY <1>1 DEF FoundServices, ListedServices
  <2>2. f[i] \in service /\ s \in service /\ f[i].id = s.id
    BY <1>2, <2>1 DEF FoundServices
  <2> QED BY <2>2
<1>4. ASSUME NEW i \in 1 .. n, NEW j \in 1 .. n, f[i] = f[j] PROVE i = j
  <2> HIDE DEF f
  <2>1. ids[i] = ids[j]
    BY <1>2, <1>4
  <2> QED BY <1>1, <2>1 DEF Twice
<1>5. f \in Bijection(1 .. n, FoundServices(c))
  <2> HIDE DEF n
  <2>1. f \in [1 .. n -> FoundServices(c)]
    BY <1>2
  <2> HIDE DEF f
  <2> QED BY <1>3, <1>4, <2>1 DEF Bijection, Injection, IsInjective, Surjection
<1> HIDE DEF f, n
<1>6. ExistsBijection(1 .. n, FoundServices(c))
  BY <1>5 DEF ExistsBijection
<1>7. Cardinality(FoundServices(c)) = n
  BY <1>1, <1>6, FS_CountingElements
<1> QED BY <1>7 DEF n
(* Whatever a handler refuses, it has its reason just then.                  *)
LEMMA Refusing ==
  ASSUME GroundInv, NEW c \in Call, Handle(c), call'[c].status \in Refusals
  PROVE  Reason(c)
<1> USE DEF Refusals
<1>1. Shape /\ PersonInv /\ CodeInv /\ call[c].status = 0
  BY HandlesOpen DEF GroundInv, CodeInv, PersonInv, CallInv
<1>2. /\ \A s : ~Goto(c, s)
      /\ \A s, u : ~Know(c, u, s)
      /\ \A u : Reply(c, u) => u \in Refusals
  BY <1>1 DEF Shape, Fields, Goto, Know, Reply
<1>3. CASE RegistrationFind(c) \/ CreateMasterFind(c)
  <2>1. call[c].op \in {"registration", "master"} /\ Row(call[c].email) # {}
    BY <1>2, <1>3 DEF RegistrationFind, CreateMasterFind, At
  <2>2. Taken(c)
    BY <2>1 DEF Row, Taken
  <2> QED BY <2>1, <2>2 DEF Reason
<1>4. CASE LoginFind(c)
  <2>1. call[c].op = "login" /\ \A r \in Row(call[c].email) : r.password # call[c].password
    BY <1>2, <1>4 DEF LoginFind, At
  <2>2. \A r \in account : r.email.person = call[c].email.person => r.password # call[c].password
    BY <1>1, <2>1, SamePerson DEF Row, ByEmail
  <2> QED BY <2>1, <2>2 DEF Reason
<1>5. CASE ChangeMatch(c)
  BY <1>2, <1>5 DEF ChangeMatch, At, Reason
<1>6. CASE ResetFind(c)
  <2>1. call[c].op = "reset" /\ Row(call[c].email) = {}
    BY <1>2, <1>6 DEF ResetFind, At
  <2>2. \A r \in account : r.email.person # call[c].email.person
    BY <1>1, <2>1, SamePerson DEF Row, ByEmail
  <2> QED BY <2>1, <2>2 DEF Reason
<1>7. CASE ResetMatch(c)
  <2> DEFINE matched == {k \in code : k.user = call[c].user /\ k.id = call[c].token}
  <2>1. At(c, "reset", "records") /\ (matched = {} \/ \E k \in matched : Expired(k))
    <3>1. matched = {k \in {l \in code : l.user = call[c].user} : k.id = call[c].token}
      OBVIOUS
    <3>2. ASSUME NEW R, call' = [call EXCEPT ![c].step = "update", ![c].records = R] PROVE FALSE
      BY <1>1, <3>2 DEF Shape, Fields
    <3> QED BY <1>7, <3>1, <3>2 DEF ResetMatch
  <2>2. ASSUME NEW k \in code, NEW r \in account, r.email.person = call[c].email.person,
               k.user = r.id, k.id = call[c].token, ~Expired(k)
        PROVE  FALSE
    <3>1. r.email = call[c].email
      BY <1>1, <2>1, <2>2, SamePerson DEF ByEmail, At
    <3>2. r.id = call[c].user
      BY <1>1, <2>1, <3>1 DEF GroundInv, PersonInv, Distinct
    <3>3. k \in matched
      BY <2>2, <3>2
    <3>4. PICK l \in matched : Expired(l)
      BY <2>1, <3>3
    <3>5. l = k
      BY <1>1, <3>3, <3>4 DEF CodeInv
    <3> QED BY <2>2, <3>4, <3>5
  <2> QED BY <2>1, <2>2 DEF Reason, At
<1>8. CASE BuisnesSave(c)
  BY <1>2, <1>8 DEF BuisnesSave, At, Reason
<1>9. CASE ServicesFind(c)
  BY <1>2, <1>9 DEF ServicesFind, At, Reason
<1>10. CASE MastersFind(c)
  BY <1>2, <1>10 DEF MastersFind, At, Reason
<1>11. CASE MastersServices(c)
  <2>1. call[c].op = "master" /\ Cardinality(FoundServices(c)) # Len(call[c].services)
    BY <1>2, <1>11 DEF MastersServices, At
  <2>2. \/ Twice(call[c].services)
        \/ \E i \in DOMAIN call[c].services :
             ~\E s \in service : s.id = call[c].services[i] /\ s.salon = call[c].salon
    BY <2>1, ListFound DEF GroundInv
  <2> QED BY <2>1, <2>2 DEF Reason
<1>12. ASSUME NEW u, Reply(c, u), u \in {200, 201, 500} PROVE FALSE
  BY <1>2, <1>12
<1>13. ~RegistrationInsert(c) /\ ~SaveSession(c) /\ ~ForgotFind(c) /\ ~ForgotSave(c)
  BY <1>2, <1>12 DEF RegistrationInsert, SaveSession, ForgotFind, ForgotSave
<1>14. ~UpdatePassword(c) /\ ~ResetClear(c) /\ ~ServicesSave(c)
  BY <1>2, <1>12 DEF UpdatePassword, ResetClear, ServicesSave
<1>15. ~CreateMasterInsert(c) /\ ~MastersCommit(c)
  <2>1. CreateMasterInsert(c) => Reply(c, 500) \/ \E s : Goto(c, s)
    BY ZenonT(60) DEF CreateMasterInsert
  <2>2. MastersCommit(c) => Reply(c, 201)
    BY DEF MastersCommit
  <2> QED BY <1>2, <1>12, <2>1, <2>2
<1>16. ~DeleteStarts(c) /\ ~DeleteEnds(c) /\ ~CommitSession(c)
  BY <1>1 DEF DeleteStarts, DeleteEnds, CommitSession, Shape, Fields
<1> QED BY <1>3, <1>4, <1>5, <1>6, <1>7, <1>8, <1>9, <1>10, <1>11, <1>13, <1>14, <1>15, <1>16
        DEF Handle, HandleAccount
LEMMA InitGround == Init => GroundInv
<1> SUFFICES ASSUME Init PROVE GroundInv
  OBVIOUS
<1>1. \A c \in Call : call[c] = Blank
  BY DEF Init, AccountsInit
<1>2. service = {[id |-> b, salon |-> b] : b \in {Seed, None}}
  BY DEF Init
<1>3. \A r \in service : r.id = r.salon /\ r.id \in {Seed, None}
  BY <1>2
<1>4. \A r, s \in service : r.id = s.id => r = s
  BY <1>2
<1> QED BY <1>1, <1>3, <1>4, InitCode DEF GroundInv, Blank, Open, At, RefusalJustified

(* Accounts keep their ids and emails.                                       *)
LEMMA RowsRemain ==
  ASSUME PersonInv, [Next]_vars, NEW r \in account
  PROVE  \E s \in account' : s.id = r.id /\ s.email = r.email
<1>1. ASSUME NEW c \in Call, UpdatePassword(c) PROVE \E s \in account' : s.id = r.id /\ s.email = r.email
  <2> DEFINE f(x) == IF x.id = call[c].user THEN [x EXCEPT !.password = c] ELSE x
  <2>1. account' = {f(x) : x \in account}
    BY <1>1 DEF UpdatePassword
  <2>2. f(r).id = r.id /\ f(r).email = r.email
    BY DEF PersonInv, Rows
  <2>3. f(r) \in account'
    BY <2>1
  <2> HIDE DEF f
  <2> QED BY <2>2, <2>3
<1>2. ASSUME NEW c \in Call, Handle(c), ~UpdatePassword(c) PROVE r \in account'
  BY <1>2, Writers DEF RegistrationInsert, CreateMasterInsert, MastersCommit
<1> QED BY <1>1, <1>2, Kinds DEF Ends, tables

(* A service is inserted under the name of the call that makes it.           *)
LEMMA ServiceStep ==
  ASSUME PersonInv, [Next]_vars
  PROVE  \/ service' = service
         \/ \E c \in Call : /\ call[c].step = "save" /\ At(c, "service", "done")'
                            /\ service' = service \cup {[id |-> c, salon |-> call[c].salon]}
<1>1. Shape
  BY DEF PersonInv, CallInv
<1>2. ASSUME NEW c \in Call, ServicesSave(c)
      PROVE  /\ call[c].step = "save" /\ At(c, "service", "done")'
             /\ service' = service \cup {[id |-> c, salon |-> call[c].salon]}
  BY <1>1, <1>2 DEF ServicesSave, At, Reply, Shape, Fields
<1>3. ASSUME NEW c \in Call, Handle(c), ~ServicesSave(c) PROVE service' = service
  BY <1>3 DEF salonVars, Handle, BuisnesSave, ServicesFind, MastersFind, MastersServices,
              CreateMasterFind, CreateMasterInsert, MastersCommit
<1> QED BY <1>2, <1>3, Kinds DEF Ends, salonVars

LEMMA NextGround == GroundInv /\ [Next]_vars => GroundInv'
<1> SUFFICES ASSUME GroundInv, [Next]_vars PROVE GroundInv'
  OBVIOUS
<1>1. CodeInv' /\ CodeInv /\ PersonInv /\ Shape
  BY NextCode DEF GroundInv, CodeInv, PersonInv, CallInv
<1>2. ASSUME NEW c \in Call
      PROVE  (ground[c] => ground'[c]) /\ (Open(c)' /\ Reason(c)' => ground'[c])
  <2>1. Next => ground'[c] = (ground[c] \/ (Open(c)' /\ Reason(c)'))
    BY DEF Next, Observe
  <2>2. UNCHANGED vars => ground' = ground /\ (Open(c)' <=> Open(c)) /\ (Reason(c)' <=> Reason(c))
    BY DEF vars, accountVars, tables, salonVars, history, Open, Reason, Taken, Expired, Owner, OwnSalon
  <2>3. Open(c) /\ Reason(c) => ground[c]
    BY DEF GroundInv
  <2> QED BY <2>1, <2>2, <2>3
<1>3. ASSUME NEW c \in Call, call'[c].status \in Refusals PROVE ground'[c] \/ call'[c].op = "refresh"
  <2>1. call[c].status \in Refusals => ground[c] \/ call[c].op = "refresh"
    BY DEF GroundInv, RefusalJustified, Refusals
  <2>2. CASE call'[c] = call[c]
    BY <1>2, <1>3, <2>1, <2>2
  <2>3. CASE Handle(c)
    <3>1. Open(c) /\ Reason(c)
      BY <1>3, <2>3, Refusing, HandlesOpen
    <3> QED BY <1>2, <3>1 DEF GroundInv
  <2>4. ~Fresh(c)
    BY <1>3 DEF Fresh, Refusals
  <2>5. ASSUME UNCHANGED salonVars, (\E d \in Call : Fail(d)) \/ Crash, call'[c] # call[c]
        PROVE  call[c].op = "refresh" /\ call'[c].op = call[c].op
    <3>1. CASE Crash
      <4>1. Open(c) /\ call[c].status = 0
        BY <1>1, <2>5, <3>1 DEF Crash, PersonInv
      <4>2. call'[c].status = 0
        BY <1>1, <3>1, <4>1 DEF Crash, Shape, Fields
      <4> QED BY <1>3, <4>2 DEF Refusals
    <3>2. ASSUME NEW d \in Call, Fail(d) PROVE call[c].op = "refresh" /\ call'[c].op = call[c].op
      <4>1. d = c
        BY <1>1, <2>5, <3>2 DEF Fail, Shape
      <4>2. call'[c].op = call[c].op /\ call'[c].status = IF call[c].op = "refresh" THEN 401 ELSE 500
        BY <1>1, <3>2, <4>1 DEF Fail, Shape, Fields
      <4> QED BY <1>3, <4>2 DEF Refusals
    <3> QED BY <2>5, <3>1, <3>2
  <2>6. ASSUME NEW d \in Call, Handle(d) \/ ReceiveAny(d), call'[c] # call[c]
        PROVE  (Handle(c) \/ Fresh(c))
    BY <1>1, <2>6, Handling, Arriving DEF Alone
  <2>7. CleanExpiredTokens \/ Tick \/ UNCHANGED vars => call' = call
    BY DEF CleanExpiredTokens, Tick, vars, accountVars
  <2> QED BY <2>2, <2>3, <2>4, <2>5, <2>6, <2>7 DEF Next
<1>4. ASSUME NEW c \in Call, At(c, "reset", "records")'
      PROVE  \E s \in account' : s.id = call'[c].user /\ s.email = call'[c].email
  <2>1. CASE call'[c] = call[c]
    BY <1>1, <1>4, <2>1, RowsRemain DEF GroundInv, At
  <2>2. CASE Handle(c) /\ Keeps(c)
    <3>1. call[c].op = "reset" /\ ResetGoes(c) /\ ResetHandle(c)
      BY <1>1, <1>4, <2>2, ResetWay, ResetHandles DEF CodeInv, Keeps, At
    <3>2. call[c].step = "find"
      BY <1>4, <3>1 DEF ResetGoes, At
    <3>3. ResetFind(c)
      BY <3>1, <3>2 DEF ResetHandle, ResetMatch, UpdatePassword, ResetClear, DeleteStarts, DeleteEnds,
                        CommitSession, At
    <3>4. PICK r \in Row(call[c].email) : Know(c, r.id, "records")
      BY <1>1, <1>4, <3>3 DEF ResetFind, Reply, Shape, Fields, At
    <3>5. call'[c].user = r.id /\ call'[c].email = call[c].email
      BY <1>1, <3>4 DEF Know, Shape, Fields
    <3> QED BY <1>1, <3>4, <3>5, RowsRemain DEF Row
  <2>3. ~Fresh(c) /\ call'[c].step # "done"
    BY <1>4 DEF Fresh, At
  <2> QED BY <1>1, <2>1, <2>2, <2>3, Kinds DEF Alone, Ends
<1>5. /\ \A r, s \in service' : r.id = s.id => r = s
      /\ \A s \in service' : s.id \in {Seed, None} \/ (s.id \in Call /\ At(s.id, "service", "done")')
  <2>1. ASSUME NEW s \in service PROVE s.id \in {Seed, None} \/ (s.id \in Call /\ At(s.id, "service", "done")')
    BY <1>1, DoneStays DEF GroundInv, At
  <2>2. CASE service' = service
    BY <2>1, <2>2 DEF GroundInv
  <2>3. ASSUME NEW c \in Call, call[c].step = "save", At(c, "service", "done")',
               service' = service \cup {[id |-> c, salon |-> call[c].salon]}
        PROVE  /\ \A r, s \in service' : r.id = s.id => r = s
               /\ \A s \in service' : s.id \in {Seed, None} \/ (s.id \in Call /\ At(s.id, "service", "done")')
    <3>1. \A s \in service : s.id # c
      BY <2>3, AccountsAssumption DEF GroundInv, At
    <3> QED BY <2>1, <2>3, <3>1 DEF GroundInv
  <2> QED BY <1>1, <2>2, <2>3, ServiceStep
<1>6. ASSUME NEW c \in Call, call'[c].op = "master" PROVE call'[c].services \in Seq(Name \cup {None})
  <2>1. CASE call'[c] = call[c]
    BY <1>6, <2>1 DEF GroundInv
  <2>2. CASE Keeps(c)
    BY <1>6, <2>2 DEF GroundInv, Keeps
  <2>3. CASE Fresh(c)
    <3>1. call'[c].services \in Lists
      BY <1>6, <2>3 DEF Fresh
    <3>2. {s.id : s \in service} \subseteq Name \cup {None}
      BY DEF GroundInv, Name
    <3>3. PICK n \in 1 .. 2 : call'[c].services \in [1 .. n -> {s.id : s \in service}]
      BY <3>1 DEF Lists
    <3>4. call'[c].services \in Seq({s.id : s \in service})
      BY <3>3
    <3> QED BY <3>2, <3>4
  <2> QED BY <1>1, <2>1, <2>2, <2>3, Kinds DEF Alone, Ends
<1> QED BY <1>1, <1>2, <1>3, <1>4, <1>5, <1>6 DEF GroundInv, RefusalJustified, Refusals

(* Whoever is refused could have been refused for good reason at some time   *)
(* of his call, though what speaks for or against him is read in several     *)
(* steps while others register, change passwords and delete codes.           *)
THEOREM RefusalsJustified == Spec => []RefusalJustified
<1>1. GroundInv => RefusalJustified
  BY DEF GroundInv
<1>2. Spec => []GroundInv
  BY InitGround, NextGround, PTL DEF Spec
<1> QED BY <1>1, <1>2, PTL
=============================================================================
