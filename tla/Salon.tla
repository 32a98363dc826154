------------------------------- MODULE Salon -------------------------------
(* The owner's calls - salons, services and masters, whose accounts are made *)
(* in the transaction that makes the master - composed with Accounts, and    *)
(* the properties of both.                                                   *)
EXTENDS Accounts, Sequences

CONSTANT Plans   \* bound: which operations meet, as functions from Call

Operation == {"registration", "login", "change", "forgot", "reset", "refresh",
              "salon", "service", "master"}

ASSUME PlansAssumption == Plans \subseteq [Call -> Operation]

VARIABLES
    salon,      \* rows of buisnes_entity
    service,    \* rows of services_entity
    master,     \* rows of master_entity, with their services
    ground,     \* history: the reason to refuse a call was there while it was open
    raced,      \* history: the call opened a session while another did for that user
    spent,      \* history: codes an answered reset has found
    late        \* history: calls that came with a spent code

salonVars == <<salon, service, master>>
history   == <<ground, raced, spent, late>>
vars      == <<accountVars, salonVars, history>>

(* CreateMasterDto; a service of a salon may be listed twice.                *)
CreateMasterDtoAsTyped(e) == e                                     \* faulty
CreateMasterDto(e) == NormalizeEmail(e)

Lists == UNION {[1 .. n -> {s.id : s \in service}] : n \in 1 .. 2}

(* The guard has read the role; only owners get further (403 for a master).  *)
Owner(u) == \E r \in account : r.id = u /\ r.role = "owner"
OwnSalon(b, u) == \E x \in salon : x.id = b /\ x.owner = u

Ask(op, u) == [op |-> op, step |-> "find", email |-> None, password |-> None, token |-> None,
               user |-> u, records |-> {}, victims |-> {}, status |-> 0, salon |-> None,
               services |-> << >>]

---------------------------------------------------------------------------
(* buisnes_create and services_create.                                     *)

BuisnesCreate(c) ==
    \E r \in account : Receive(c, Ask("salon", r.id)) /\ UNCHANGED salonVars

BuisnesSave(c) ==
    /\ At(c, "salon", "find")
    /\ IF ~Owner(call[c].user)
       THEN Reply(c, 403) /\ UNCHANGED salon
       ELSE Reply(c, 201) /\ salon' = salon \cup {[id |-> c, owner |-> call[c].user]}
    /\ UNCHANGED <<tables, service, master>>

ServicesCreate(c) ==
    \E r \in account, x \in salon :
       Receive(c, [Ask("service", r.id) EXCEPT !.salon = x.id]) /\ UNCHANGED salonVars

(* 403 for a master, 404 for someone else's salon.                           *)
ServicesFind(c) ==
    /\ At(c, "service", "find")
    /\ CASE ~Owner(call[c].user) -> Reply(c, 403)
         [] Owner(call[c].user) /\ ~OwnSalon(call[c].salon, call[c].user) -> Reply(c, 404)
         [] OTHER -> Goto(c, "save")
    /\ UNCHANGED <<tables, salonVars>>

ServicesSave(c) ==
    /\ At(c, "service", "save")
    /\ service' = service \cup {[id |-> c, salon |-> call[c].salon]}
    /\ Reply(c, 201)
    /\ UNCHANGED <<tables, salon, master>>

---------------------------------------------------------------------------
(* master_login hands the call to login: owners and masters sign in alike. *)

MasterLogin(c) == Login(c)

---------------------------------------------------------------------------
(* masters_create.                                                         *)

MastersCreate(c) ==
    \E r \in account, x \in salon, e \in Email, ids \in Lists :
       /\ Receive(c, [Ask("master", r.id) EXCEPT !.salon = x.id, !.services = ids,
                                                 !.email = CreateMasterDto(e)])
       /\ UNCHANGED salonVars

MastersFind(c) ==
    /\ At(c, "master", "find")
    /\ CASE ~Owner(call[c].user) -> Reply(c, 403)
         [] Owner(call[c].user) /\ ~OwnSalon(call[c].salon, call[c].user) -> Reply(c, 404)
         [] OTHER -> Goto(c, "services")
    /\ UNCHANGED <<tables, salonVars>>

(* In(ids) within the salon; the length of the list must come back.          *)
ListedServices(c) == {call[c].services[i] : i \in DOMAIN call[c].services}
FindAnywhere(c) == {s \in service : s.id \in ListedServices(c)}    \* faulty
FoundServices(c) == {s \in service : s.id \in ListedServices(c) /\ s.salon = call[c].salon}

MastersServices(c) ==
    /\ At(c, "master", "services")
    /\ IF Cardinality(FoundServices(c)) # Len(call[c].services)
       THEN Reply(c, 404) ELSE Goto(c, "account")
    /\ UNCHANGED <<tables, salonVars>>

(* createMaster, with the transaction's manager: find, then INSERT, which    *)
(* stays uncommitted until the master is there too.                          *)
CreateMasterFind(c) ==
    /\ At(c, "master", "account")
    /\ IF Row(call[c].email) # {} THEN Reply(c, 409) ELSE Goto(c, "insert")
    /\ UNCHANGED <<tables, salonVars>>

(* Faulty: the repository of the service, not that of the manager.           *)
CreateMasterAtOnce(c) ==
    /\ At(c, "master", "insert")
    /\ \A r \in draft : r.email # call[c].email
    /\ IF Row(call[c].email) # {}
       THEN Reply(c, 500) /\ UNCHANGED account
       ELSE Goto(c, "commit master") /\ account' = account \cup {AccountRow(c, "master")}
    /\ UNCHANGED <<draft, session, code, salonVars>>

CreateMasterInsert(c) ==
    /\ At(c, "master", "insert")
    /\ \A r \in draft : r.email # call[c].email
    /\ IF Row(call[c].email) # {}
       THEN Reply(c, 500) /\ UNCHANGED draft
       ELSE Goto(c, "commit master") /\ draft' = draft \cup {AccountRow(c, "master")}
    /\ UNCHANGED <<account, session, code, salonVars>>

MastersCommit(c) ==
    /\ At(c, "master", "commit master")
    /\ account' = account \cup {r \in draft : r.id = c}
    /\ draft' = {r \in draft : r.id # c}
    /\ master' = master \cup {[auth |-> c, salon |-> call[c].salon,
                               services |-> {s.id : s \in FoundServices(c)}]}
    /\ Reply(c, 201)
    /\ UNCHANGED <<session, code, salon, service>>

---------------------------------------------------------------------------
(* Both together.                                                          *)

Handle(c) ==
    /\ \/ HandleAccount(c) /\ UNCHANGED salonVars
       \/ BuisnesSave(c) \/ ServicesFind(c) \/ ServicesSave(c)
       \/ MastersFind(c) \/ MastersServices(c)
       \/ CreateMasterFind(c) \/ CreateMasterInsert(c) \/ MastersCommit(c)
    /\ UNCHANGED <<now, faults>>

Asks(c, op) ==
    \E p \in Plans : p[c] = op /\ \A d \in Call \ {c} : call[d].op \in {"none", p[d]}

ReceiveAny(c) ==
    /\ \/ /\ \/ Asks(c, "registration") /\ Registration(c)
             \/ Asks(c, "login") /\ (Login(c) \/ MasterLogin(c))
             \/ Asks(c, "change") /\ ChangePassword(c)
             \/ Asks(c, "forgot") /\ ForgotPassword(c)
             \/ Asks(c, "reset") /\ ChangeForgotten(c)
             \/ Asks(c, "refresh") /\ Refresh(c)
          /\ UNCHANGED salonVars
       \/ Asks(c, "salon") /\ BuisnesCreate(c)
       \/ Asks(c, "service") /\ ServicesCreate(c)
       \/ Asks(c, "master") /\ MastersCreate(c)
    /\ UNCHANGED <<now, faults>>

(* What would justify refusing call c: its email is taken; nobody has that   *)
(* email and password; the code is not a good one of that account; no        *)
(* rights, not the caller's salon, or a list of services that is not one of  *)
(* distinct services of the salon.                                           *)
Twice(s) == \E i, j \in DOMAIN s : i # j /\ s[i] = s[j]
Taken(c) == \E r \in account : r.email.person = call[c].email.person
Reason(c) ==
    CASE call[c].op = "registration" -> Taken(c)
      [] call[c].op = "login" ->
           ~\E r \in account : r.email.person = call[c].email.person /\ r.password = call[c].password
      [] call[c].op = "change" -> ~\E r \in account : r.id = call[c].user /\ r.password = call[c].password
      [] call[c].op = "reset" ->
           ~\E k \in code, r \in account : /\ r.email.person = call[c].email.person
                                           /\ k.user = r.id /\ k.id = call[c].token /\ ~Expired(k)
      [] call[c].op \in {"salon", "service"} ->
           ~Owner(call[c].user) \/ (call[c].op = "service" /\ ~OwnSalon(call[c].salon, call[c].user))
      [] call[c].op = "master" ->
           \/ ~Owner(call[c].user) \/ ~OwnSalon(call[c].salon, call[c].user)
           \/ Twice(call[c].services) \/ Taken(c)
           \/ \E i \in DOMAIN call[c].services :
                 ~\E s \in service : s.id = call[c].services[i] /\ s.salon = call[c].salon
      [] OTHER -> FALSE

OpensSession(c) == call[c].step \in {"session", "rotate", "delete", "commit"}
Meets(c) == OpensSession(c) /\ \E d \in Call \ {c} : OpensSession(d) /\ call[d].user = call[c].user

Observe ==
    /\ ground' = [c \in Call |-> ground[c] \/ (Open(c)' /\ Reason(c)')]
    /\ raced'  = [c \in Call |-> raced[c] \/ Meets(c)']
    /\ spent'  = spent \cup UNION {call'[c].records : c \in {d \in Call :
                                     call[d].op = "reset" /\ call'[d].status = 201}}
    /\ late'   = late \cup {c \in Call : call[c].step = "idle" /\ call'[c].token \in spent}

Init ==
    /\ AccountsInit
    /\ salon = {[id |-> b, owner |-> Seed] : b \in {Seed, None}}
    /\ service = {[id |-> b, salon |-> b] : b \in {Seed, None}}
    /\ master = {}
    /\ ground = [c \in Call |-> FALSE] /\ raced = [c \in Call |-> FALSE]
    /\ spent = {} /\ late = {}

Next ==
    /\ \/ \E c \in Call : ReceiveAny(c) \/ Handle(c)
       \/ ((\E c \in Call : Fail(c)) \/ Crash \/ CleanExpiredTokens \/ Tick) /\ UNCHANGED salonVars
    /\ Observe

Spec == Init /\ [][Next]_vars

(* Handlers run on, Postgres answers.                                        *)
FairSpec ==
    /\ Spec
    /\ \A c \in Call : WF_vars(Handle(c) /\ Observe)

---------------------------------------------------------------------------
(* Properties.                                                             *)

(* A person has one account, however he spells his email, whoever makes the  *)
(* account, and though the email is looked up long before the INSERT.        *)
OneAccountPerPerson ==
    \A r, s \in account : r.email.person = s.email.person => r = s

(* A master and his account appear together or not at all, whichever of the  *)
(* two INSERTs fails; the salon is his owner's and the services are of that  *)
(* salon.                                                                    *)
MasterWhole ==
    /\ {r.id : r \in {s \in account : s.role = "master"}} = {m.auth : m \in master}
    /\ \A m \in master :
          /\ OwnSalon(m.salon, call[m.auth].user)
          /\ \A i \in m.services : \E s \in service : s.id = i /\ s.salon = m.salon

(* Nobody is refused without the reason being there at some time of his      *)
(* call: the right password is not refused though another call changes it,   *)
(* a good code not though cron and others delete codes, a free email not.    *)
RefusalJustified ==
    \A c \in Call : call[c].status \in {400, 401, 403, 404, 409} => ground[c] \/ call[c].op = "refresh"

(* Once a reset has been answered, no later call resets the password with    *)
(* that code or an older one of the account.                                 *)
SpentCodeRefused ==
    \A c \in late : call[c].step \notin {"update", "clear", "rotate", "delete", "commit"}

(* "One session": a login, refresh or change of password that meets no other *)
(* one of the same user leaves the user exactly the session it answers with. *)
LoneSignIn ==
    [][\A c \in Call : (call[c].step = "commit" /\ call'[c].status = 201 /\ ~raced[c]) =>
         {s \in session' : s.user = call[c].user} = {[user |-> call[c].user, by |-> c]}]_vars

(* Every call is answered: again and again there is a time without an open   *)
(* call, since no handler waits for a row or for an unfinished INSERT for    *)
(* ever.                                                                     *)
CallAnswered == []<>(\A c \in Call : ~Open(c))
=============================================================================
