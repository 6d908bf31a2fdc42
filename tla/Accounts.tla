------------------------------ MODULE Accounts ------------------------------
(***************************************************************************)
(* Accounts, the tokens issued for them, and what a token opens.  Every    *)
(* operation reads an account, hashes or compares a password or looks      *)
(* something else up, and then writes by id: other requests come in        *)
(* between.  A token carries the role its account had when the login read  *)
(* it, and is not looked up again.  The operator of a resource or a         *)
(* hospital has two kinds of writers: assignOperator looks the account up,  *)
(* and the creations and updates of a place write whom they are given.      *)
(***************************************************************************)
EXTENDS Naturals

CONSTANTS
    People,          \* accounts there may be
    FirstAdmin,      \* the account that exists at first
    Emails,
    Requests,        \* requests that may be under way at once
    MaxChanges,      \* bound: requests that change something
    Nobody

ASSUME AccountsAssumption ==
    FirstAdmin \in People /\ Nobody \notin People /\ MaxChanges \in Nat

VARIABLES
    users,        \* the table, Nobody for no row
    operator,     \* operatorId of one resource, or assignedOperatorId of one hospital
    tokens,       \* roles of the tokens of each account that have not expired
    desk,         \* each request between its read and its write
    changes,      \* requests that began to change something
    edited,       \* history: accounts whose role or status updateUser has written
    unchecked     \* history: a creation or an update of the place wrote its operator

acVars == <<users, operator, tokens, desk, changes, edited, unchecked>>

Roles == {"ADMIN", "COORDINATOR", "OPERATOR", "CITIZEN"}

Users == [email : Emails, role : Roles, status : {"ACTIVE", "INACTIVE"}]

ASSUME NobodyAssumption == Nobody \notin Users

\* What a request will write: a row, a value of a field, an operator or a token.
Idle == [op |-> "idle"]
Writes ==
    [op : {"create"}, person : People, row : Users]
    \cup [op : {"edit", "set"}, person : People, field : {"email"}, value : Emails]
    \cup [op : {"edit"}, person : People, field : {"role"}, value : Roles]
    \cup [op : {"edit", "set"}, person : People, field : {"status"}, value : {"ACTIVE", "INACTIVE"}]
    \cup [op : {"operate", "name"}, person : People \cup {Nobody}]
    \cup [op : {"login"}, person : People, row : Users]

ACTypeOK ==
    /\ users \in [People -> Users \cup {Nobody}]
    /\ operator \in People \cup {Nobody}
    /\ tokens \in [People -> SUBSET Roles]
    /\ desk \in [Requests -> Writes \cup {Idle}]
    /\ changes \in 0 .. MaxChanges
    /\ edited \subseteq People
    /\ unchecked \in BOOLEAN

ACInit ==
    /\ \E e \in Emails :
          users = [p \in People |->
                     IF p = FirstAdmin THEN [email |-> e, role |-> "ADMIN", status |-> "ACTIVE"]
                     ELSE Nobody]
    /\ operator = Nobody
    /\ tokens = [p \in People |-> {}]
    /\ desk = [r \in Requests |-> Idle]
    /\ changes = 0
    /\ edited = {}
    /\ unchecked = FALSE

-----------------------------------------------------------------------------
Exists(p) == users[p] # Nobody

Taken(email) == \E p \in People : Exists(p) /\ users[p].email = email

\* authenticate and requireRoles: some live token carries the role.
Admitted(role) == \E p \in People : role \in tokens[p]

Begin(r, write) ==
    /\ desk[r] = Idle
    /\ desk' = [desk EXCEPT ![r] = write]
    /\ UNCHANGED <<users, operator, tokens, edited, unchecked>>

BeginChange(r, write) ==
    /\ changes < MaxChanges
    /\ changes' = changes + 1
    /\ Begin(r, write)

\* register, and createUser, up to the insert.
BeginCreate(r, p, email, role) ==
    /\ role = "CITIZEN" \/ Admitted("ADMIN")
    /\ ~Exists(p)
    /\ ~Taken(email)
    /\ BeginChange(r, [op |-> "create", person |-> p,
                       row |-> [email |-> email, role |-> role, status |-> "ACTIVE"]])

\* updateMe, up to the update.
BeginProfile(r, p, email) ==
    /\ tokens[p] # {}
    /\ Exists(p)
    /\ email # users[p].email => ~Taken(email)
    /\ BeginChange(r, [op |-> "set", person |-> p, field |-> "email", value |-> email])

\* updateUser, up to the update; one field of those it may be given.
BeginEdit(r, p, field, value) ==
    /\ Admitted("ADMIN")
    /\ Exists(p)
    /\ field = "email" /\ value # users[p].email => ~Taken(value)
    /\ BeginChange(r, [op |-> "edit", person |-> p, field |-> field, value |-> value])

\* Mutant: any account may be deactivated.
MayDeactivateAny(row) == TRUE

\* "Cannot deactivate an ADMIN account."
MayDeactivate(row) == row.role # "ADMIN"

\* deactivateUser and activateUser, up to the update.
BeginStatus(r, p, status) ==
    /\ Admitted("ADMIN")
    /\ Exists(p)
    /\ status = "INACTIVE" => MayDeactivate(users[p])
    /\ BeginChange(r, [op |-> "set", person |-> p, field |-> "status", value |-> status])

\* assignOperator of a resource or a hospital, up to the update.
BeginAssignOperator(r, p) ==
    /\ Admitted("ADMIN")
    /\ Exists(p)
    /\ users[p].role = "OPERATOR"
    /\ BeginChange(r, [op |-> "operate", person |-> p])

\* removeOperator, up to the update.
BeginRemoveOperator(r) ==
    /\ Admitted("ADMIN")
    /\ BeginChange(r, [op |-> "operate", person |-> Nobody])

\* createResource, updateResource, createHospital and updateHospital, up to
\* the write: they do not look the account up.
BeginNameOperator(r, p) ==
    /\ Admitted("ADMIN")
    /\ BeginChange(r, [op |-> "name", person |-> p])

\* login, the read.
BeginLogin(r, p) ==
    /\ Exists(p)
    /\ Begin(r, [op |-> "login", person |-> p, row |-> users[p]])
    /\ UNCHANGED changes

-----------------------------------------------------------------------------
End(r) == desk' = [desk EXCEPT ![r] = Idle] /\ UNCHANGED changes

\* The unique index on users.email.
EmailFree(p, email) == \A q \in People \ {p} : Exists(q) => users[q].email # email

\* The insert of register and createUser.
Insert(r) ==
    LET w == desk[r]
    IN  /\ w.op = "create"
        /\ users' = IF ~Exists(w.person) /\ EmailFree(w.person, w.row.email)
                    THEN [users EXCEPT ![w.person] = w.row]
                    ELSE users
        /\ End(r)
        /\ UNCHANGED <<operator, tokens, edited, unchecked>>

\* The update by id of updateMe, updateUser, deactivateUser and activateUser.
Change(r) ==
    LET w == desk[r]
        allowed == w.field = "email" => EmailFree(w.person, w.value)
    IN  /\ w.op \in {"edit", "set"}
        /\ users' = IF allowed THEN [users EXCEPT ![w.person][w.field] = w.value] ELSE users
        /\ edited' = IF w.op = "edit" /\ w.field # "email" THEN edited \cup {w.person} ELSE edited
        /\ End(r)
        /\ UNCHANGED <<operator, tokens, unchecked>>

\* The update of the resource or the hospital by assignOperator and removeOperator.
Operate(r) ==
    /\ desk[r].op = "operate"
    /\ operator' = desk[r].person
    /\ unchecked' = FALSE
    /\ End(r)
    /\ UNCHANGED <<users, tokens, edited>>

\* The foreign key on users.id.
RefersToUser(p) == p = Nobody \/ Exists(p)

\* The insert or the update of a creation or an update: any account there is.
NameOperator(r) ==
    LET p == desk[r].person
    IN  /\ desk[r].op = "name"
        /\ IF RefersToUser(p) THEN operator' = p /\ unchecked' = TRUE
           ELSE UNCHANGED <<operator, unchecked>>
        /\ End(r)
        /\ UNCHANGED <<users, tokens, edited>>

\* Mutant: an inactive account logs in.
MayLogInAlways(row) == TRUE

\* "inactive accounts cannot log in"
MayLogIn(row) == row.status # "INACTIVE"

\* login, after the passwords were compared: by the row it read.
IssueToken(r) ==
    LET w == desk[r]
    IN  /\ w.op = "login"
        /\ tokens' = IF MayLogIn(w.row) THEN [tokens EXCEPT ![w.person] = @ \cup {w.row.role}] ELSE tokens
        /\ End(r)
        /\ UNCHANGED <<users, operator, edited, unchecked>>

\* expiresIn
TokenExpires(p, role) ==
    /\ role \in tokens[p]
    /\ tokens' = [tokens EXCEPT ![p] = @ \ {role}]
    /\ UNCHANGED <<users, operator, desk, changes, edited, unchecked>>

Finish(r) == Insert(r) \/ Change(r) \/ Operate(r) \/ NameOperator(r) \/ IssueToken(r)

ACNext ==
    \/ \E p \in People, role \in Roles : TokenExpires(p, role)
    \/ \E r \in Requests :
          \/ Insert(r) \/ Change(r) \/ Operate(r) \/ NameOperator(r) \/ IssueToken(r)
          \/ BeginRemoveOperator(r)
          \/ \E p \in People \cup {Nobody} : BeginNameOperator(r, p)
          \/ \E p \in People :
                \/ BeginLogin(r, p)
                \/ BeginAssignOperator(r, p)
                \/ \E email \in Emails :
                      \/ BeginProfile(r, p, email)
                      \/ BeginEdit(r, p, "email", email)
                      \/ \E role \in Roles : BeginCreate(r, p, email, role)
                \/ \E role \in Roles : BeginEdit(r, p, "role", role)
                \/ \E status \in {"ACTIVE", "INACTIVE"} :
                      BeginStatus(r, p, status) \/ BeginEdit(r, p, "status", status)

\* Requests end, and tokens expire.
ACFairness ==
    /\ \A r \in Requests : WF_acVars(Finish(r))
    /\ \A p \in People, role \in Roles : WF_acVars(TokenExpires(p, role))

ACSpec == ACInit /\ [][ACNext]_acVars /\ ACFairness

-----------------------------------------------------------------------------
(* What a token opens.  A mission is an assignment of a resource to an      *)
(* incident: the operator of the resource, who reported the incident, and   *)
(* whether the assignment is ACTIVE.                                        *)

Staff == {"ADMIN", "COORDINATOR"}

\* requireResourceAccess and requireHospitalAccess.
MayOpenPlace(role, p, theOperator) ==
    role \in Staff \/ (role = "OPERATOR" /\ theOperator = p)

\* getResources and getHospitals, behind the roles of their routes.
ListsPlace(role, p, theOperator) ==
    /\ role \in Staff \cup {"OPERATOR"}
    /\ role = "OPERATOR" => theOperator = p

\* requireAssignmentAccess
MayOpenAssignment(role, p, mission) ==
    \/ role \in Staff
    \/ role = "OPERATOR" /\ mission.operator = p
    \/ role = "CITIZEN" /\ mission.reporter = p

\* getAssignments
ListsAssignment(role, p, mission) ==
    /\ role = "OPERATOR" => mission.operator = p
    /\ role = "CITIZEN" => mission.reporter = p

\* Mutant: a past mission opens its incident as well.
MayOpenIncidentAfterwards(role, p, mission) == MayOpenAssignment(role, p, mission)

\* requireIncidentAccess
MayOpenIncident(role, p, mission) ==
    \/ role \in Staff
    \/ role = "OPERATOR" /\ mission.operator = p /\ mission.active
    \/ role = "CITIZEN" /\ mission.reporter = p

\* getIncidents
ListsIncident(role, p, mission) ==
    /\ role = "OPERATOR" => mission.active /\ mission.operator = p
    /\ role = "CITIZEN" => mission.reporter = p

-----------------------------------------------------------------------------
(* Properties *)

\* Two accounts never share an email, though both were free when looked up.
EmailsUnique ==
    \A p, q \in People : p # q /\ Exists(p) /\ Exists(q) => users[p].email # users[q].email

\* deactivateUser never deactivates an ADMIN, and assignOperator gives a place
\* only to an OPERATOR, unless updateUser wrote that account's role or status.
\* A creation or an update of the place may give it to any account, but to none
\* that does not exist.
RolesExcused ==
    /\ \A p \in People \ edited : Exists(p) /\ users[p].role = "ADMIN" => users[p].status = "ACTIVE"
    /\ operator # Nobody => Exists(operator)
    /\ operator \notin edited \cup {Nobody} => users[operator].role = "OPERATOR" \/ unchecked

\* "ADMIN assigns an OPERATOR to this resource": an account that updateUser left
\* alone operates a place only with that role, however it came to it.
OnlyOperatorsOperate ==
    operator \notin edited \cup {Nobody} => users[operator].role = "OPERATOR"

\* The promises of the account services, under requests that overlap.
AccountsHold == EmailsUnique /\ RolesExcused

\* The eight places that say who sees what agree: a list shows exactly what
\* the guard of a single row lets open; and the operator on a running mission
\* can open all of it.
ListsMatchGuards ==
    \A p \in People, reporter \in People, active \in BOOLEAN :
        LET mission == [operator |-> operator, reporter |-> reporter, active |-> active]
        IN  \A role \in tokens[p] :
                /\ ListsPlace(role, p, operator) <=> MayOpenPlace(role, p, operator)
                /\ ListsAssignment(role, p, mission) <=> MayOpenAssignment(role, p, mission)
                /\ ListsIncident(role, p, mission) <=> MayOpenIncident(role, p, mission)
                /\ role = "OPERATOR" /\ active /\ MayOpenAssignment(role, p, mission)
                      => MayOpenIncident(role, p, mission) /\ MayOpenPlace(role, p, operator)

\* When accounts change no more, no token is left that says otherwise than
\* its account: the tokens of a deactivated account, or of a former role, end.
TokensAgreeInTheEnd ==
    \A p \in People :
        <>[](tokens[p] \subseteq IF Exists(p) /\ users[p].status = "ACTIVE"
                                 THEN {users[p].role} ELSE {})

=============================================================================
