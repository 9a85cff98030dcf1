---------------------------- MODULE Organisation ----------------------------
(***************************************************************************)
(* The organisation of one company: directions, departments, services and  *)
(* the assignment of the employees, as HR administrators change them, and  *)
(* the organisation chart that is drawn from the rows.  Identifiers are    *)
(* never used twice.  A unique index compares names as they are written;   *)
(* the import compares what it makes of them, without case, accents and    *)
(* punctuation, so that several rows may answer to one name.  An employee  *)
(* is known by the matricule; e-mails are unique on the platform.          *)
(***************************************************************************)
EXTENDS Naturals, FiniteSets

CONSTANTS
    Directions, Departments, Services, Names,
    normalizeString, normalizeImportOrgLabel,   \* what is compared of a name
    Matricules, Emails,
    ElsewhereEmails,   \* e-mails of other companies' users
    Creators,          \* what creates accounts: "HR", and imports
    None, Gone,        \* an identifier that was not used yet, and a deleted row
    Starts,            \* the companies the model starts from
    MaxChanges         \* bound: changes by HR handlers

VARIABLES
    direction,    \* name, None or Gone
    department,   \* [name, direction], None or Gone
    service,      \* [name, department], None or Gone
    staff,        \* [email, department, service, by] or None; by: what created the row
    changes

org     == <<direction, department, service>>
orgVars == <<org, staff, changes>>

DepartmentRows == [name: Names, direction: Directions \cup {None}]
ServiceRows == [name: Names, department: Departments \cup {None}]
AccountRows == [email: Emails, department: Departments \cup {None},
                service: Services \cup {None}, by: Creators]

Live(rows) == {id \in DOMAIN rows : rows[id] \notin {None, Gone}}
Named(norm, rows, n) == {id \in Live(rows) : n # None /\ norm[rows[id].name] = norm[n]}
StaffIn(accounts) == {m \in Matricules : accounts[m] # None}
Staff == StaffIn(staff)
EmailTaken(e) == e \in ElsewhereEmails \/ \E m \in Staff : staff[m].email = e

(* Foreign keys, and the unique indexes.                                   *)
OrgFits(directions, departments, services) ==
    /\ directions \in [Directions -> Names \cup {None, Gone}]
    /\ departments \in [Departments -> DepartmentRows \cup {None, Gone}]
    /\ services \in [Services -> ServiceRows \cup {None, Gone}]
    /\ \A d \in Live(departments) : departments[d].direction \in Live(directions) \cup {None}
    /\ \A s \in Live(services) : services[s].department \in Live(departments) \cup {None}
    /\ \A d, e \in Live(departments) : departments[d].name = departments[e].name => d = e
StaffFits(departments, services, accounts) ==
    /\ accounts \in [Matricules -> AccountRows \cup {None}]
    /\ \A m \in StaffIn(accounts) :
          /\ accounts[m].email \notin ElsewhereEmails
          /\ accounts[m].department \in Live(departments) \cup {None}
          /\ accounts[m].service \in Live(services) \cup {None}
    /\ \A k, m \in StaffIn(accounts) : accounts[k].email = accounts[m].email => k = m
OrgOK   == OrgFits(direction, department, service)
StaffOK == StaffFits(department, service, staff)

ASSUME ElsewhereAssumption == ElsewhereEmails \subseteq Emails
ASSUME CreatorsAssumption == "HR" \in Creators
ASSUME MaxChangesAssumption == MaxChanges \in Nat
ASSUME NoneAssumption ==
    /\ None # Gone
    /\ {None, Gone} \cap (Directions \cup Departments \cup Services \cup Names \cup Emails
                             \cup DepartmentRows \cup ServiceRows \cup AccountRows) = {}
ASSUME StartsAssumption ==
    \A st \in Starts : /\ OrgFits(st.direction, st.department, st.service)
                       /\ StaffFits(st.department, st.service, st.staff)

Init ==
    /\ \E st \in Starts :
          /\ direction = st.direction /\ department = st.department
          /\ service = st.service /\ staff = st.staff
    /\ changes = 0

Change == changes < MaxChanges /\ changes' = changes + 1

-----------------------------------------------------------------------------
(* HR handlers.                                                            *)

NameFree(rows, n, except) == {id \in Live(rows) : rows[id].name = n} \subseteq except

CreateDirection(r, n) ==
    /\ Change /\ direction[r] = None /\ \A q \in Directions : direction[q] # n
    /\ direction' = [direction EXCEPT ![r] = n]
    /\ UNCHANGED <<department, service, staff>>

UpdateDirection(r, n) ==
    /\ Change /\ r \in Live(direction) /\ \A q \in Directions \ {r} : direction[q] # n
    /\ direction' = [direction EXCEPT ![r] = n]
    /\ UNCHANGED <<department, service, staff>>

DeleteDirection(r) ==
    /\ Change /\ r \in Live(direction)
    /\ direction' = [direction EXCEPT ![r] = Gone]
    /\ department' = [d \in Departments |->
          IF d \in Live(department) /\ department[d].direction = r
          THEN [department[d] EXCEPT !.direction = None] ELSE department[d]]
    /\ UNCHANGED <<service, staff>>

CreateDepartment(d, n, r) ==
    /\ Change /\ department[d] = None /\ r \in Live(direction) \cup {None}
    /\ NameFree(department, n, {})
    /\ department' = [department EXCEPT ![d] = [name |-> n, direction |-> r]]
    /\ UNCHANGED <<direction, service, staff>>

UpdateDepartment(d, n, r) ==
    /\ Change /\ d \in Live(department) /\ r \in Live(direction) \cup {None}
    /\ NameFree(department, n, {d})
    /\ department' = [department EXCEPT ![d] = [name |-> n, direction |-> r]]
    /\ UNCHANGED <<direction, service, staff>>

DeleteDepartment(d) ==
    /\ Change /\ d \in Live(department)
    /\ department' = [department EXCEPT ![d] = Gone]
    /\ service' = [s \in Services |->
          IF s \in Live(service) /\ service[s].department = d
          THEN [service[s] EXCEPT !.department = None] ELSE service[s]]
    /\ staff' = [m \in Matricules |->
          IF m \in Staff /\ staff[m].department = d
          THEN [staff[m] EXCEPT !.department = None] ELSE staff[m]]
    /\ UNCHANGED direction

CreateService(s, n, d) ==
    /\ Change /\ service[s] = None /\ d \in Live(department) \cup {None}
    /\ service' = [service EXCEPT ![s] = [name |-> n, department |-> d]]
    /\ UNCHANGED <<direction, department, staff>>

(* The employees of the service stay where they are.                       *)
UpdateService(s, n, d) ==
    /\ Change /\ s \in Live(service) /\ d \in Live(department) \cup {None}
    /\ service' = [service EXCEPT ![s] = [name |-> n, department |-> d]]
    /\ UNCHANGED <<direction, department, staff>>

DeleteService(s) ==
    /\ Change /\ s \in Live(service)
    /\ service' = [service EXCEPT ![s] = Gone]
    /\ staff' = [m \in Matricules |->
          IF m \in Staff /\ staff[m].service = s
          THEN [staff[m] EXCEPT !.service = None] ELSE staff[m]]
    /\ UNCHANGED <<direction, department>>

(* assertOrgAssignment.                                                    *)
AssignmentFits(d, s) ==
    /\ d \in Live(department) \cup {None} /\ s \in Live(service) \cup {None}
    /\ (s # None /\ service[s].department # None) => d = service[s].department

(* updateForRhAdmin: "asked" says whether the department or the service is *)
(* part of the request.                                                    *)
UpdateFits(m, e, d, s, asked) ==
    /\ m \in Staff
    /\ asked => AssignmentFits(d, s)
    /\ e \notin ElsewhereEmails /\ \A k \in Staff \ {m} : staff[k].email # e
Updated(m, e, d, s) ==
    staff' = [staff EXCEPT ![m] = [@ EXCEPT !.email = e, !.department = d, !.service = s]]

UpdateUser(m, e, d, s) ==
    /\ Change /\ UpdateFits(m, e, d, s, <<d, s>> # <<staff[m].department, staff[m].service>>)
    /\ Updated(m, e, d, s)
    /\ UNCHANGED org

(* inviteEmployee.                                                         *)
InviteFits(m, e, d, s) == ~EmailTaken(e) /\ m \notin Staff /\ AssignmentFits(d, s)
Account(e, d, s, by) == [email |-> e, department |-> d, service |-> s, by |-> by]

InviteEmployee(m, e, d, s) ==
    /\ Change /\ InviteFits(m, e, d, s)
    /\ staff' = [staff EXCEPT ![m] = Account(e, d, s, "HR")]
    /\ UNCHANGED org

HrNext ==
    \/ \E r \in Directions, n \in Names : CreateDirection(r, n) \/ UpdateDirection(r, n)
    \/ \E r \in Directions : DeleteDirection(r)
    \/ \E d \in Departments, n \in Names, r \in Directions \cup {None} :
          CreateDepartment(d, n, r) \/ UpdateDepartment(d, n, r)
    \/ \E d \in Departments : DeleteDepartment(d)
    \/ \E s \in Services, n \in Names, d \in Departments \cup {None} :
          CreateService(s, n, d) \/ UpdateService(s, n, d)
    \/ \E s \in Services : DeleteService(s)
    \/ \E m \in Matricules, e \in Emails, d \in Departments \cup {None},
          s \in Services \cup {None} :
          \/ m \in Staff /\ UpdateUser(m, e, d, s)
          \/ InviteEmployee(m, e, d, s)

-----------------------------------------------------------------------------
(* getOrgChart and getOrgTree, for the employees who are active.           *)

InDepartment(active, d) == {m \in active : staff[m].department = d}
ServiceNode(active, d, s) == {m \in InDepartment(active, d) : staff[m].service = s}

(* Employees drawn directly under a department: those without a service,   *)
(* or whose service is of another department.  Mutant: of no service only. *)
DirectlyUnlessInService(active, d) == {m \in InDepartment(active, d) : staff[m].service = None}
Directly(active, d) ==
    {m \in InDepartment(active, d) :
       staff[m].service = None \/ service[staff[m].service].department # d}
ServicesOf(d) == {s \in Live(service) : service[s].department = d}

(* The nodes of the chart: where each employee is drawn.                   *)
DepartmentNodes(active, d) ==
    {<<"department", d, Directly(active, d)>>}
    \cup {<<"service", s, ServiceNode(active, d, s)>> : s \in ServicesOf(d)}
OrphanServices(active) ==
    {<<"service", s, {m \in active : staff[m].service = s /\ staff[m].department = None}>> :
       s \in ServicesOf(None)}
ChartDepartments ==
    UNION {{d \in Live(department) : department[d].direction = r} : r \in Live(direction) \cup {None}}
Chart(active) == OrphanServices(active)
                    \cup UNION {DepartmentNodes(active, d) : d \in ChartDepartments}

(* groupBy departmentId.                                                   *)
TreeCount(active, d) == Cardinality(InDepartment(active, d))

(* Whoever is active, every employee of a department is drawn once in the  *)
(* chart, whatever became of the service; nobody is drawn twice; and the   *)
(* chart has in a department as many people as the tree counts there.      *)
ChartComplete ==
    \A active \in SUBSET Staff :
       LET nodes == Chart(active)
           drawn(m) == Cardinality({node \in nodes : m \in node[3]})
       IN
       /\ \A m \in active : drawn(m) \in (IF staff[m].department = None THEN 0..1 ELSE {1})
       /\ \A d \in Live(department) :
             TreeCount(active, d) =
                Cardinality(UNION {node[3] : node \in DepartmentNodes(active, d)})
=============================================================================
