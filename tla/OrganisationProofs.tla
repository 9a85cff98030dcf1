-------------------------- MODULE OrganisationProofs --------------------------
(***************************************************************************)
(* Proofs about Organisation, for any company, names and accounts: what    *)
(* the HR handlers do keeps the foreign keys and the unique indexes, and   *)
(* with these the organisation chart draws every employee of a department  *)
(* once.                                                                   *)
(***************************************************************************)
EXTENDS Organisation, FiniteSetTheorems, TLAPS

OrgInv == OrgOK /\ StaffOK

LEMMA OrgInit == Init => OrgInv
BY StartsAssumption DEF Init, OrgInv, OrgOK, StaffOK

-----------------------------------------------------------------------------
(* The rows that are live, by the type of the tables.                      *)
LEMMA LiveRows ==
    ASSUME OrgOK
    PROVE  /\ Live(direction) = {r \in Directions : direction[r] \in Names}
           /\ Live(department) = {d \in Departments : department[d] \in DepartmentRows}
           /\ Live(service) = {s \in Services : service[s] \in ServiceRows}
BY NoneAssumption DEF OrgOK, OrgFits, Live

LEMMA StaffRows ==
    ASSUME StaffOK
    PROVE  Staff = {m \in Matricules : staff[m] \in AccountRows}
BY NoneAssumption DEF StaffOK, StaffFits, Staff, StaffIn

(* What a step that changes one table keeps.                               *)
LEMMA DirectionFrame ==
    ASSUME OrgInv, direction' \in [Directions -> Names \cup {None, Gone}],
           UNCHANGED <<service, staff>>,
           department' \in [Departments -> DepartmentRows \cup {None, Gone}],
           Live(department)' = Live(department),
           \A d \in Live(department) :
              /\ department'[d].name = department[d].name
              /\ department'[d].direction \in {None} \cup Live(direction)'
    PROVE  OrgInv'
<1>1. OrgOK'
  BY DEF OrgInv, OrgOK, OrgFits
<1>2. StaffOK'
  BY DEF OrgInv, StaffOK, StaffFits, StaffIn
<1>3. QED
  BY <1>1, <1>2 DEF OrgInv

LEMMA DepartmentFrame ==
    ASSUME OrgInv, NEW d \in Departments, NEW row \in DepartmentRows,
           department' = [department EXCEPT ![d] = row],
           row.direction \in Live(direction) \cup {None}, NameFree(department, row.name, {d}),
           UNCHANGED <<direction, service, staff>>
    PROVE  OrgInv'
<1>1. department' \in [Departments -> DepartmentRows \cup {None, Gone}]
  BY DEF OrgInv, OrgOK, OrgFits
<1>2. Live(department)' = Live(department) \cup {d}
  BY NoneAssumption DEF Live, OrgInv, OrgOK, OrgFits
<1>3. \A e \in Departments : department'[e] = IF e = d THEN row ELSE department[e]
  BY DEF OrgInv, OrgOK, OrgFits
<1>4. \A e \in Live(department) : e # d => department[e].name # row.name
  BY DEF NameFree
<1>5. \A e \in Live(department)' : e \in Departments
  BY <1>1 DEF Live
<1>6. OrgOK'
  <2>1. \A e \in Live(department)' : department'[e].direction \in Live(direction)' \cup {None}
    BY <1>2, <1>3, <1>5 DEF OrgInv, OrgOK, OrgFits
  <2>2. \A a, e \in Live(department)' : department'[a].name = department'[e].name => a = e
    BY <1>2, <1>3, <1>4, <1>5 DEF OrgInv, OrgOK, OrgFits
  <2>3. QED
    BY <1>1, <1>2, <2>1, <2>2 DEF OrgInv, OrgOK, OrgFits
<1>7. StaffOK'
  BY <1>2 DEF OrgInv, StaffOK, StaffFits, StaffIn
<1>8. QED
  BY <1>6, <1>7 DEF OrgInv

LEMMA ServiceFrame ==
    ASSUME OrgInv, NEW s \in Services, NEW row \in ServiceRows,
           service' = [service EXCEPT ![s] = row],
           row.department \in Live(department) \cup {None},
           UNCHANGED <<direction, department, staff>>
    PROVE  OrgInv'
<1>1. service' \in [Services -> ServiceRows \cup {None, Gone}]
  BY DEF OrgInv, OrgOK, OrgFits
<1>2. Live(service)' = Live(service) \cup {s}
  BY NoneAssumption DEF Live, OrgInv, OrgOK, OrgFits
<1>3. \A z \in Live(service)' : service'[z] = IF z = s THEN row ELSE service[z]
  BY <1>1 DEF OrgInv, OrgOK, OrgFits, Live
<1>4. OrgOK'
  BY <1>1, <1>2, <1>3 DEF OrgInv, OrgOK, OrgFits
<1>5. StaffOK'
  BY <1>2 DEF OrgInv, StaffOK, StaffFits, StaffIn
<1>6. QED
  BY <1>4, <1>5 DEF OrgInv

LEMMA AccountFrame ==
    ASSUME OrgInv, NEW m \in Matricules, NEW row \in AccountRows,
           staff' = [staff EXCEPT ![m] = row], row.email \notin ElsewhereEmails,
           row.department \in Live(department) \cup {None},
           row.service \in Live(service) \cup {None},
           \A k \in Staff \ {m} : staff[k].email # row.email,
           UNCHANGED org
    PROVE  OrgInv'
<1>1. staff' \in [Matricules -> AccountRows \cup {None}]
  BY DEF OrgInv, StaffOK, StaffFits
<1>2. \A k \in StaffIn(staff') : k = m \/ k \in Staff
  BY DEF StaffIn, Staff, OrgInv, StaffOK, StaffFits
<1>3. \A k \in Matricules : staff'[k] = IF k = m THEN row ELSE staff[k]
  BY DEF OrgInv, StaffOK, StaffFits
<1>4. UNCHANGED <<direction, department, service>>
  BY DEF org
<1>5. StaffOK'
  BY <1>1, <1>2, <1>3, <1>4 DEF OrgInv, StaffOK, StaffFits, StaffIn, Staff
<1>6. OrgOK'
  BY <1>4 DEF OrgInv, OrgOK
<1>7. QED
  BY <1>5, <1>6 DEF OrgInv

-----------------------------------------------------------------------------
(* The handlers.                                                           *)
LEMMA DirectionSteps ==
    ASSUME OrgInv, NEW r \in Directions, NEW n \in Names,
           CreateDirection(r, n) \/ UpdateDirection(r, n)
    PROVE  OrgInv'
<1>1. direction' = [direction EXCEPT ![r] = n] /\ UNCHANGED <<department, service, staff>>
  BY DEF CreateDirection, UpdateDirection
<1>2. direction' \in [Directions -> Names \cup {None, Gone}]
  BY <1>1 DEF OrgInv, OrgOK, OrgFits
<1>3. Live(direction) \subseteq Live(direction)'
  BY <1>1, NoneAssumption DEF Live, OrgInv, OrgOK, OrgFits
<1>4. QED
  BY <1>1, <1>2, <1>3, DirectionFrame DEF OrgInv, OrgOK, OrgFits

LEMMA DirectionDeleted ==
    ASSUME OrgInv, NEW r \in Directions, DeleteDirection(r)
    PROVE  OrgInv'
<1>1. direction' = [direction EXCEPT ![r] = Gone] /\ UNCHANGED <<service, staff>>
  BY DEF DeleteDirection
<1>2. direction' \in [Directions -> Names \cup {None, Gone}]
  BY <1>1 DEF OrgInv, OrgOK, OrgFits
<1>3. Live(direction)' = Live(direction) \ {r}
  BY <1>1 DEF Live, OrgInv, OrgOK, OrgFits
<1>4. \A row \in DepartmentRows :
         /\ [row EXCEPT !.direction = None] \in DepartmentRows
         /\ [row EXCEPT !.direction = None].direction = None
         /\ [row EXCEPT !.direction = None].name = row.name
  BY DEF DepartmentRows
<1>5. \A d \in Departments :
         \/ department'[d] = department[d] /\ ~(d \in Live(department) /\ department[d].direction = r)
         \/ /\ d \in Live(department) /\ department'[d] \in DepartmentRows
            /\ department'[d].direction = None /\ department'[d].name = department[d].name
  BY <1>4, LiveRows DEF DeleteDirection, OrgInv
<1>6. department' \in [Departments -> DepartmentRows \cup {None, Gone}]
  <2>1. \A d \in Departments : department'[d] \in DepartmentRows \cup {None, Gone}
    BY <1>5 DEF OrgInv, OrgOK, OrgFits
  <2>2. department' = [d \in Departments |-> department'[d]]
    BY DEF DeleteDirection
  <2>3. QED
    BY <2>1, <2>2
<1>7. Live(department)' = Live(department)
  BY <1>5, <1>6, NoneAssumption DEF Live, OrgInv, OrgOK, OrgFits
<1>8. \A d \in Live(department) :
         /\ department'[d].name = department[d].name
         /\ department'[d].direction \in {None} \cup Live(direction)'
  BY <1>3, <1>5, LiveRows DEF OrgInv, OrgOK, OrgFits
<1>9. QED
  BY <1>1, <1>2, <1>6, <1>7, <1>8, DirectionFrame

LEMMA DepartmentSteps ==
    ASSUME OrgInv, NEW d \in Departments, NEW n \in Names, NEW r \in Directions \cup {None},
           CreateDepartment(d, n, r) \/ UpdateDepartment(d, n, r)
    PROVE  OrgInv'
<1> DEFINE row == [name |-> n, direction |-> r]
<1>1. row \in DepartmentRows /\ row.name = n /\ row.direction = r
  BY DEF DepartmentRows
<1>2. /\ department' = [department EXCEPT ![d] = row]
      /\ r \in Live(direction) \cup {None} /\ NameFree(department, n, {d})
      /\ UNCHANGED <<direction, service, staff>>
  BY DEF CreateDepartment, UpdateDepartment, NameFree
<1> HIDE DEF row
<1>3. QED
  BY <1>1, <1>2, DepartmentFrame

LEMMA ServiceSteps ==
    ASSUME OrgInv, NEW s \in Services, NEW n \in Names, NEW d \in Departments \cup {None},
           CreateService(s, n, d) \/ UpdateService(s, n, d)
    PROVE  OrgInv'
<1> DEFINE row == [name |-> n, department |-> d]
<1>1. row \in ServiceRows /\ row.department = d
  BY DEF ServiceRows
<1>2. /\ service' = [service EXCEPT ![s] = row] /\ d \in Live(department) \cup {None}
      /\ UNCHANGED <<direction, department, staff>>
  BY DEF CreateService, UpdateService
<1> HIDE DEF row
<1>3. QED
  BY <1>1, <1>2, ServiceFrame

(* The accounts that lose their department or their service keep the rest. *)
LEMMA Released ==
    ASSUME NEW row \in AccountRows
    PROVE  /\ [row EXCEPT !.department = None] \in AccountRows
           /\ [row EXCEPT !.department = None].department = None
           /\ [row EXCEPT !.department = None].email = row.email
           /\ [row EXCEPT !.department = None].service = row.service
           /\ [row EXCEPT !.department = None].by = row.by
           /\ [row EXCEPT !.service = None] \in AccountRows
           /\ [row EXCEPT !.service = None].service = None
           /\ [row EXCEPT !.service = None].email = row.email
           /\ [row EXCEPT !.service = None].department = row.department
           /\ [row EXCEPT !.service = None].by = row.by
BY DEF AccountRows

(* No step of HR but an invitation adds an account, and none takes one or  *)
(* changes who created it.                                                 *)
LEMMA ServiceDeleted ==
    ASSUME OrgInv, NEW s \in Services, DeleteService(s)
    PROVE  OrgInv' /\ Staff' = Staff /\ \A m \in Staff : staff'[m].by = staff[m].by
<1>1. service' = [service EXCEPT ![s] = Gone] /\ UNCHANGED <<direction, department>>
  BY DEF DeleteService
<1>2. service' \in [Services -> ServiceRows \cup {None, Gone}]
  BY <1>1 DEF OrgInv, OrgOK, OrgFits
<1>3. Live(service)' = Live(service) \ {s}
  BY <1>1 DEF Live, OrgInv, OrgOK, OrgFits
<1>4. \A z \in Live(service)' : service'[z] = service[z]
  BY <1>1, <1>3 DEF OrgInv, OrgOK, OrgFits, Live
<1>5. OrgOK'
  BY <1>1, <1>2, <1>3, <1>4 DEF OrgInv, OrgOK, OrgFits
<1>6. \A m \in Matricules :
         \/ staff'[m] = staff[m] /\ (m \in Staff => staff[m].service # s)
         \/ /\ m \in Staff /\ staff'[m] \in AccountRows
            /\ staff'[m].service = None /\ staff'[m].email = staff[m].email
            /\ staff'[m].department = staff[m].department /\ staff'[m].by = staff[m].by
  BY StaffRows, Released DEF DeleteService, OrgInv
<1>7. staff' \in [Matricules -> AccountRows \cup {None}]
  <2>1. \A m \in Matricules : staff'[m] \in AccountRows \cup {None}
    BY <1>6 DEF OrgInv, StaffOK, StaffFits
  <2>2. staff' = [m \in Matricules |-> staff'[m]]
    BY DEF DeleteService
  <2>3. QED
    BY <2>1, <2>2
<1>8. Staff' = Staff
  BY <1>6, NoneAssumption DEF Staff, StaffIn
<1>9. StaffOK'
  <2>1. \A m \in Staff : /\ staff'[m].email = staff[m].email
                         /\ staff'[m].department = staff[m].department
                         /\ staff'[m].service \in (Live(service) \ {s}) \cup {None}
    BY <1>6 DEF OrgInv, StaffOK, StaffFits, Staff, StaffIn
  <2>2. QED
    BY <1>1, <1>3, <1>7, <1>8, <2>1 DEF OrgInv, StaffOK, StaffFits, Staff
<1>10. \A m \in Staff : staff'[m].by = staff[m].by
  BY <1>6 DEF Staff, StaffIn
<1>11. QED
  BY <1>5, <1>8, <1>9, <1>10 DEF OrgInv

LEMMA DepartmentDeleted ==
    ASSUME OrgInv, NEW d \in Departments, DeleteDepartment(d)
    PROVE  OrgInv' /\ Staff' = Staff /\ \A m \in Staff : staff'[m].by = staff[m].by
<1>1. department' = [department EXCEPT ![d] = Gone] /\ UNCHANGED direction
  BY DEF DeleteDepartment
<1>2. department' \in [Departments -> DepartmentRows \cup {None, Gone}]
  BY <1>1 DEF OrgInv, OrgOK, OrgFits
<1>3. Live(department)' = Live(department) \ {d}
  BY <1>1 DEF Live, OrgInv, OrgOK, OrgFits
<1>4. \A e \in Live(department)' : department'[e] = department[e]
  BY <1>1, <1>3 DEF OrgInv, OrgOK, OrgFits, Live
<1>5. \A row \in ServiceRows :
         /\ [row EXCEPT !.department = None] \in ServiceRows
         /\ [row EXCEPT !.department = None].department = None
  BY DEF ServiceRows
<1>6. \A s \in Services :
         \/ service'[s] = service[s] /\ (s \in Live(service) => service[s].department # d)
         \/ /\ s \in Live(service) /\ service'[s] \in ServiceRows
            /\ service'[s].department = None
  BY <1>5, LiveRows DEF DeleteDepartment, OrgInv
<1>7. service' \in [Services -> ServiceRows \cup {None, Gone}]
  <2>1. \A s \in Services : service'[s] \in ServiceRows \cup {None, Gone}
    BY <1>6 DEF OrgInv, OrgOK, OrgFits
  <2>2. service' = [s \in Services |-> service'[s]]
    BY DEF DeleteDepartment
  <2>3. QED
    BY <2>1, <2>2
<1>8. Live(service)' = Live(service)
  BY <1>6, <1>7, NoneAssumption DEF Live, OrgInv, OrgOK, OrgFits
<1>9. \A s \in Live(service) : service'[s].department \in (Live(department) \ {d}) \cup {None}
  BY <1>6, LiveRows DEF OrgInv, OrgOK, OrgFits
<1>10. OrgOK'
  BY <1>1, <1>2, <1>3, <1>4, <1>7, <1>8, <1>9 DEF OrgInv, OrgOK, OrgFits
<1>11. \A m \in Matricules :
         \/ staff'[m] = staff[m] /\ (m \in Staff => staff[m].department # d)
         \/ /\ m \in Staff /\ staff'[m] \in AccountRows
            /\ staff'[m].department = None /\ staff'[m].email = staff[m].email
            /\ staff'[m].service = staff[m].service /\ staff'[m].by = staff[m].by
  BY StaffRows, Released DEF DeleteDepartment, OrgInv
<1>12. staff' \in [Matricules -> AccountRows \cup {None}]
  <2>1. \A m \in Matricules : staff'[m] \in AccountRows \cup {None}
    BY <1>11 DEF OrgInv, StaffOK, StaffFits
  <2>2. staff' = [m \in Matricules |-> staff'[m]]
    BY DEF DeleteDepartment
  <2>3. QED
    BY <2>1, <2>2
<1>13. Staff' = Staff
  BY <1>11, NoneAssumption DEF Staff, StaffIn
<1>14. StaffOK'
  <2>1. \A m \in Staff : /\ staff'[m].email = staff[m].email
                         /\ staff'[m].service = staff[m].service
                         /\ staff'[m].department \in (Live(department) \ {d}) \cup {None}
    BY <1>11 DEF OrgInv, StaffOK, StaffFits, Staff, StaffIn
  <2>2. QED
    BY <1>3, <1>8, <1>12, <1>13, <2>1 DEF OrgInv, StaffOK, StaffFits, Staff
<1>15. \A m \in Staff : staff'[m].by = staff[m].by
  BY <1>11 DEF Staff, StaffIn
<1>16. QED
  BY <1>10, <1>13, <1>14, <1>15 DEF OrgInv

(* An account that is changed by HR or by an import: the e-mail is free,   *)
(* and the place exists.                                                   *)
LEMMA UpdateKeeps ==
    ASSUME OrgInv, NEW m \in Staff, NEW e \in Emails,
           NEW d \in Departments \cup {None}, NEW s \in Services \cup {None}, NEW asked,
           UpdateFits(m, e, d, s, asked),
           ~asked => d = staff[m].department /\ s = staff[m].service,
           Updated(m, e, d, s), UNCHANGED org
    PROVE  OrgInv' /\ Staff' = Staff /\ \A k \in Staff : staff'[k].by = staff[k].by
<1> DEFINE row == [staff[m] EXCEPT !.email = e, !.department = d, !.service = s]
<1>1. staff[m] \in AccountRows /\ m \in Matricules
  BY StaffRows DEF OrgInv
<1>2. /\ row \in AccountRows /\ row.email = e /\ row.department = d /\ row.service = s
      /\ row.by = staff[m].by
  BY <1>1 DEF AccountRows
<1>3. staff' = [staff EXCEPT ![m] = row]
  BY DEF Updated
<1>4. d \in Live(department) \cup {None} /\ s \in Live(service) \cup {None}
  BY DEF UpdateFits, AssignmentFits, OrgInv, StaffOK, StaffFits, Staff
<1>5. e \notin ElsewhereEmails /\ \A k \in Staff \ {m} : staff[k].email # e
  BY DEF UpdateFits
<1> HIDE DEF row
<1>6. OrgInv'
  BY <1>1, <1>2, <1>3, <1>4, <1>5, AccountFrame
<1>7. \A k \in Matricules : staff'[k] = IF k = m THEN row ELSE staff[k]
  BY <1>3 DEF OrgInv, StaffOK, StaffFits
<1>8. Staff' = Staff
  BY <1>1, <1>2, <1>7, StaffRows, NoneAssumption DEF OrgInv, Staff, StaffIn
<1>9. \A k \in Staff : staff'[k].by = staff[k].by
  BY <1>2, <1>7 DEF Staff, StaffIn
<1>10. QED
  BY <1>6, <1>8, <1>9

LEMMA InviteKeeps ==
    ASSUME OrgInv, NEW m \in Matricules, NEW e \in Emails,
           NEW d \in Departments \cup {None}, NEW s \in Services \cup {None},
           InviteEmployee(m, e, d, s)
    PROVE  /\ OrgInv'
           /\ \A k \in Staff : k \in Staff' /\ staff'[k] = staff[k]
           /\ \A k \in Staff' \ Staff : staff'[k].by = "HR"
<1> DEFINE row == Account(e, d, s, "HR")
<1>1. row \in AccountRows /\ row.email = e /\ row.department = d /\ row.service = s /\ row.by = "HR"
  BY CreatorsAssumption DEF AccountRows, Account
<1>2. staff' = [staff EXCEPT ![m] = row] /\ UNCHANGED org
  BY DEF InviteEmployee
<1>3. /\ d \in Live(department) \cup {None} /\ s \in Live(service) \cup {None}
      /\ e \notin ElsewhereEmails /\ m \notin Staff /\ \A k \in Staff : staff[k].email # e
  BY DEF InviteEmployee, InviteFits, AssignmentFits, EmailTaken
<1> HIDE DEF row
<1>4. OrgInv'
  BY <1>1, <1>2, <1>3, AccountFrame
<1>5. \A k \in Matricules : staff'[k] = IF k = m THEN row ELSE staff[k]
  BY <1>2 DEF OrgInv, StaffOK, StaffFits
<1>6. QED
  BY <1>1, <1>3, <1>4, <1>5 DEF Staff, StaffIn

(* HR handlers keep the keys; they take no account, they do not change who *)
(* created one, and they create accounts in the name of HR only.           *)
AccountsStay ==
    /\ \A m \in Staff : m \in Staff' /\ staff'[m].by = staff[m].by
    /\ \A m \in Staff' \ Staff : staff'[m].by = "HR"
LEMMA HrStep ==
    ASSUME OrgInv, HrNext
    PROVE  OrgInv' /\ AccountsStay
<1>1. UNCHANGED staff => AccountsStay
  BY DEF AccountsStay, Staff, StaffIn
<1>2. ASSUME NEW r \in Directions, NEW n \in Names, CreateDirection(r, n) \/ UpdateDirection(r, n)
      PROVE  OrgInv' /\ AccountsStay
  BY <1>1, <1>2, DirectionSteps DEF CreateDirection, UpdateDirection
<1>3. ASSUME NEW r \in Directions, DeleteDirection(r) PROVE OrgInv' /\ AccountsStay
  BY <1>1, <1>3, DirectionDeleted DEF DeleteDirection
<1>4. ASSUME NEW d \in Departments, NEW n \in Names, NEW r \in Directions \cup {None},
             CreateDepartment(d, n, r) \/ UpdateDepartment(d, n, r)
      PROVE  OrgInv' /\ AccountsStay
  BY <1>1, <1>4, DepartmentSteps DEF CreateDepartment, UpdateDepartment
<1>5. ASSUME NEW d \in Departments, DeleteDepartment(d) PROVE OrgInv' /\ AccountsStay
  BY <1>5, DepartmentDeleted DEF AccountsStay
<1>6. ASSUME NEW s \in Services, NEW n \in Names, NEW d \in Departments \cup {None},
             CreateService(s, n, d) \/ UpdateService(s, n, d)
      PROVE  OrgInv' /\ AccountsStay
  BY <1>1, <1>6, ServiceSteps DEF CreateService, UpdateService
<1>7. ASSUME NEW s \in Services, DeleteService(s) PROVE OrgInv' /\ AccountsStay
  BY <1>7, ServiceDeleted DEF AccountsStay
<1>8. ASSUME NEW m \in Matricules, NEW e \in Emails, NEW d \in Departments \cup {None},
             NEW s \in Services \cup {None}, m \in Staff, UpdateUser(m, e, d, s)
      PROVE  OrgInv' /\ AccountsStay
  <2> DEFINE asked == <<d, s>> # <<staff[m].department, staff[m].service>>
  <2>1. UpdateFits(m, e, d, s, asked) /\ Updated(m, e, d, s) /\ UNCHANGED org
    BY <1>8 DEF UpdateUser
  <2>2. ~asked => d = staff[m].department /\ s = staff[m].service
    OBVIOUS
  <2> HIDE DEF asked
  <2>3. QED
    BY <1>8, <2>1, <2>2, UpdateKeeps DEF AccountsStay
<1>9. ASSUME NEW m \in Matricules, NEW e \in Emails, NEW d \in Departments \cup {None},
             NEW s \in Services \cup {None}, InviteEmployee(m, e, d, s)
      PROVE  OrgInv' /\ AccountsStay
  BY <1>9, InviteKeeps DEF AccountsStay
<1>10. QED
  BY <1>2, <1>3, <1>4, <1>5, <1>6, <1>7, <1>8, <1>9 DEF HrNext

-----------------------------------------------------------------------------
(* The chart.                                                              *)
LEMMA JustOne ==
    ASSUME NEW S, NEW w, \A x : x \in S <=> x = w
    PROVE  \E x : S = {x}
<1>1. S = {w}
  OBVIOUS
<1>2. QED
  BY <1>1

LEMMA AllDrawn == OrgOK => ChartDepartments = Live(department)
BY DEF OrgOK, OrgFits, ChartDepartments

(* Where an active employee of a department is drawn, and where no other   *)
(* node has room for it.                                                   *)
LEMMA DrawnOnce ==
    ASSUME OrgInv, NEW active \in SUBSET Staff, NEW m \in active, staff[m].department # None
    PROVE  \E x : {node \in Chart(active) : m \in node[3]} = {x}
<1>0. PICK d, s : d = staff[m].department /\ s = staff[m].service
  OBVIOUS
<1>1. d \in Live(department) /\ s \in Live(service) \cup {None}
  BY <1>0 DEF OrgInv, StaffOK, StaffFits, Staff
<1>2. m \in InDepartment(active, d) /\ \A e : e # d => m \notin InDepartment(active, e)
  BY <1>0 DEF InDepartment
<1>3. \A node \in OrphanServices(active) : m \notin node[3]
  BY DEF OrphanServices
<1>4. \A e, node : e # d /\ node \in DepartmentNodes(active, e) => m \notin node[3]
  BY <1>2 DEF DepartmentNodes, Directly, ServiceNode
<1> DEFINE here == {node \in Chart(active) : m \in node[3]}
           inService == <<"service", s, ServiceNode(active, d, s)>>
           inDepartment == <<"department", d, Directly(active, d)>>
<1>5. \A x : x \in here
                <=> x \in DepartmentNodes(active, d) /\ m \in x[3]
  BY <1>1, <1>3, <1>4, AllDrawn DEF Chart, OrgInv
<1>6. CASE s # None /\ service[s].department = d
  <2>1. m \notin Directly(active, d)
    BY <1>0, <1>6 DEF Directly
  <2>2. s \in ServicesOf(d) /\ m \in ServiceNode(active, d, s)
    BY <1>0, <1>1, <1>2, <1>6 DEF ServicesOf, ServiceNode
  <2>3. \A z : m \in ServiceNode(active, d, z) => z = s
    BY <1>0 DEF ServiceNode
  <2>4. \A x : x \in DepartmentNodes(active, d) /\ m \in x[3]
                  <=> x = inService
    BY <2>1, <2>2, <2>3 DEF DepartmentNodes
  <2>5. \A x : x \in here <=> x = inService
    BY <1>5, <2>4
  <2>6. \E x : here = {x}
    <3> HIDE DEF here, inService
    <3>1. QED
      BY <2>5, JustOne
  <2>7. QED
    BY <2>6
<1>7. CASE ~(s # None /\ service[s].department = d)
  <2>1. m \in Directly(active, d)
    BY <1>0, <1>2, <1>7 DEF Directly
  <2>2. \A z \in ServicesOf(d) : m \notin ServiceNode(active, d, z)
    BY <1>0, <1>7, NoneAssumption, LiveRows DEF ServicesOf, ServiceNode, OrgInv
  <2>3. \A x : x \in DepartmentNodes(active, d) /\ m \in x[3]
                  <=> x = inDepartment
    BY <2>1, <2>2 DEF DepartmentNodes
  <2>4. \A x : x \in here <=> x = inDepartment
    BY <1>5, <2>3
  <2>5. \E x : here = {x}
    <3> HIDE DEF here, inDepartment
    <3>1. QED
      BY <2>4, JustOne
  <2>6. QED
    BY <2>5
<1>8. QED
  BY <1>6, <1>7

LEMMA DrawnAtMostOnce ==
    ASSUME OrgInv, NEW active \in SUBSET Staff, NEW m \in active, staff[m].department = None
    PROVE  \/ {node \in Chart(active) : m \in node[3]} = {}
           \/ \E x : {node \in Chart(active) : m \in node[3]} = {x}
<1>0. PICK s : s = staff[m].service
  OBVIOUS
<1> DEFINE Orphan(z) == <<"service", z, {k \in active : staff[k].service = z /\ staff[k].department = None}>>
<1>1. \A d \in Live(department) : d # None
  BY NoneAssumption, LiveRows DEF OrgInv
<1>2. \A d \in Live(department) : \A node \in DepartmentNodes(active, d) : m \notin node[3]
  BY <1>1 DEF DepartmentNodes, Directly, ServiceNode, InDepartment
<1>3. \A x : x \in {node \in Chart(active) : m \in node[3]}
                <=> x \in OrphanServices(active) /\ m \in x[3]
  BY <1>2, AllDrawn DEF Chart, OrgInv
<1>4. \A x : x \in OrphanServices(active) /\ m \in x[3] <=> s \in ServicesOf(None) /\ x = Orphan(s)
  BY <1>0 DEF OrphanServices
<1> HIDE DEF Orphan
<1>5. QED
  BY <1>3, <1>4

LEMMA TreeAgrees ==
    ASSUME OrgInv, NEW active \in SUBSET Staff, NEW d \in Live(department)
    PROVE  InDepartment(active, d) = UNION {node[3] : node \in DepartmentNodes(active, d)}
<1>1. ASSUME NEW m \in InDepartment(active, d)
      PROVE  \E node \in DepartmentNodes(active, d) : m \in node[3]
  <2>1. m \in Staff /\ staff[m].service \in Live(service) \cup {None}
    BY <1>1 DEF InDepartment, OrgInv, StaffOK, StaffFits, Staff
  <2>2. CASE m \in Directly(active, d)
    <3>1. <<"department", d, Directly(active, d)>> \in DepartmentNodes(active, d)
      BY DEF DepartmentNodes
    <3>2. m \in <<"department", d, Directly(active, d)>>[3]
      BY <2>2
    <3>3. QED
      BY <3>1, <3>2
  <2>3. CASE m \notin Directly(active, d)
    <3>1. staff[m].service \in ServicesOf(d) /\ m \in ServiceNode(active, d, staff[m].service)
      BY <1>1, <2>1, <2>3 DEF Directly, ServicesOf, ServiceNode
    <3>2. PICK s : s = staff[m].service
      OBVIOUS
    <3>3. <<"service", s, ServiceNode(active, d, s)>> \in DepartmentNodes(active, d)
      BY <3>1, <3>2 DEF DepartmentNodes
    <3>4. m \in <<"service", s, ServiceNode(active, d, s)>>[3]
      BY <3>1, <3>2
    <3>5. QED
      BY <3>3, <3>4
  <2>4. QED
    BY <2>2, <2>3
<1>2. \A node \in DepartmentNodes(active, d) : node[3] \subseteq InDepartment(active, d)
  BY DEF DepartmentNodes, Directly, ServiceNode
<1>3. QED
  BY <1>1, <1>2

(* With the foreign keys kept, the chart is complete.                      *)
LEMMA ChartFollows == OrgInv => ChartComplete
<1> SUFFICES ASSUME OrgInv PROVE ChartComplete
  OBVIOUS
<1>1. ASSUME NEW active \in SUBSET Staff, NEW m \in active
      PROVE  Cardinality({node \in Chart(active) : m \in node[3]})
                \in (IF staff[m].department = None THEN 0..1 ELSE {1})
  <2> DEFINE nodes == {node \in Chart(active) : m \in node[3]}
  <2>1. CASE staff[m].department = None
    <3>1. nodes = {} \/ \E x : nodes = {x}
      BY <2>1, DrawnAtMostOnce
    <3> HIDE DEF nodes
    <3>2. Cardinality(nodes) = 0 \/ Cardinality(nodes) = 1
      BY <3>1, FS_EmptySet, FS_Singleton
    <3>3. QED
      BY <2>1, <3>2 DEF nodes
  <2>2. CASE staff[m].department # None
    <3>1. \E x : nodes = {x}
      BY <2>2, DrawnOnce
    <3> HIDE DEF nodes
    <3>2. Cardinality(nodes) = 1
      BY <3>1, FS_Singleton
    <3>3. QED
      BY <2>2, <3>2 DEF nodes
  <2>3. QED
    BY <2>1, <2>2
<1>2. QED
  BY <1>1, TreeAgrees DEF ChartComplete, TreeCount

=============================================================================
