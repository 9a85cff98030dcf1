---------------------------- MODULE MCStaffImport ----------------------------
(* StaffImport of four rows, into a department and a service that exist,   *)
(* or that the page must create: one with a date that cannot be read, one  *)
(* that is new or of an employee the company has, and two that repeat each *)
(* other.                                                                  *)
EXTENDS StaffImport, TLC

CONSTANTS r1, d1, d2, s1, s2, n1, n2, n3, m1, m2, m3, e1, e2, e3

Row(m, e, dated) == [mat |-> m, email |-> e, dated |-> dated]
MCFile == <<Row(m2, e2, FALSE), Row(m1, e1, TRUE), Row(m3, e3, TRUE), Row(m3, e3, TRUE)>>

(* n1 and n3 differ in case, or in punctuation, which one of the two       *)
(* normalisations keeps.                                                   *)
MCCase == n1 :> n1 @@ n2 :> n2 @@ n3 :> n1
MCPunctuation == n1 :> n1 @@ n2 :> n2 @@ n3 :> n3

MCCompany(directionName, departmentName, serviceName, account) ==
    [direction  |-> r1 :> directionName,
     department |-> d1 :> [name |-> departmentName,
                           direction |-> IF directionName = None THEN None ELSE r1] @@ d2 :> None,
     service    |-> s1 :> [name |-> serviceName, department |-> d1] @@ s2 :> None,
     staff      |-> m1 :> account @@ m2 :> None @@ m3 :> None]

(* The file names the department n1 and the service n2.                    *)
MCStarts == {MCCompany(n1, n1, n2, Account(e1, d1, s1, "HR")),
             MCCompany(None, n3, n2, None),
             MCCompany(None, n2, n1, Account(e3, d1, s1, "HR"))}
=============================================================================
