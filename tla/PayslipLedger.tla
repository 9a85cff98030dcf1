---------------------------- MODULE PayslipLedger ----------------------------
(***************************************************************************)
(* What the payslip services promise, with no store, no request and no     *)
(* failure in sight: for every employee and month there is at most one     *)
(* payslip; it is published unread, may become read, may be acknowledged   *)
(* once, and never loses what was acknowledged except by being withdrawn.  *)
(* A document is acknowledged at most once, even after its withdrawal.     *)
(***************************************************************************)
CONSTANTS Slots, Docs, Null

VARIABLES
    ledger,    \* per (employee, period): the document and its status
    receipts   \* documents that were ever acknowledged

vars == <<ledger, receipts>>

Absent == [doc |-> Null, status |-> "absent"]
Entry(d, status) == [doc |-> d, status |-> status]

Init == ledger = [s \in Slots |-> Absent] /\ receipts = {}

Publish(s, d) ==
    /\ ledger[s] = Absent
    /\ d \notin receipts
    /\ \A t \in Slots : ledger[t].doc # d
    /\ ledger' = [ledger EXCEPT ![s] = Entry(d, "unread")]
    /\ UNCHANGED receipts

Read(s) ==
    /\ ledger[s].status = "unread"
    /\ ledger' = [ledger EXCEPT ![s].status = "read"]
    /\ UNCHANGED receipts

Acknowledge(s) ==
    /\ ledger[s].status \in {"unread", "read"}
    /\ ledger[s].doc \notin receipts
    /\ ledger' = [ledger EXCEPT ![s].status = "signed"]
    /\ receipts' = receipts \cup {ledger[s].doc}

Withdraw(s) ==
    /\ ledger[s] # Absent
    /\ ledger' = [ledger EXCEPT ![s] = Absent]
    /\ UNCHANGED receipts

Next ==
    \E s \in Slots :
        \/ \E d \in Docs : Publish(s, d)
        \/ Read(s) \/ Acknowledge(s) \/ Withdraw(s)

Spec == Init /\ [][Next]_vars
=============================================================================
