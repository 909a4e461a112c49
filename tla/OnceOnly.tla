------------------------------ MODULE OnceOnly ------------------------------
(***************************************************************************)
(* What the receipt journal promises its callers: a receipt is printed at  *)
(* most once, however often it is posted and however its printing is       *)
(* interrupted.  The journal's verdict on a receipt is "may" (it may be    *)
(* printed), "unknown" or "done"; only a receipt that was never printed    *)
(* gets, or gets back, the verdict "may".                                  *)
(***************************************************************************)
EXTENDS Sequences

CONSTANTS Receipt, Plain

VARIABLES
    verdict, \* what the journal answers for each receipt
    journal  \* the documents the device has printed, in order

vars == <<verdict, journal>>

Documents == {journal[i] : i \in DOMAIN journal}

Init ==
    /\ verdict = [k \in Receipt |-> "may"]
    /\ journal = <<>>

\* A request for a receipt that may be printed takes it over.
Claim(k) ==
    /\ verdict[k] = "may"
    /\ verdict' = [verdict EXCEPT ![k] = "unknown"]
    /\ UNCHANGED journal

\* The device prints a claimed receipt that it has not printed yet.
Issue(k) ==
    /\ verdict[k] = "unknown"
    /\ k \notin Documents
    /\ journal' = Append(journal, k)
    /\ UNCHANGED verdict

\* A document without a unique sale number is nobody's promise.
IssuePlain ==
    /\ journal' = Append(journal, Plain)
    /\ UNCHANGED verdict

Accept(k) ==
    /\ verdict' = [verdict EXCEPT ![k] = "done"]
    /\ UNCHANGED journal

Release(k) ==
    /\ k \notin Documents
    /\ verdict' = [verdict EXCEPT ![k] = "may"]
    /\ UNCHANGED journal

Next ==
    \/ \E k \in Receipt : Claim(k) \/ Issue(k) \/ Accept(k) \/ Release(k)
    \/ IssuePlain

Spec == Init /\ [][Next]_vars
=============================================================================
