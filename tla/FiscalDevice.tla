---------------------------- MODULE FiscalDevice ----------------------------
(***************************************************************************)
(* A Datecs PM fiscal device as the receipt route sees it: the document    *)
(* that is open, how far it is paid, and the fiscal journal of the         *)
(* documents it has printed.  The program carries its own model of the     *)
(* device (drivers/fiscal/datecs_pm/transport_virtual.py); the operators   *)
(* below are its command handlers, as seen through PmDevice._exchange,     *)
(* which retries with the same SEQ and then gives up without an answer.    *)
(*                                                                         *)
(* A command is the set of its possible outcomes: the state the device is  *)
(* left in and the answer that reaches the caller, where "none" is a link  *)
(* failure: the command may have been executed or not.                     *)
(***************************************************************************)
EXTENDS Integers, Sequences

CONSTANTS Receipt,  \* receipts with a unique sale number (journal keys)
          Plain     \* any document printed without one

ASSUME PlainAssumption == Plain \notin Receipt

Document == Receipt \cup {Plain}

\* How far the open document is paid; "closed" when no document is open.
Paid == {"closed", "no", "part", "full"}

Device == [printed : Seq(Document), key : Document, paid : Paid]

FreshDevice == [printed |-> <<>>, key |-> Plain, paid |-> "closed"]

IsOpen(d) == d.paid # "closed"

\* The number the open document was given and will be printed under.
Slip(d) == Len(d.printed) + 1

\* Number of the open document, or of the last printed one (command 0x4C).
StatusNumber(d) == IF IsOpen(d) THEN Slip(d) ELSE Len(d.printed)

IsPrinted(d, k) == \E i \in 1..Len(d.printed) : d.printed[i] = k

Outcome(d, a) == [dev |-> d, answer |-> a]

\* The device refuses the command, or the command never reaches it.
NotExecuted(d) == {Outcome(d, "refused"), Outcome(d, "none")}

\* The device executes the command; the answer arrives or is lost.
Executed(d) == {Outcome(d, "ok"), Outcome(d, "none")}

Opened(d, k) == [d EXCEPT !.key = k, !.paid = "no"]
Cleared(d) == [d EXCEPT !.key = Plain, !.paid = "closed"]
Printed(d) ==
    [printed |-> Append(d.printed, d.key), key |-> Plain, paid |-> "closed"]

(* 0x30 and 0x2B: refused without paper and while a document is open.      *)
OpenCommand(d, k) ==
    NotExecuted(d) \cup (IF IsOpen(d) THEN {} ELSE Executed(Opened(d, k)))

(* 0x31, 0x3A and 0x33: the lines are not part of the state.               *)
LineCommand(d) == NotExecuted(d) \cup Executed(d)

(* 0x35: adds one payment; what is paid may not yet cover the total.       *)
PaymentCommand(d) ==
    NotExecuted(d) \cup
        (IF IsOpen(d)
         THEN UNION {Executed([d EXCEPT !.paid = p]) :
                     p \in IF d.paid = "full" THEN {"full"} ELSE {"part", "full"}}
         ELSE {})

(* 0x38: prints the document, only when it is paid in full.                *)
CloseCommand(d) ==
    NotExecuted(d) \cup (IF d.paid = "full" THEN Executed(Printed(d)) ELSE {})

(* 0x3C: refused when nothing is open and after the first payment.  The    *)
(* number of a cancelled document goes to the next one that is opened.     *)
CancelCommand(d) ==
    NotExecuted(d) \cup (IF d.paid = "no" THEN Executed(Cleared(d)) ELSE {})
=============================================================================
