------------------------ MODULE ReceiptPrintingProofs ------------------------
(***************************************************************************)
(* Proofs about ReceiptPrinting, for any sets of receipts and requests and *)
(* any number of restarts.  IInv needs that nobody decides a row while its *)
(* receipt is being printed (Quiet); RunInv, further down, does not.       *)
(***************************************************************************)
EXTENDS ReceiptPrinting, TLAPS

-----------------------------------------------------------------------------
(* What a command of the device may leave behind (FiscalDevice).           *)

\* Opening: nothing happened, or the device was free and holds a new document.
LEMMA OpenOutcome ==
    ASSUME NEW d \in Device, NEW k \in Document, NEW o \in OpenCommand(d, k)
    PROVE  /\ o.dev = d \/ (~IsOpen(d) /\ o.dev = Opened(d, k))
           /\ o.answer = "ok" => ~IsOpen(d) /\ o.dev = Opened(d, k)
  BY DEF OpenCommand, NotExecuted, Executed, Outcome

\* Lines: the modelled state does not change.
LEMMA LineOutcome ==
    ASSUME NEW d \in Device, NEW o \in LineCommand(d)
    PROVE  o.dev = d
  BY DEF LineCommand, NotExecuted, Executed, Outcome

\* Paying: nothing happened, or the open document is paid in part or in full.
LEMMA PaymentOutcome ==
    ASSUME NEW d \in Device, NEW o \in PaymentCommand(d)
    PROVE  \/ o.dev = d /\ o.answer # "ok"
           \/ /\ IsOpen(d)
              /\ \E p \in {"part", "full"} : o.dev = [d EXCEPT !.paid = p]
  BY DEF PaymentCommand, NotExecuted, Executed, Outcome

\* Closing: nothing happened, or the paid document is printed.
LEMMA CloseOutcome ==
    ASSUME NEW d \in Device, NEW o \in CloseCommand(d)
    PROVE  /\ o.dev = d \/ (d.paid = "full" /\ o.dev = Printed(d))
           /\ o.answer = "ok" => d.paid = "full" /\ o.dev = Printed(d)
  BY DEF CloseCommand, NotExecuted, Executed, Outcome

\* Cancelling: nothing happened, or an unpaid document is gone.
LEMMA CancelOutcome ==
    ASSUME NEW d \in Device, NEW o \in CancelCommand(d)
    PROVE  o.dev = d \/ (d.paid = "no" /\ o.dev = Cleared(d))
  BY DEF CancelCommand, NotExecuted, Executed, Outcome

\* A step of the device during one command.
DeviceStep(d, e, k) ==
    \/ e = d
    \/ ~IsOpen(d) /\ e = Opened(d, k)
    \/ IsOpen(d) /\ \E p \in {"part", "full"} : e = [d EXCEPT !.paid = p]
    \/ d.paid = "full" /\ e = Printed(d)
    \/ d.paid = "no" /\ e = Cleared(d)

\* The device's state stays a state of the device.
LEMMA DeviceTyped ==
    ASSUME NEW d \in Device, NEW e, NEW k \in Document, DeviceStep(d, e, k)
    PROVE  e \in Device
<1>1. CASE e = d
  BY <1>1
<1>2. CASE e = Opened(d, k)
  BY <1>2 DEF Device, Opened, Paid
<1>3. CASE \E p \in {"part", "full"} : e = [d EXCEPT !.paid = p]
  BY <1>3 DEF Device, Paid
<1>4. CASE e = Printed(d)
  <2>1. Append(d.printed, d.key) \in Seq(Document)
    BY DEF Device
  <2>2. QED BY <1>4, <2>1 DEF Device, Printed, Paid, Document
<1>5. CASE e = Cleared(d)
  BY <1>5 DEF Device, Cleared, Paid, Document
<1>6. QED BY <1>1, <1>2, <1>3, <1>4, <1>5 DEF DeviceStep

\* What a command leaves is a state of the device.
LEMMA OutcomeTyped ==
    ASSUME NEW d \in Device, NEW k \in Document, NEW o,
           \/ o \in OpenCommand(d, k) \/ o \in LineCommand(d)
           \/ o \in PaymentCommand(d) \/ o \in CloseCommand(d)
           \/ o \in CancelCommand(d)
    PROVE  o.dev \in Device
<1>1. DeviceStep(d, o.dev, k)
  BY OpenOutcome, LineOutcome, PaymentOutcome, CloseOutcome, CancelOutcome
  DEF DeviceStep
<1>2. QED BY <1>1, DeviceTyped

\* Only the command that closes a document prints.
LEMMA SamePrinted ==
    ASSUME NEW d \in Device, NEW k \in Document, NEW o,
           \/ o \in OpenCommand(d, k) \/ o \in LineCommand(d)
           \/ o \in PaymentCommand(d) \/ o \in CancelCommand(d)
    PROVE  o.dev.printed = d.printed
<1>1. /\ Opened(d, k).printed = d.printed /\ Cleared(d).printed = d.printed
      /\ \A p : [d EXCEPT !.paid = p].printed = d.printed
  BY DEF Opened, Cleared, Device
<1>2. CASE o \in OpenCommand(d, k) \/ o \in LineCommand(d)
  BY <1>1, <1>2, OpenOutcome, LineOutcome
<1>3. CASE o \in PaymentCommand(d)
  <2>1. o.dev = d \/ \E p \in {"part", "full"} : o.dev = [d EXCEPT !.paid = p]
    BY <1>3, PaymentOutcome
  <2>2. QED BY <1>1, <2>1
<1>4. CASE o \in CancelCommand(d)
  BY <1>1, <1>4, CancelOutcome
<1>5. QED BY <1>2, <1>3, <1>4

\* Printing appends the open document and keeps what was printed before.
LEMMA PrintedSequence ==
    ASSUME NEW d \in Device
    PROVE  /\ Len(Printed(d).printed) = Len(d.printed) + 1
           /\ \A i \in 1..Len(d.printed) : Printed(d).printed[i] = d.printed[i]
           /\ Printed(d).printed[Len(d.printed) + 1] = d.key
           /\ Printed(d).key = Plain /\ Printed(d).paid = "closed"
  BY DEF Device, Printed

\* So it adds its own document, and no other, to what is printed.
LEMMA PrintedAdds ==
    ASSUME NEW d \in Device, NEW k
    PROVE  IsPrinted(Printed(d), k) <=> IsPrinted(d, k) \/ k = d.key
<1>1. Len(d.printed) \in Nat
  BY DEF Device
<1>2. QED BY <1>1, PrintedSequence DEF IsPrinted

-----------------------------------------------------------------------------
(* Type correctness.                                                       *)

\* put() stores a row.
LEMMA PutTyped ==
    ASSUME TypeOK, NEW k \in Document, NEW st \in RowState, NEW sg \in Stage,
           NEW n \in Nat, Put(k, st, sg, n)
    PROVE  row' \in [Receipt -> Row]
<1>1. CASE k \in Receipt
  BY <1>1 DEF TypeOK, Put, Row
<1>2. CASE k \notin Receipt
  BY <1>2 DEF TypeOK, Put
<1>3. QED BY <1>1, <1>2

\* The rows a reconciliation reads are receipts with their slips.
LEMMA PendingRowsTyped ==
    ASSUME TypeOK
    PROVE  PendingRows \subseteq [key : Receipt, slip : Nat]
  BY DEF TypeOK, PendingRows, Row

\* The end of a run leaves every variable it touches typed.
LEMMA EndRunTyped ==
    ASSUME TypeOK, NEW r \in Request, NEW a \in Reply, EndRun(r, a)
    PROVE  /\ lock' \in Request \cup {NoRequest}
           /\ inflight' \in [Receipt -> Request \cup {NoRequest}]
           /\ pc' \in [Request -> PC]
           /\ reply' \in [Request -> Reply]
           /\ UNCHANGED <<key, waits, todo, stopping, restarts>>
  BY DEF TypeOK, EndRun, PC

LEMMA FailTyped ==
    ASSUME TypeOK, NEW r \in Request, Fail(r), dev' \in Device
    PROVE  TypeOK'
<1> USE DEF TypeOK, RowState, Stage, Reply, UnknownStages, Document
<1>1. CASE key[r] = Plain /\ UNCHANGED row /\ EndRun(r, "error")
  BY <1>1, EndRunTyped DEF Fail
<1>2. CASE key[r] # Plain /\ Put(key[r], "pending", stage[r], slip[r]) /\ EndRun(r, "unknown")
  BY <1>2, EndRunTyped, PutTyped DEF Fail
<1>3. CASE key[r] # Plain /\ Put(key[r], "failed", stage[r], 0) /\ EndRun(r, "error")
  BY <1>3, EndRunTyped, PutTyped DEF Fail
<1>4. QED BY <1>1, <1>2, <1>3 DEF Fail

LEMMA ByRowTyped ==
    ASSUME TypeOK, NEW r \in Request, NEW k \in Document, ByRow(r, k),
           key' \in [Request -> Document],
           UNCHANGED <<dev, lock, todo, stopping, restarts>>
    PROVE  TypeOK'
<1> USE DEF TypeOK, RowState, Stage, Reply, PC, Running
<1>1. CASE \E a \in {"already", "unknown"} : Answer(r, a)
  BY <1>1 DEF Answer
<1>2. CASE Start(r, k)
  BY <1>2, PutTyped DEF Start
<1>3. CASE Refuse(r, k)
  BY <1>3, PutTyped DEF Refuse
<1>4. QED BY <1>1, <1>2, <1>3 DEF ByRow

LEMMA TypeStep == TypeOK /\ [Next]_vars => TypeOK'
<1> SUFFICES ASSUME TypeOK, [Next]_vars PROVE TypeOK'
  OBVIOUS
<1> USE SwitchesAssumption, RestartsAssumption
<1>1. ASSUME NEW r \in Request, Post(r) PROVE TypeOK'
  <2>1. PICK k \in Document :
          /\ key' = [key EXCEPT ![r] = k]
          /\ \/ k = Plain /\ PostPlain(r)
             \/ k \in Receipt /\ PostWaits(r, k)
             \/ k \in Receipt /\ inflight[k] = NoRequest /\ ByRow(r, k)
    BY <1>1 DEF Post
  <2>2. key' \in [Request -> Document] /\ UNCHANGED <<dev, lock, todo, stopping, restarts>>
    BY <1>1, <2>1 DEF Post, TypeOK
  <2>3. CASE k = Plain /\ PostPlain(r)
    BY <2>2, <2>3 DEF PostPlain, TypeOK, PC, Running
  <2>4. CASE k \in Receipt /\ PostWaits(r, k)
    BY <2>2, <2>4 DEF PostWaits, TypeOK, PC
  <2>5. CASE k \in Receipt /\ ByRow(r, k)
    BY <2>2, <2>5, ByRowTyped DEF Document
  <2>6. QED BY <2>1, <2>3, <2>4, <2>5
<1>2. ASSUME NEW r \in Request, Wake(r) PROVE TypeOK'
  BY <1>2, ByRowTyped DEF Wake, TypeOK
<1>3. ASSUME NEW r \in Request, AcquireLock(r) PROVE TypeOK'
  BY <1>3 DEF AcquireLock, TypeOK, PC, Running
<1>4. ASSUME NEW r \in Request, OpenReceipt(r) PROVE TypeOK'
  <2>1. PICK o \in OpenCommand(dev, key[r]) :
          /\ dev' = o.dev
          /\ \/ /\ o.answer = "ok"
                /\ slip' = [slip EXCEPT ![r] = Slip(o.dev)]
                /\ Goto(r, "selling")
                /\ UNCHANGED stage
             \/ o.answer # "ok" /\ Fail(r)
    BY <1>4 DEF OpenReceipt
  <2>2. dev' \in Device
    BY <2>1, OutcomeTyped DEF TypeOK
  <2>3. CASE Fail(r)
    BY <2>2, <2>3, FailTyped
  <2>4. CASE /\ slip' = [slip EXCEPT ![r] = Slip(dev')]
             /\ Goto(r, "selling") /\ UNCHANGED stage
    <3>1. Slip(dev') \in Nat
      BY <2>2 DEF Slip, Device
    <3>2. QED BY <2>2, <2>4, <3>1 DEF Goto, Kept, TypeOK, PC, Running
  <2>5. QED BY <2>1, <2>3, <2>4
<1>5. ASSUME NEW r \in Request, RegisterItems(r) PROVE TypeOK'
  BY <1>5, LineOutcome DEF RegisterItems, Goto, Kept, TypeOK, PC, Running, Stage
<1>6. ASSUME NEW r \in Request, PayTotal(r) PROVE TypeOK'
  <2>1. dev' \in Device
    BY <1>6, OutcomeTyped DEF PayTotal, TypeOK, Document
  <2>2. QED BY <1>6, <2>1 DEF PayTotal, Goto, Kept, TypeOK, PC, Running, Stage
<1>7. ASSUME NEW r \in Request, CloseReceipt(r) PROVE TypeOK'
  <2>1. dev' \in Device
    BY <1>7, OutcomeTyped DEF CloseReceipt, TypeOK, Document
  <2>2. QED BY <1>7, <2>1 DEF CloseReceipt, Goto, Kept, TypeOK, PC, Running
<1>8. ASSUME NEW r \in Request, CancelReceipt(r) PROVE TypeOK'
  <2>1. dev' \in Device
    BY <1>8, OutcomeTyped DEF CancelReceipt, TypeOK, Document
  <2>2. QED BY <1>8, <2>1, FailTyped DEF CancelReceipt
<1>9. ASSUME NEW r \in Request, ReportPrinted(r) PROVE TypeOK'
  BY <1>9, EndRunTyped, PutTyped
  DEF ReportPrinted, Succeed, TypeOK, RowState, Stage, Reply
<1>10. ASSUME NEW r \in Request, CancelTask(r) PROVE TypeOK'
  <2>1. PICK o \in CommandInFlight(r) : dev' = o.dev
    BY <1>10 DEF CancelTask
  <2>2. o.dev \in Device
    <3>1. dev \in Device /\ key[r] \in Document
      BY DEF TypeOK
    <3>2. \/ o \in OpenCommand(dev, key[r]) \/ o \in LineCommand(dev)
          \/ o \in PaymentCommand(dev) \/ o \in CloseCommand(dev)
          \/ o \in CancelCommand(dev)
      BY <2>1 DEF CommandInFlight
    <3>3. QED BY <3>1, <3>2, OutcomeTyped
  <2>3. QED BY <1>10, <2>1, <2>2, EndRunTyped, PutTyped
            DEF CancelTask, TypeOK, RowState, Stage, Reply
<1>11. ASSUME BeginReconcile PROVE TypeOK'
  BY <1>11, PendingRowsTyped DEF BeginReconcile, TypeOK, request
<1>12. ASSUME NEW t \in todo, ReconcileRow(t) PROVE TypeOK'
  BY <1>12, PutTyped
  DEF ReconcileRow, TypeOK, request, Decision, RowState, Stage, Document
<1>13. ASSUME NEW k \in Receipt, ResolveReceipt(k) PROVE TypeOK'
  BY <1>13, PutTyped DEF ResolveReceipt, TypeOK, request, RowState, Stage, Document
<1>14. ASSUME ResetPrinter PROVE TypeOK'
  <2>1. dev' \in Device
    BY <1>14, OutcomeTyped DEF ResetPrinter, TypeOK, Document
  <2>2. QED BY <1>14, <2>1 DEF ResetPrinter, TypeOK, request
<1>15. ASSUME ClearByHand PROVE TypeOK'
  <2>1. DeviceStep(dev, Printed(dev), Plain) \/ dev.paid # "full"
    BY DEF DeviceStep
  <2>2. Cleared(dev) \in Device
    BY DEF TypeOK, Cleared, Device, Paid, Document
  <2>3. dev' \in Device
    BY <1>15, <2>1, <2>2, DeviceTyped DEF ClearByHand, TypeOK, Document
  <2>4. QED BY <1>15, <2>3 DEF ClearByHand, TypeOK, request
<1>16. ASSUME BeginShutdown PROVE TypeOK'
  BY <1>16 DEF BeginShutdown, TypeOK, request
<1>17. ASSUME Restart PROVE TypeOK'
  <2>1. todo' \subseteq [key : Receipt, slip : Nat]
    BY <1>17, PendingRowsTyped DEF Restart
  <2>2. pc' \in [Request -> PC] /\ reply' \in [Request -> Reply]
    BY <1>17 DEF Restart, TypeOK, PC, Reply
  <2>3. restarts' \in 0..MaxRestarts
    BY <1>17 DEF Restart, TypeOK
  <2>4. QED BY <1>17, <2>1, <2>2, <2>3 DEF Restart, TypeOK
<1>18. CASE UNCHANGED vars
  BY <1>18 DEF vars, request, TypeOK
<1>19. QED
  BY <1>1, <1>2, <1>3, <1>4, <1>5, <1>6, <1>7, <1>8, <1>9, <1>10, <1>11, <1>12,
     <1>13, <1>14, <1>15, <1>16, <1>17, <1>18
  DEF Next, PrintStep

LEMMA InitTyped == Init => TypeOK
<1> SUFFICES ASSUME Init PROVE TypeOK
  OBVIOUS
<1>1. dev \in Device
  <2>1. <<>> \in Seq(Document)
    OBVIOUS
  <2>2. QED BY <2>1 DEF Init, FreshDevice, Device, Paid, Document
<1>2. row \in [Receipt -> Row]
  BY DEF Init, Row, RowState, Stage
<1>3. restarts \in 0..MaxRestarts
  BY RestartsAssumption DEF Init
<1>4. QED BY <1>1, <1>2, <1>3 DEF Init, TypeOK, Document, Stage, PC, Reply

\* Every variable keeps its type (TypeOK), whatever the constants.
THEOREM TypeCorrect == Spec => []TypeOK
  BY InitTyped, TypeStep, PTL DEF Spec

-----------------------------------------------------------------------------
(* The inductive invariant.                                                *)

\* Nobody decides a row while its receipt is being printed.
Quiet == ~ReconcileInFlight /\ ~ResolveInFlight

LEMMA InitInvariant == Init => IInv
<1> SUFFICES ASSUME Init PROVE IInv
  OBVIOUS
<1>1. ~IsOpen(dev) /\ dev.key = Plain /\ \A k : ~IsPrinted(dev, k)
  BY DEF Init, FreshDevice, IsOpen, IsPrinted
<1>2. Len(dev.printed) = 0
  BY DEF Init, FreshDevice
<1>3. Ownership /\ LockHeld
  BY RequestAssumption DEF Init, Ownership, LockHeld, Running, Holding
<1>4. OpenDocument /\ BeforeOpening /\ WhileOpen
  BY <1>1, PlainAssumption DEF Init, OpenDocument, BeforeOpening, WhileOpen
<1>5. SlipsRecorded
  BY <1>1, <1>2 DEF Init, SlipsRecorded, SlipBound, Running
<1>6. Unanswered /\ AtMostOnePrint /\ OkMeansPrinted
  BY <1>2 DEF Init, Unanswered, AtMostOnePrint, OkMeansPrinted
<1>7. FailedMeansNotPrinted
  BY <1>1, PlainAssumption DEF FailedMeansNotPrinted
<1>8. QED
  BY InitTyped, <1>3, <1>4, <1>5, <1>6, <1>7 DEF IInv

\* The end of a run hands over its entry of _inflight and the lock.
LEMMA EndRunKeeps ==
    ASSUME IInv, NEW r \in Request, pc[r] \in Running, NEW a \in Reply, EndRun(r, a),
           row' \in [Receipt -> Row],
           \A k \in Receipt : k # key[r] => row'[k] = row[k]
    PROVE  /\ Ownership'
           /\ LockHeld'
           /\ \A q \in Request :
                pc'[q] \in Running => q # r /\ pc'[q] = pc[q]
                                      /\ (key[q] = Plain \/ key[q] # key[r])
           /\ \A q \in Request : pc'[q] = "new" => q # r /\ pc[q] = "new"
<1> USE DEF IInv, TypeOK, Ownership, LockHeld, EndRun, Running, Holding
<1>1. Ownership'
  BY RequestAssumption, PlainAssumption DEF Document
<1>2. LockHeld'
  BY RequestAssumption
<1>3. QED BY <1>1, <1>2

\* What the journal's row decides for a request that waits for no run.
LEMMA ByRowKeeps ==
    ASSUME IInv, NEW r \in Request, NEW k \in Receipt, pc[r] \in {"new", "woken"},
           ByRow(r, k), key' = [key EXCEPT ![r] = k],
           UNCHANGED <<dev, lock, todo, stopping, restarts>>
    PROVE  IInv'
<1>0. TypeOK' /\ TypeOK /\ pc[r] \notin Running /\ k \in Document /\ k # Plain
  <2>1. key' \in [Request -> Document]
    BY DEF IInv, TypeOK, Document
  <2>2. QED BY <2>1, ByRowTyped, PlainAssumption DEF IInv, Document, Running
<1>1. CASE \E a \in {"already", "unknown"} : Answer(r, a)
  <2> USE <1>0, <1>1 DEF Answer, IInv, TypeOK
  <2>1. Ownership' /\ LockHeld'
    BY DEF Ownership, LockHeld, Running, Holding
  <2>2. OpenDocument' /\ BeforeOpening'
    BY DEF OpenDocument, BeforeOpening
  <2>3. WhileOpen'
    BY DEF WhileOpen
  <2>4. SlipsRecorded' /\ Unanswered'
    BY DEF SlipsRecorded, SlipBound, Unanswered, Running
  <2>5. AtMostOnePrint' /\ FailedMeansNotPrinted' /\ OkMeansPrinted'
    BY DEF AtMostOnePrint, FailedMeansNotPrinted, OkMeansPrinted, Unanswered
  <2>6. QED BY <2>1, <2>2, <2>3, <2>4, <2>5
<1>2. CASE row[k].state \in {"none", "failed"} /\ Start(r, k)
  <2> USE <1>0, <1>2 DEF Start, Put, IInv, TypeOK
  <2>0. inflight[k] = NoRequest
    BY DEF Ownership
  <2>1. Ownership' /\ LockHeld'
    BY <2>0, RequestAssumption DEF Ownership, LockHeld, Running, Holding
  <2>2. OpenDocument' /\ BeforeOpening'
    BY DEF OpenDocument, BeforeOpening, FailedMeansNotPrinted
  <2>3. WhileOpen'
    BY DEF WhileOpen
  <2>4. SlipsRecorded' /\ Unanswered'
    BY DEF SlipsRecorded, SlipBound, Unanswered, Running, FailedMeansNotPrinted
  <2>5. AtMostOnePrint' /\ FailedMeansNotPrinted'
    BY DEF AtMostOnePrint, FailedMeansNotPrinted
  <2>6. OkMeansPrinted'
    BY DEF OkMeansPrinted, Unanswered
  <2>7. QED BY <2>1, <2>2, <2>3, <2>4, <2>5, <2>6
<1>3. CASE row[k].state \in {"none", "failed"} /\ Refuse(r, k)
  <2> USE <1>0, <1>3 DEF Refuse, Put, IInv, TypeOK
  <2>1. Ownership' /\ LockHeld'
    BY DEF Ownership, LockHeld, Running, Holding
  <2>2. OpenDocument' /\ BeforeOpening'
    BY DEF OpenDocument, BeforeOpening
  <2>3. WhileOpen'
    BY DEF WhileOpen
  <2>4. SlipsRecorded' /\ Unanswered'
    BY DEF SlipsRecorded, SlipBound, Unanswered, Running
  <2>5. AtMostOnePrint' /\ FailedMeansNotPrinted' /\ OkMeansPrinted'
    BY DEF AtMostOnePrint, FailedMeansNotPrinted, OkMeansPrinted, Unanswered
  <2>6. QED BY <2>1, <2>2, <2>3, <2>4, <2>5
<1>4. QED BY <1>1, <1>2, <1>3 DEF ByRow

\* A POST, or a waiter that its run has woken.
LEMMA PostKeeps ==
    ASSUME IInv, NEW r \in Request, Post(r) \/ Wake(r)
    PROVE  IInv'
<1>1. CASE Wake(r)
  <2>1. key[r] \in Receipt /\ key' = [key EXCEPT ![r] = key[r]]
    BY <1>1 DEF Wake, IInv, TypeOK, Ownership, Document
  <2>2. QED BY <1>1, <2>1, ByRowKeeps DEF Wake
<1>2. CASE Post(r)
  <2>1. PICK k \in Document :
          /\ key' = [key EXCEPT ![r] = k]
          /\ \/ k = Plain /\ PostPlain(r)
             \/ k \in Receipt /\ PostWaits(r, k)
             \/ k \in Receipt /\ inflight[k] = NoRequest /\ ByRow(r, k)
    BY <1>2 DEF Post
  <2>2. pc[r] = "new" /\ UNCHANGED <<dev, lock, todo, stopping, restarts>>
    BY <1>2 DEF Post
  <2>3. CASE k \in Receipt /\ ByRow(r, k)
    BY <2>1, <2>2, <2>3, ByRowKeeps
  <2>4. CASE (k = Plain /\ PostPlain(r)) \/ (k \in Receipt /\ PostWaits(r, k))
    <3>0. TypeOK'
      BY <1>2, TypeStep DEF IInv, Next
    <3> USE <2>1, <2>2, <2>4, <3>0, PlainAssumption
        DEF PostPlain, PostWaits, IInv, TypeOK
    <3>1. Ownership' /\ LockHeld'
      BY DEF Ownership, LockHeld, Running, Holding
    <3>2. OpenDocument' /\ BeforeOpening'
      BY DEF OpenDocument, BeforeOpening
    <3>3. WhileOpen'
      BY DEF WhileOpen
    <3>4. SlipsRecorded' /\ Unanswered'
      BY DEF SlipsRecorded, SlipBound, Unanswered, Running
    <3>5. AtMostOnePrint' /\ FailedMeansNotPrinted'
      BY DEF AtMostOnePrint, FailedMeansNotPrinted
    <3>6. OkMeansPrinted'
      BY DEF OkMeansPrinted, Unanswered
    <3>7. QED BY <3>1, <3>2, <3>3, <3>4, <3>5, <3>6
  <2>5. QED BY <2>1, <2>3, <2>4
<1>3. QED BY <1>1, <1>2

-----------------------------------------------------------------------------
(* The device under a run, and under no run.                               *)

\* What the commands of a run do to the device, by how far the run is.
RunDeviceStep(r) ==
    \/ dev' = dev
    \/ pc[r] = "opening" /\ ~IsOpen(dev) /\ dev' = Opened(dev, key[r])
    \/ /\ pc[r] = "paying" /\ IsOpen(dev)
       /\ \E p \in {"part", "full"} : dev' = [dev EXCEPT !.paid = p]
    \/ pc[r] = "closing" /\ dev.paid = "full" /\ dev' = Printed(dev)
    \/ pc[r] = "cancelling" /\ dev.paid = "no" /\ dev' = Cleared(dev)

\* What a device step keeps, the journal's rows being as they were.
DeviceKeeps ==
    /\ dev' \in Device
    /\ AtMostOnePrint'
    /\ \A c \in Document : IsPrinted(dev, c) => IsPrinted(dev', c)
    /\ \A c \in Receipt, n \in Nat : SlipBound(c, n) => SlipBound(c, n)'
    /\ dev'.paid = "closed" => dev'.key = Plain
    /\ dev'.key \in Receipt =>
        ~IsPrinted(dev', dev'.key) /\ row[dev'.key].state # "done"
    /\ \A c \in Receipt : row[c].state \in {"none", "failed"} =>
        ~IsPrinted(dev', c) /\ ~(dev'.key = c /\ dev'.paid = "full")
    /\ \A q \in Request : pc[q] = "queued" /\ key[q] # Plain =>
        ~IsPrinted(dev', key[q]) /\ ~(dev'.key = key[q] /\ dev'.paid = "full")

\* Printing the open document: at most one print of each receipt.
LEMMA PrintedOnce ==
    ASSUME IInv, dev.paid = "full", dev' = Printed(dev)
    PROVE  AtMostOnePrint'
<1>0. dev \in Device /\ Len(dev.printed) \in Nat
  BY DEF IInv, TypeOK, Device
<1>1. SUFFICES ASSUME NEW k \in Receipt,
                      NEW i \in 1..Len(dev'.printed), NEW j \in 1..Len(dev'.printed),
                      dev'.printed[i] = k, dev'.printed[j] = k
               PROVE  i = j
  BY DEF AtMostOnePrint
<1>2. \A n \in 1..Len(dev'.printed) :
        IF n = Len(dev.printed) + 1 THEN dev'.printed[n] = dev.key
        ELSE n \in 1..Len(dev.printed) /\ dev'.printed[n] = dev.printed[n]
  BY <1>0, PrintedSequence
<1>3. k = dev.key => ~IsPrinted(dev, k)
  BY DEF IInv, OpenDocument
<1>4. CASE i = Len(dev.printed) + 1
  BY <1>0, <1>1, <1>2, <1>3, <1>4 DEF IsPrinted
<1>5. CASE j = Len(dev.printed) + 1
  BY <1>0, <1>1, <1>2, <1>3, <1>5 DEF IsPrinted
<1>6. CASE i # Len(dev.printed) + 1 /\ j # Len(dev.printed) + 1
  BY <1>1, <1>2, <1>6 DEF IInv, AtMostOnePrint
<1>7. QED BY <1>4, <1>5, <1>6

\* What a run does to the device while it holds the lock.
LEMMA RunKeepsDevice ==
    ASSUME IInv, NEW r \in Request, pc[r] \in Holding, RunDeviceStep(r)
    PROVE  DeviceKeeps
<1>0. dev \in Device /\ key[r] \in Document /\ Len(dev.printed) \in Nat
  BY DEF IInv, TypeOK, Device
<1>1. \A q \in Request : pc[q] = "queued" /\ key[q] # Plain => key[q] # key[r]
  BY DEF IInv, Ownership, Running, Holding
<1>2. key[r] \in Receipt => row[key[r]].state = "pending"
  BY RequestAssumption, PlainAssumption DEF IInv, Ownership, Holding, TypeOK
<1> USE DEF DeviceKeeps, IsOpen, SlipBound
<1>3. CASE dev' = dev
  BY <1>0, <1>3 DEF IInv, OpenDocument, BeforeOpening, FailedMeansNotPrinted,
                    AtMostOnePrint, IsPrinted
<1>4. CASE pc[r] = "opening" /\ ~IsOpen(dev) /\ dev' = Opened(dev, key[r])
  <2>1. dev'.printed = dev.printed /\ dev'.key = key[r] /\ dev'.paid = "no"
    BY <1>0, <1>4 DEF Opened, Device
  <2>2. dev' \in Device
    BY <1>0, <1>4, DeviceTyped DEF DeviceStep
  <2>3. key[r] \in Receipt => ~IsPrinted(dev, key[r])
    BY <1>4, PlainAssumption DEF IInv, BeforeOpening
  <2>4. QED BY <1>0, <1>2, <2>1, <2>2, <2>3
            DEF IInv, BeforeOpening, FailedMeansNotPrinted, AtMostOnePrint, IsPrinted
<1>5. CASE /\ pc[r] = "paying" /\ IsOpen(dev)
           /\ \E p \in {"part", "full"} : dev' = [dev EXCEPT !.paid = p]
  <2>1. dev'.printed = dev.printed /\ dev'.key = dev.key /\ dev'.paid # "closed"
    BY <1>0, <1>5 DEF Device
  <2>2. dev' \in Device
    BY <1>0, <1>5, DeviceTyped DEF DeviceStep
  <2>3. dev.key = key[r]
    BY <1>5 DEF IInv, WhileOpen
  <2>4. QED BY <1>0, <1>1, <1>2, <2>1, <2>2, <2>3
            DEF IInv, OpenDocument, BeforeOpening, FailedMeansNotPrinted,
                AtMostOnePrint, IsPrinted
<1>6. CASE pc[r] = "closing" /\ dev.paid = "full" /\ dev' = Printed(dev)
  <2>1. Len(dev'.printed) = Len(dev.printed) + 1 /\ dev'.key = Plain /\ dev'.paid = "closed"
    BY <1>0, <1>6, PrintedSequence
  <2>2. dev' \in Device
    BY <1>0, <1>6, DeviceTyped DEF DeviceStep
  <2>3. dev.key = key[r]
    BY <1>6 DEF IInv, WhileOpen
  <2>4. \A c : IsPrinted(dev', c) <=> IsPrinted(dev, c) \/ c = key[r]
    BY <1>0, <1>6, <2>3, PrintedAdds
  <2>5. AtMostOnePrint'
    BY <1>6, PrintedOnce
  <2>6. \A c \in Receipt, n \in Nat : SlipBound(c, n) => SlipBound(c, n)'
    BY <1>0, <2>1
  <2>7. QED BY <1>1, <1>2, <2>1, <2>2, <2>4, <2>5, <2>6, PlainAssumption
            DEF IInv, BeforeOpening, FailedMeansNotPrinted
<1>7. CASE pc[r] = "cancelling" /\ dev.paid = "no" /\ dev' = Cleared(dev)
  <2>1. dev'.printed = dev.printed /\ dev'.key = Plain /\ dev'.paid = "closed"
    BY <1>0, <1>7 DEF Cleared, Device
  <2>2. dev' \in Device
    BY <1>0, <1>7, DeviceTyped DEF DeviceStep
  <2>3. QED BY <1>0, <2>1, <2>2, PlainAssumption
            DEF IInv, BeforeOpening, FailedMeansNotPrinted, AtMostOnePrint, IsPrinted
<1>8. QED BY <1>3, <1>4, <1>5, <1>6, <1>7 DEF RunDeviceStep

\* The reset button, and a hand on the device, while no run holds the lock.
LEMMA FreeKeepsDevice ==
    ASSUME IInv, \/ dev' = dev
                 \/ dev.paid = "full" /\ dev' = Printed(dev)
                 \/ dev' = Cleared(dev)
    PROVE  DeviceKeeps
<1>0. dev \in Device /\ Len(dev.printed) \in Nat
  BY DEF IInv, TypeOK, Device
<1> USE DEF DeviceKeeps, IsOpen, SlipBound
<1>1. CASE dev' = dev
  BY <1>0, <1>1 DEF IInv, OpenDocument, BeforeOpening, FailedMeansNotPrinted,
                    AtMostOnePrint, IsPrinted
<1>2. CASE dev.paid = "full" /\ dev' = Printed(dev)
  <2>1. Len(dev'.printed) = Len(dev.printed) + 1 /\ dev'.key = Plain /\ dev'.paid = "closed"
    BY <1>0, <1>2, PrintedSequence
  <2>2. dev' \in Device
    BY <1>0, <1>2, DeviceTyped DEF DeviceStep, Document
  <2>3. \A c : IsPrinted(dev', c) <=> IsPrinted(dev, c) \/ c = dev.key
    BY <1>0, <1>2, PrintedAdds
  <2>4. AtMostOnePrint'
    BY <1>2, PrintedOnce
  <2>5. \A c \in Receipt, n \in Nat : SlipBound(c, n) => SlipBound(c, n)'
    BY <1>0, <2>1
  <2>6. QED BY <1>2, <2>1, <2>2, <2>3, <2>4, <2>5, PlainAssumption
            DEF IInv, BeforeOpening, FailedMeansNotPrinted
<1>3. CASE dev' = Cleared(dev)
  <2>1. dev'.printed = dev.printed /\ dev'.key = Plain /\ dev'.paid = "closed"
    BY <1>0, <1>3 DEF Cleared, Device
  <2>2. dev' \in Device
    BY <1>0, <1>3 DEF Cleared, Device, Paid, Document
  <2>3. QED BY <1>0, <2>1, <2>2, PlainAssumption
            DEF IInv, BeforeOpening, FailedMeansNotPrinted, AtMostOnePrint, IsPrinted
<1>4. QED BY <1>1, <1>2, <1>3

-----------------------------------------------------------------------------
(* The end of a run.                                                       *)

\* A run may end with any row that is true of the device it leaves.
LEMMA EndKeeps ==
    ASSUME IInv, TypeOK', NEW r \in Request, pc[r] \in Running,
           pc[r] \in Holding \/ dev' = dev, DeviceKeeps,
           NEW a \in Reply, EndRun(r, a), UNCHANGED <<stage, slip>>,
           \A k \in Receipt : k # key[r] => row'[k] = row[k],
           key[r] \in Receipt =>
               /\ row'[key[r]].slip \in {row[key[r]].slip, slip[r]}
               /\ row'[key[r]].state \in {"none", "failed"} =>
                    /\ ~IsPrinted(dev', key[r])
                    /\ ~(dev'.key = key[r] /\ dev'.paid = "full")
               /\ row'[key[r]].state = "done" => dev'.key # key[r],
           a = "ok" => IsPrinted(dev', key[r])
    PROVE  IInv'
<1>1. /\ Ownership' /\ LockHeld'
      /\ \A q \in Request :
           pc'[q] \in Running => q # r /\ pc'[q] = pc[q]
                                 /\ (key[q] = Plain \/ key[q] # key[r])
      /\ \A q \in Request : pc'[q] = "new" => q # r /\ pc[q] = "new"
  BY EndRunKeeps DEF TypeOK
<1>2. UNCHANGED <<key, todo, stage, slip>>
  BY DEF EndRun
<1>3. key \in [Request -> Document] /\ slip \in [Request -> Nat]
      /\ reply \in [Request -> Reply] /\ row \in [Receipt -> Row]
  BY DEF IInv, TypeOK
<1>4. OpenDocument'
  BY DEF DeviceKeeps, OpenDocument
<1>5. pc[r] \in Holding => \A q \in Request : pc'[q] \in Running => pc'[q] = "queued"
  BY <1>1 DEF IInv, LockHeld, Running, Holding
<1>6. \A q \in Request : pc'[q] \in {"queued", "opening"} => pc[q] = pc'[q]
  BY <1>1 DEF Running
<1>7. BeforeOpening'
  <2>1. CASE pc[r] \in Holding
    BY <1>1, <1>2, <1>5, <1>6, <2>1 DEF IInv, DeviceKeeps, BeforeOpening, Running
  <2>2. CASE dev' = dev
    BY <1>1, <1>2, <1>6, <2>2 DEF IInv, BeforeOpening
  <2>3. QED BY <2>1, <2>2
<1>8. WhileOpen'
  <2>1. CASE pc[r] \in Holding
    BY <1>5, <2>1 DEF WhileOpen, Running
  <2>2. CASE dev' = dev
    BY <1>1, <1>2, <2>2 DEF IInv, WhileOpen, Running
  <2>3. QED BY <2>1, <2>2
<1>9. SlipsRecorded'
  <2>1. \A k \in Receipt : SlipBound(k, row'[k].slip)
    <3>1. key[r] \in Receipt =>
            SlipBound(key[r], row[key[r]].slip) /\ SlipBound(key[r], slip[r])
      BY PlainAssumption DEF IInv, SlipsRecorded
    <3>2. QED BY <3>1 DEF IInv, SlipsRecorded
  <2>2. \A k \in Receipt : row'[k].slip \in Nat
    BY DEF TypeOK, Row
  <2>3. \A k \in Receipt : SlipBound(k, row[k].slip)'
    BY <2>1, <2>2 DEF DeviceKeeps, SlipBound
  <2>4. \A t \in todo : SlipBound(t.key, t.slip)'
    BY <1>2 DEF IInv, SlipsRecorded, DeviceKeeps, TypeOK, SlipBound
  <2>5. \A q \in Request :
          pc'[q] \in Running /\ key[q] # Plain => SlipBound(key[q], slip[q])'
    BY <1>1, <1>2, <1>3 DEF IInv, SlipsRecorded, DeviceKeeps, SlipBound, Document
  <2>6. QED BY <1>2, <2>3, <2>4, <2>5 DEF SlipsRecorded
<1>10. Unanswered' /\ OkMeansPrinted'
  <2>1. reply' = [reply EXCEPT ![r] = a] /\ pc'[r] = "answered"
    BY DEF EndRun
  <2>2. \A q \in Request : pc'[q] # "answered" => pc[q] # "answered"
    BY DEF EndRun
  <2>3. QED BY <1>2, <1>3, <2>1, <2>2
            DEF IInv, Unanswered, OkMeansPrinted, DeviceKeeps
<1>11. AtMostOnePrint' /\ FailedMeansNotPrinted'
  BY DEF DeviceKeeps, FailedMeansNotPrinted
<1>12. QED
  BY <1>1, <1>4, <1>7, <1>8, <1>9, <1>10, <1>11 DEF IInv

\* A failed run: what it was about to do decides the row.
LEMMA FailKeeps ==
    ASSUME IInv, TypeOK', NEW r \in Request, pc[r] \in {"opening", "cancelling"},
           Fail(r), RunDeviceStep(r)
    PROVE  IInv'
<1>1. DeviceKeeps /\ pc[r] \in Holding /\ pc[r] \in Running
  BY RunKeepsDevice DEF Holding, Running
<1>2. UNCHANGED <<stage, slip>> /\ key[r] \in Document /\ row \in [Receipt -> Row]
  BY DEF Fail, IInv, TypeOK
<1>3. ASSUME key[r] # Plain, stage[r] \notin UnknownStages
      PROVE  ~IsPrinted(dev', key[r]) /\ ~(dev'.key = key[r] /\ dev'.paid = "full")
  <2>1. dev \in Device /\ key[r] \in Receipt
    BY <1>3 DEF IInv, TypeOK, Document
  <2>2. CASE pc[r] = "opening"
    BY <1>3, <2>1, <2>2 DEF RunDeviceStep, IInv, BeforeOpening, Opened, Device, IsPrinted
  <2>3. CASE pc[r] = "cancelling"
    <3>1. dev.paid = "no" /\ dev.key = key[r] /\ ~IsPrinted(dev, key[r])
      BY <1>3, <2>1, <2>3 DEF IInv, WhileOpen, OpenDocument, IsOpen
    <3>2. dev' = dev \/ dev' = Cleared(dev)
      BY <2>3 DEF RunDeviceStep
    <3>3. QED BY <2>1, <3>1, <3>2 DEF Cleared, Device, IsPrinted
  <2>4. QED BY <2>2, <2>3
<1>4. CASE key[r] = Plain /\ UNCHANGED row /\ EndRun(r, "error")
  BY <1>1, <1>2, <1>4, EndKeeps, PlainAssumption DEF Reply
<1>5. CASE /\ key[r] # Plain /\ stage[r] \in UnknownStages
           /\ Put(key[r], "pending", stage[r], slip[r]) /\ EndRun(r, "unknown")
  BY <1>1, <1>2, <1>5, EndKeeps DEF Put, Reply, Document
<1>6. CASE /\ key[r] # Plain /\ stage[r] \notin UnknownStages
           /\ Put(key[r], "failed", stage[r], 0) /\ EndRun(r, "error")
  BY <1>1, <1>2, <1>3, <1>6, EndKeeps DEF Put, Reply, Document
<1>7. QED BY <1>4, <1>5, <1>6 DEF Fail

-----------------------------------------------------------------------------
(* The steps of a run.                                                     *)

\* What a step of a run that holds the lock, and keeps it, has to show: its
\* own stage and slip are right for where it goes.
LEMMA GotoKeeps ==
    ASSUME IInv, TypeOK', NEW r \in Request, pc[r] \in Holding, RunDeviceStep(r),
           NEW label \in Holding \ {"opening"}, Goto(r, label),
           \A q \in Request : q # r => stage'[q] = stage[q] /\ slip'[q] = slip[q],
           label \in {"selling", "paying", "closing"} => IsOpen(dev'),
           label # "closed" /\ IsOpen(dev') => dev'.key = key[r] /\ slip'[r] = Slip(dev'),
           label = "selling" => stage'[r] = "start" /\ dev'.paid = "no",
           label = "paying" => stage'[r] = "paying",
           label = "closing" => stage'[r] = "closing",
           label = "cancelling" /\ stage'[r] \notin UnknownStages => dev'.paid = "no",
           label = "closed" =>
               stage'[r] = "closing" /\ ~IsOpen(dev') /\ IsPrinted(dev', key[r]),
           key[r] # Plain => SlipBound(key[r], slip[r])'
    PROVE  IInv'
<1>1. DeviceKeeps
  BY RunKeepsDevice
<1>2. /\ pc' = [pc EXCEPT ![r] = label]
      /\ UNCHANGED <<row, inflight, lock, key, waits, reply, todo, stopping, restarts>>
  BY DEF Goto, Kept
<1>3. /\ pc \in [Request -> PC] /\ key \in [Request -> Document]
      /\ stage \in [Request -> Stage] /\ slip \in [Request -> Nat]
      /\ row \in [Receipt -> Row]
  BY DEF IInv, TypeOK
<1>4. \A q \in Request : q # r => pc[q] \notin Holding /\ pc'[q] = pc[q]
  BY <1>2, <1>3 DEF IInv, LockHeld
<1>5. Ownership' /\ LockHeld'
  <2>1. pc'[r] \in Holding /\ pc'[r] \in Running /\ pc[r] \in Running
    BY <1>2, <1>3 DEF Holding
  <2>2. \A q \in Request : pc'[q] \in Running <=> pc[q] \in Running
    BY <1>4, <2>1
  <2>3. \A q \in Request : pc'[q] \in {"waiting", "woken"} => pc[q] \in {"waiting", "woken"}
    BY <1>4, <2>1 DEF Running
  <2>4. Ownership'
    <3>1. \A k \in Receipt : inflight[k] # NoRequest =>
            /\ pc'[inflight[k]] \in Running
            /\ key[inflight[k]] = k /\ row[k].state = "pending"
      BY <2>2 DEF IInv, Ownership, TypeOK
    <3>2. QED BY <1>2, <2>2, <2>3, <3>1 DEF IInv, Ownership
  <2>5. LockHeld'
    BY <1>2, <1>4, <2>1 DEF IInv, LockHeld
  <2>6. QED BY <2>4, <2>5
<1>6. OpenDocument' /\ AtMostOnePrint' /\ FailedMeansNotPrinted'
  BY <1>1, <1>2 DEF DeviceKeeps, OpenDocument, FailedMeansNotPrinted
<1>7. BeforeOpening'
  BY <1>1, <1>2, <1>3, <1>4 DEF IInv, DeviceKeeps, BeforeOpening, Holding, Running
<1>8. WhileOpen'
  BY <1>2, <1>3, <1>4 DEF WhileOpen, Holding, Running
<1>9. SlipsRecorded'
  <2>1. \A k \in Receipt : SlipBound(k, row[k].slip)'
    BY <1>1, <1>2, <1>3 DEF IInv, SlipsRecorded, DeviceKeeps, Row, SlipBound
  <2>2. \A t \in todo : SlipBound(t.key, t.slip)'
    BY <1>1, <1>2 DEF IInv, SlipsRecorded, DeviceKeeps, TypeOK, SlipBound
  <2>3. ASSUME NEW q \in Request, pc'[q] \in Running, key[q] # Plain
        PROVE  SlipBound(key[q], slip[q])'
    <3>1. CASE q = r
      BY <2>3, <3>1
    <3>2. CASE q # r
      BY <1>1, <1>2, <1>3, <1>4, <2>3, <3>2
      DEF IInv, SlipsRecorded, DeviceKeeps, SlipBound, Document
    <3>3. QED BY <3>1, <3>2
  <2>4. QED BY <1>2, <2>1, <2>2, <2>3 DEF SlipsRecorded
<1>10. Unanswered' /\ OkMeansPrinted'
  BY <1>1, <1>2, <1>3 DEF IInv, Unanswered, OkMeansPrinted, DeviceKeeps, Holding, Running
<1>11. QED
  BY <1>5, <1>6, <1>7, <1>8, <1>9, <1>10 DEF IInv

\* Waiting for the printer's lock, and getting it.
LEMMA AcquireKeeps ==
    ASSUME IInv, TypeOK', NEW r \in Request, AcquireLock(r)
    PROVE  IInv'
<1> USE DEF AcquireLock, IInv, TypeOK
<1>1. Ownership' /\ LockHeld'
  BY RequestAssumption DEF Ownership, LockHeld, Running, Holding
<1>2. OpenDocument' /\ BeforeOpening' /\ WhileOpen'
  BY DEF OpenDocument, BeforeOpening, WhileOpen
<1>3. SlipsRecorded' /\ Unanswered'
  BY DEF SlipsRecorded, SlipBound, Unanswered, Running
<1>4. AtMostOnePrint' /\ FailedMeansNotPrinted' /\ OkMeansPrinted'
  BY DEF AtMostOnePrint, FailedMeansNotPrinted, OkMeansPrinted
<1>5. QED BY <1>1, <1>2, <1>3, <1>4

\* open_fiscal_receipt or open_storno_receipt.
LEMMA OpenKeeps ==
    ASSUME IInv, TypeOK', NEW r \in Request, OpenReceipt(r)
    PROVE  IInv'
<1>1. PICK o \in OpenCommand(dev, key[r]) :
        /\ dev' = o.dev
        /\ \/ /\ o.answer = "ok"
              /\ slip' = [slip EXCEPT ![r] = Slip(o.dev)]
              /\ Goto(r, "selling")
              /\ UNCHANGED stage
           \/ o.answer # "ok" /\ Fail(r)
  BY DEF OpenReceipt
<1>2. pc[r] = "opening" /\ dev \in Device /\ key[r] \in Document
      /\ slip \in [Request -> Nat] /\ stage[r] = "start"
  BY DEF OpenReceipt, IInv, TypeOK, BeforeOpening
<1>3. RunDeviceStep(r)
  BY <1>1, <1>2, OpenOutcome DEF RunDeviceStep
<1>4. CASE Fail(r)
  BY <1>2, <1>3, <1>4, FailKeeps
<1>5. CASE /\ o.answer = "ok" /\ slip' = [slip EXCEPT ![r] = Slip(o.dev)]
           /\ Goto(r, "selling") /\ UNCHANGED stage
  <2>1. dev' = Opened(dev, key[r])
    BY <1>1, <1>2, <1>5, OpenOutcome
  <2>2. dev'.key = key[r] /\ dev'.paid = "no" /\ dev'.printed = dev.printed
    BY <1>2, <2>1 DEF Opened, Device
  <2>3. slip'[r] = Len(dev.printed) + 1 /\ Len(dev.printed) \in Nat
    BY <1>1, <1>2, <1>5, <2>2 DEF Slip, Device
  <2>4. key' = key /\ slip'[r] = Slip(dev')
    BY <1>1, <1>2, <1>5 DEF Goto, Kept
  <2>5. key[r] # Plain => SlipBound(key[r], slip[r])'
    BY <1>2, <2>2, <2>3, <2>4 DEF SlipBound, IsPrinted, IInv, BeforeOpening
  <2>6. \A q \in Request : q # r => stage'[q] = stage[q] /\ slip'[q] = slip[q]
    BY <1>2, <1>5
  <2>7. stage'[r] = "start" /\ IsOpen(dev')
    BY <1>2, <1>5, <2>2 DEF IsOpen
  <2>8. QED
    BY <1>2, <1>3, <1>5, <2>2, <2>4, <2>5, <2>6, <2>7, GotoKeeps DEF Holding, Running
<1>6. QED BY <1>1, <1>4, <1>5

\* The slip of a run stays a lower bound while the run goes on.
LEMMA SlipKeeps ==
    ASSUME IInv, NEW r \in Request, pc[r] \in Holding, RunDeviceStep(r),
           UNCHANGED <<key, slip>>, key[r] # Plain
    PROVE  SlipBound(key[r], slip[r])'
  BY RunKeepsDevice
  DEF DeviceKeeps, IInv, TypeOK, SlipsRecorded, SlipBound, Holding, Document

\* The items and the subtotal.
LEMMA ItemsKeep ==
    ASSUME IInv, TypeOK', NEW r \in Request, RegisterItems(r)
    PROVE  IInv'
<1>1. /\ pc[r] = "selling" /\ dev' = dev
      /\ \/ stage' = [stage EXCEPT ![r] = "paying"] /\ Goto(r, "paying")
         \/ Goto(r, "cancelling") /\ UNCHANGED stage
      /\ UNCHANGED <<slip, key>>
  BY LineOutcome DEF RegisterItems, IInv, TypeOK, Goto, Kept
<1>2. /\ IsOpen(dev) /\ dev.key = key[r] /\ slip[r] = Slip(dev)
      /\ stage[r] = "start" /\ dev.paid = "no"
  BY <1>1 DEF IInv, WhileOpen
<1>3. pc[r] \in Holding /\ RunDeviceStep(r)
  BY <1>1 DEF Holding, Running, RunDeviceStep
<1>4. stage \in [Request -> Stage]
  BY DEF IInv, TypeOK
<1>5. CASE stage' = [stage EXCEPT ![r] = "paying"] /\ Goto(r, "paying")
  BY <1>1, <1>2, <1>3, <1>4, <1>5, SlipKeeps, GotoKeeps DEF Holding, Running
<1>6. CASE Goto(r, "cancelling") /\ UNCHANGED stage
  BY <1>1, <1>2, <1>3, <1>4, <1>6, SlipKeeps, GotoKeeps DEF Holding, Running
<1>7. QED BY <1>1, <1>5, <1>6

\* The payments.
LEMMA PayKeeps ==
    ASSUME IInv, TypeOK', NEW r \in Request, PayTotal(r)
    PROVE  IInv'
<1>1. PICK o \in PaymentCommand(dev) :
        /\ dev' = o.dev
        /\ \/ o.answer = "ok" /\ Goto(r, "paying") /\ UNCHANGED stage
           \/ /\ o.answer = "ok"
              /\ stage' = [stage EXCEPT ![r] = "closing"]
              /\ Goto(r, "closing")
           \/ o.answer # "ok" /\ Goto(r, "cancelling") /\ UNCHANGED stage
  BY DEF PayTotal
<1>2. /\ pc[r] = "paying" /\ stage[r] = "paying" /\ IsOpen(dev)
      /\ dev.key = key[r] /\ slip[r] = Slip(dev)
      /\ dev \in Device /\ stage \in [Request -> Stage]
  BY DEF PayTotal, IInv, WhileOpen, TypeOK
<1>3. UNCHANGED <<slip, key>>
  BY <1>1 DEF PayTotal, Goto, Kept
<1>4. pc[r] \in Holding /\ RunDeviceStep(r)
  BY <1>1, <1>2, PaymentOutcome DEF Holding, Running, RunDeviceStep
<1>5. IsOpen(dev') /\ dev'.key = key[r] /\ slip'[r] = Slip(dev')
  BY <1>1, <1>2, <1>3, PaymentOutcome DEF IsOpen, Slip, Device
<1>6. CASE Goto(r, "paying") /\ UNCHANGED stage
  BY <1>2, <1>3, <1>4, <1>5, <1>6, SlipKeeps, GotoKeeps DEF Holding, Running
<1>7. CASE stage' = [stage EXCEPT ![r] = "closing"] /\ Goto(r, "closing")
  BY <1>2, <1>3, <1>4, <1>5, <1>7, SlipKeeps, GotoKeeps DEF Holding, Running
<1>8. CASE Goto(r, "cancelling") /\ UNCHANGED stage
  BY <1>2, <1>3, <1>4, <1>5, <1>8, SlipKeeps, GotoKeeps
  DEF Holding, Running, UnknownStages
<1>9. QED BY <1>1, <1>6, <1>7, <1>8

\* Closing the receipt: the only command of a run that prints.
LEMMA CloseKeeps ==
    ASSUME IInv, TypeOK', NEW r \in Request, CloseReceipt(r)
    PROVE  IInv'
<1>1. PICK o \in CloseCommand(dev) :
        dev' = o.dev /\ Goto(r, IF o.answer = "ok" THEN "closed" ELSE "cancelling")
  BY DEF CloseReceipt
<1>2. /\ pc[r] = "closing" /\ stage[r] = "closing" /\ IsOpen(dev)
      /\ dev.key = key[r] /\ slip[r] = Slip(dev) /\ dev \in Device
  BY DEF CloseReceipt, IInv, WhileOpen, TypeOK
<1>3. UNCHANGED <<slip, key, stage>>
  BY <1>1 DEF CloseReceipt, Goto, Kept
<1>4. pc[r] \in Holding /\ RunDeviceStep(r)
  BY <1>1, <1>2, CloseOutcome DEF Holding, Running, RunDeviceStep
<1>5. CASE o.answer = "ok" /\ Goto(r, "closed")
  <2>1. dev' = Printed(dev)
    BY <1>1, <1>2, <1>5, CloseOutcome
  <2>2. ~IsOpen(dev') /\ IsPrinted(dev', key[r])
    BY <1>2, <2>1, PrintedSequence, PrintedAdds DEF IsOpen
  <2>3. QED BY <1>2, <1>3, <1>4, <1>5, <2>2, SlipKeeps, GotoKeeps DEF Holding, Running
<1>6. CASE Goto(r, "cancelling")
  <2>1. IsOpen(dev') => dev' = dev
    BY <1>1, <1>2, CloseOutcome, PrintedSequence DEF IsOpen
  <2>2. QED BY <1>2, <1>3, <1>4, <1>6, <2>1, SlipKeeps, GotoKeeps
            DEF Holding, Running, UnknownStages
<1>7. QED BY <1>1, <1>5, <1>6

\* The cancel after a failure.
LEMMA CancelKeeps ==
    ASSUME IInv, TypeOK', NEW r \in Request, CancelReceipt(r)
    PROVE  IInv'
<1>1. pc[r] = "cancelling" /\ Fail(r) /\ dev \in Device
  BY DEF CancelReceipt, IInv, TypeOK
<1>2. RunDeviceStep(r)
  BY <1>1, CancelOutcome DEF CancelReceipt, RunDeviceStep
<1>3. QED BY <1>1, <1>2, FailKeeps

\* The result of a closed receipt.
LEMMA ReportKeeps ==
    ASSUME IInv, TypeOK', NEW r \in Request, ReportPrinted(r)
    PROVE  IInv'
<1>1. /\ pc[r] = "closed" /\ dev' = dev /\ EndRun(r, "ok") /\ UNCHANGED <<stage, slip>>
      /\ IF key[r] = Plain THEN UNCHANGED row ELSE Put(key[r], "done", "done", slip[r])
  BY DEF ReportPrinted, Succeed
<1>2. ~IsOpen(dev) /\ IsPrinted(dev, key[r]) /\ key[r] \in Document
      /\ row \in [Receipt -> Row]
  BY <1>1 DEF IInv, WhileOpen, TypeOK
<1>3. dev.key = Plain
  BY <1>2 DEF IInv, OpenDocument, IsOpen
<1>4. pc[r] \in Holding /\ pc[r] \in Running /\ DeviceKeeps
  BY <1>1, RunKeepsDevice DEF Holding, Running, RunDeviceStep
<1>5. QED BY <1>1, <1>2, <1>3, <1>4, EndKeeps, PlainAssumption DEF Put, Reply, Document

\* The command that a worker thread ends for a task that is cancelled.
LEMMA InFlightStep ==
    ASSUME TypeOK, NEW r \in Request, NEW o \in CommandInFlight(r), dev' = o.dev
    PROVE  RunDeviceStep(r) /\ (pc[r] \in Holding \/ dev' = dev)
<1>0. dev \in Device /\ key[r] \in Document
  BY DEF TypeOK
<1>1. CASE pc[r] = "opening"
  BY <1>0, <1>1, OpenOutcome DEF CommandInFlight, RunDeviceStep, Holding, Running
<1>2. CASE pc[r] = "paying"
  <2>1. o \in PaymentCommand(dev)
    BY <1>2 DEF CommandInFlight
  <2>2. QED BY <1>0, <1>2, <2>1, PaymentOutcome DEF RunDeviceStep, Holding, Running
<1>3. CASE pc[r] = "closing"
  <2>1. o \in CloseCommand(dev)
    BY <1>3 DEF CommandInFlight
  <2>2. QED BY <1>0, <1>3, <2>1, CloseOutcome DEF RunDeviceStep, Holding, Running
<1>4. CASE pc[r] = "cancelling"
  <2>1. o \in CancelCommand(dev)
    BY <1>4 DEF CommandInFlight
  <2>2. QED BY <1>0, <1>4, <2>1, CancelOutcome DEF RunDeviceStep, Holding, Running
<1>5. CASE pc[r] \notin {"opening", "paying", "closing", "cancelling"}
  <2>1. o \in LineCommand(dev)
    BY <1>5 DEF CommandInFlight
  <2>2. QED BY <1>0, <2>1, LineOutcome DEF RunDeviceStep
<1>6. QED BY <1>1, <1>2, <1>3, <1>4, <1>5

\* A task that is cancelled while a worker thread executes its command.
LEMMA CancelTaskKeeps ==
    ASSUME IInv, TypeOK', NEW r \in Request, CancelTask(r)
    PROVE  IInv'
<1>1. /\ pc[r] \in Running /\ EndRun(r, "lost") /\ UNCHANGED <<stage, slip>>
      /\ IF key[r] = Plain THEN UNCHANGED row
         ELSE Put(key[r],
                  IF stage[r] \in UnknownStages THEN "pending" ELSE "failed",
                  stage[r], slip[r])
  BY DEF CancelTask
<1>2. PICK o \in CommandInFlight(r) : dev' = o.dev
  BY DEF CancelTask
<1>3. dev \in Device /\ key[r] \in Document /\ row \in [Receipt -> Row]
  BY DEF IInv, TypeOK
<1>4. RunDeviceStep(r) /\ (pc[r] \in Holding \/ dev' = dev)
  BY <1>2, InFlightStep DEF IInv
<1>5. DeviceKeeps
  <2>1. CASE pc[r] \in Holding
    BY <1>4, <2>1, RunKeepsDevice
  <2>2. CASE dev' = dev
    BY <2>2, FreeKeepsDevice
  <2>3. QED BY <1>4, <2>1, <2>2
<1>6. ASSUME key[r] # Plain, stage[r] \notin UnknownStages
      PROVE  ~IsPrinted(dev', key[r]) /\ ~(dev'.key = key[r] /\ dev'.paid = "full")
  <2>1. key[r] \in Receipt
    BY <1>3, <1>6 DEF Document
  <2>2. CASE pc[r] \in {"queued", "opening"}
    BY <1>3, <1>4, <1>6, <2>1, <2>2
    DEF RunDeviceStep, IInv, BeforeOpening, Opened, Device, IsPrinted
  <2>3. CASE pc[r] \in {"selling", "cancelling"}
    <3>1. dev.paid = "no" /\ dev.key = key[r] /\ ~IsPrinted(dev, key[r])
      BY <1>6, <2>1, <2>3 DEF IInv, WhileOpen, OpenDocument, IsOpen
    <3>2. dev' = dev \/ dev' = Cleared(dev)
      BY <1>4, <2>3 DEF RunDeviceStep
    <3>3. QED BY <1>3, <3>1, <3>2 DEF Cleared, Device, IsPrinted
  <2>4. pc[r] \in {"queued", "opening", "selling", "cancelling"}
    BY <1>1, <1>6 DEF IInv, WhileOpen, Running, UnknownStages
  <2>5. QED BY <2>2, <2>3, <2>4
<1>7. CASE key[r] = Plain
  BY <1>1, <1>4, <1>5, <1>7, EndKeeps, PlainAssumption DEF Reply
<1>8. CASE key[r] # Plain /\ stage[r] \in UnknownStages
  BY <1>1, <1>3, <1>4, <1>5, <1>8, EndKeeps DEF Put, Reply, Document
<1>9. CASE key[r] # Plain /\ stage[r] \notin UnknownStages
  BY <1>1, <1>3, <1>4, <1>5, <1>6, <1>9, EndKeeps DEF Put, Reply, Document
<1>10. QED BY <1>7, <1>8, <1>9

-----------------------------------------------------------------------------
(* The steps of no run.                                                    *)

\* A decision about a row that no run is printing, with the slip it had.
LEMMA DecidedRowKeeps ==
    ASSUME IInv, TypeOK', NEW k \in Receipt, inflight[k] = NoRequest,
           NEW st \in RowState \ {"none"}, NEW sg \in Stage, Put(k, st, sg, 0),
           UNCHANGED <<dev, inflight, lock, request>>, todo' \subseteq todo,
           st = "failed" => ~IsPrinted(dev, k) /\ ~(dev.key = k /\ dev.paid = "full"),
           st = "done" => dev.key # k
    PROVE  IInv'
<1> USE DEF IInv, TypeOK, Put, request
<1>1. Ownership' /\ LockHeld'
  BY DEF Ownership, LockHeld
<1>2. OpenDocument' /\ BeforeOpening'
  BY DEF OpenDocument, BeforeOpening
<1>3. WhileOpen' /\ Unanswered'
  BY DEF WhileOpen, Unanswered
<1>4. SlipsRecorded'
  BY DEF SlipsRecorded, SlipBound
<1>5. AtMostOnePrint' /\ FailedMeansNotPrinted' /\ OkMeansPrinted'
  BY DEF AtMostOnePrint, FailedMeansNotPrinted, OkMeansPrinted
<1>6. QED BY <1>1, <1>2, <1>3, <1>4, <1>5

\* decide(): "failed" only when the device has not reached the slip.
LEMMA ReconcileKeeps ==
    ASSUME IInv, TypeOK', ~ReconcileInFlight, NEW t \in todo, ReconcileRow(t)
    PROVE  IInv'
<1>1. /\ t.key \in Receipt /\ inflight[t.key] = NoRequest /\ todo' \subseteq todo
      /\ UNCHANGED <<dev, inflight, lock, request>>
      /\ dev \in Device /\ t.slip \in Nat
  BY DEF ReconcileRow, IInv, TypeOK
<1>2. CASE UNCHANGED row
  <2> USE <1>1, <1>2 DEF IInv, request
  <2>1. Ownership' /\ LockHeld' /\ OpenDocument' /\ BeforeOpening' /\ WhileOpen'
    BY DEF Ownership, LockHeld, OpenDocument, BeforeOpening, WhileOpen
  <2>2. SlipsRecorded' /\ Unanswered'
    BY DEF SlipsRecorded, SlipBound, Unanswered
  <2>3. AtMostOnePrint' /\ FailedMeansNotPrinted' /\ OkMeansPrinted'
    BY DEF AtMostOnePrint, FailedMeansNotPrinted, OkMeansPrinted
  <2>4. QED BY <2>1, <2>2, <2>3
<1>3. CASE Decision(t.slip) # "pending" /\ Put(t.key, Decision(t.slip), "reconciled", 0)
  <2>1. ~IsOpen(dev) /\ dev.paid = "closed" /\ dev.key = Plain
    BY <1>3 DEF Decision, IsOpen, IInv, OpenDocument
  <2>2. Decision(t.slip) = "failed" => ~IsPrinted(dev, t.key)
    <3>1. SlipBound(t.key, t.slip) /\ Len(dev.printed) \in Nat
      BY <1>1 DEF IInv, SlipsRecorded, Device
    <3>2. StatusNumber(dev) = Len(dev.printed)
      BY <2>1 DEF StatusNumber
    <3>3. QED BY <1>1, <2>1, <3>1, <3>2 DEF Decision, SlipBound
  <2>3. Decision(t.slip) \in RowState \ {"none"} /\ "reconciled" \in Stage
    BY DEF Decision, RowState, Stage
  <2>4. QED BY <1>1, <1>3, <2>1, <2>2, <2>3, DecidedRowKeeps, PlainAssumption
<1>4. QED BY <1>2, <1>3 DEF ReconcileRow

\* The administrator's truth.
LEMMA ResolveKeeps ==
    ASSUME IInv, TypeOK', ~ResolveInFlight, NEW k \in Receipt, ResolveReceipt(k)
    PROVE  IInv'
<1>1. /\ inflight[k] = NoRequest /\ dev.key # k
      /\ UNCHANGED <<dev, inflight, lock, request, todo>>
      /\ Put(k, IF IsPrinted(dev, k) THEN "done" ELSE "failed", "resolved", 0)
  BY DEF ResolveReceipt
<1>2. "resolved" \in Stage /\ "done" \in RowState \ {"none"}
      /\ "failed" \in RowState \ {"none"}
  BY DEF Stage, RowState
<1>3. QED BY <1>1, <1>2, DecidedRowKeeps

\* The reset button, and the device's own keyboard.
LEMMA FreeDeviceKeeps ==
    ASSUME IInv, TypeOK', ResetPrinter \/ ClearByHand
    PROVE  IInv'
<1>1. lock = NoRequest /\ UNCHANGED <<row, inflight, lock, request, todo>>
      /\ dev \in Device
  BY DEF ResetPrinter, ClearByHand, IInv, TypeOK
<1>2. \/ dev' = dev
      \/ dev.paid = "full" /\ dev' = Printed(dev)
      \/ dev' = Cleared(dev)
  BY <1>1, CancelOutcome DEF ResetPrinter, ClearByHand
<1>3. DeviceKeeps
  BY <1>2, FreeKeepsDevice
<1>4. \A r \in Request : pc[r] \notin Holding
  BY <1>1, RequestAssumption DEF IInv, LockHeld
<1>5. UNCHANGED <<pc, key, stage, slip, waits, reply>> /\ key \in [Request -> Document]
  BY <1>1 DEF request, IInv, TypeOK
<1>6. Ownership' /\ LockHeld' /\ Unanswered'
  BY <1>1, <1>5 DEF IInv, Ownership, LockHeld, Unanswered
<1>7. OpenDocument' /\ AtMostOnePrint' /\ FailedMeansNotPrinted'
  BY <1>1, <1>3 DEF DeviceKeeps, OpenDocument, FailedMeansNotPrinted
<1>8. BeforeOpening' /\ WhileOpen'
  BY <1>3, <1>4, <1>5
  DEF DeviceKeeps, IInv, BeforeOpening, WhileOpen, Holding, Running
<1>9. SlipsRecorded'
  <2>1. \A c \in Receipt : row[c].slip \in Nat
    BY DEF IInv, TypeOK, Row
  <2>2. \A r \in Request : slip[r] \in Nat /\ (key[r] # Plain => key[r] \in Receipt)
    BY DEF IInv, TypeOK, Document
  <2>3. QED BY <1>1, <1>3, <1>5, <2>1, <2>2
            DEF DeviceKeeps, IInv, TypeOK, SlipsRecorded, SlipBound
<1>10. OkMeansPrinted'
  BY <1>3, <1>5 DEF DeviceKeeps, IInv, OkMeansPrinted
<1>11. QED BY <1>6, <1>7, <1>8, <1>9, <1>10 DEF IInv

\* A snapshot of the pending rows, and the beginning of a shutdown.
LEMMA SnapshotKeeps ==
    ASSUME IInv, TypeOK', BeginReconcile \/ BeginShutdown \/ UNCHANGED vars
    PROVE  IInv'
<1>1. /\ UNCHANGED <<dev, row, inflight, lock, pc, key, stage, slip, waits, reply>>
      /\ todo' \subseteq todo \cup PendingRows
  BY DEF BeginReconcile, BeginShutdown, vars, request
<1> USE <1>1 DEF IInv
<1>2. Ownership' /\ LockHeld' /\ OpenDocument' /\ BeforeOpening' /\ WhileOpen'
  BY DEF Ownership, LockHeld, OpenDocument, BeforeOpening, WhileOpen
<1>3. SlipsRecorded'
  BY DEF SlipsRecorded, SlipBound, PendingRows
<1>4. Unanswered' /\ AtMostOnePrint' /\ FailedMeansNotPrinted' /\ OkMeansPrinted'
  BY DEF Unanswered, AtMostOnePrint, FailedMeansNotPrinted, OkMeansPrinted
<1>5. QED BY <1>2, <1>3, <1>4

\* A restart, in any state.
LEMMA RestartKeeps ==
    ASSUME IInv, TypeOK', Restart
    PROVE  IInv'
<1> USE DEF Restart, IInv, TypeOK
<1>1. \A r \in Request : pc'[r] \in {"new", "answered"} /\ (pc'[r] = "new" => pc[r] = "new")
  OBVIOUS
<1>2. Ownership' /\ LockHeld'
  BY <1>1, RequestAssumption DEF Ownership, LockHeld, Holding, Running
<1>3. OpenDocument' /\ BeforeOpening' /\ WhileOpen'
  BY <1>1 DEF OpenDocument, BeforeOpening, WhileOpen
<1>4. SlipsRecorded'
  BY <1>1 DEF SlipsRecorded, SlipBound, PendingRows, Running
<1>5. Unanswered' /\ OkMeansPrinted'
  BY <1>1 DEF Unanswered, OkMeansPrinted
<1>6. AtMostOnePrint' /\ FailedMeansNotPrinted'
  BY DEF AtMostOnePrint, FailedMeansNotPrinted
<1>7. QED BY <1>2, <1>3, <1>4, <1>5, <1>6

-----------------------------------------------------------------------------
(* The theorems.                                                           *)

\* Every step keeps the invariant.
LEMMA InvariantStep ==
    ASSUME Quiet, IInv, [Next]_vars
    PROVE  IInv'
<1>0. TypeOK'
  BY TypeStep DEF IInv
<1>1. ASSUME NEW r \in Request, Post(r) \/ Wake(r) PROVE IInv'
  BY <1>1, PostKeeps
<1>2. ASSUME NEW r \in Request, PrintStep(r) PROVE IInv'
  BY <1>0, <1>2, AcquireKeeps, OpenKeeps, ItemsKeep, PayKeeps, CloseKeeps,
     CancelKeeps, ReportKeeps DEF PrintStep
<1>3. ASSUME NEW r \in Request, CancelTask(r) PROVE IInv'
  BY <1>0, <1>3, CancelTaskKeeps
<1>4. ASSUME NEW t \in todo, ReconcileRow(t) PROVE IInv'
  BY <1>0, <1>4, ReconcileKeeps DEF Quiet
<1>5. ASSUME NEW k \in Receipt, ResolveReceipt(k) PROVE IInv'
  BY <1>0, <1>5, ResolveKeeps DEF Quiet
<1>6. ASSUME ResetPrinter \/ ClearByHand PROVE IInv'
  BY <1>0, <1>6, FreeDeviceKeeps
<1>7. ASSUME BeginReconcile \/ BeginShutdown \/ UNCHANGED vars PROVE IInv'
  BY <1>0, <1>7, SnapshotKeeps
<1>8. ASSUME Restart PROVE IInv'
  BY <1>0, <1>8, RestartKeeps
<1>9. QED BY <1>1, <1>2, <1>3, <1>4, <1>5, <1>6, <1>7, <1>8 DEF Next

\* The inductive invariant is one.
THEOREM InvariantHolds ==
    ASSUME Quiet PROVE Spec => []IInv
<1>1. IInv /\ [Next]_vars => IInv'
  BY InvariantStep
<1>2. QED BY <1>1, InitInvariant, PTL DEF Spec

\* The device never prints two documents for one UNS, through any failure,
\* retry, reconciliation and restart (idempotent_print).
THEOREM OnePrintPerReceipt ==
    ASSUME Quiet PROVE Spec => []AtMostOnePrint
<1>1. IInv => AtMostOnePrint
  BY DEF IInv
<1>2. QED BY <1>1, InvariantHolds, PTL

\* A row that lets the next POST print is never that of a printed receipt.
THEOREM FailedIsNotPrinted ==
    ASSUME Quiet PROVE Spec => []FailedMeansNotPrinted
<1>1. IInv => FailedMeansNotPrinted
  BY DEF IInv
<1>2. QED BY <1>1, InvariantHolds, PTL

-----------------------------------------------------------------------------
(* What holds whoever decides the rows, while a receipt is printed too.    *)

\* A run has marked nothing before the device opened its document.
AtFirst == \A r \in Request : pc[r] \in {"new", "queued", "opening"} => stage[r] = "start"

\* An entry of _inflight is a run of its receipt, and who waits for an event
\* waits for that of a run of the same receipt, which is still to set it.
Events ==
    /\ \A k \in Receipt : inflight[k] # NoRequest =>
        pc[inflight[k]] \in Running /\ key[inflight[k]] = k
    /\ \A r \in Request :
        /\ pc[r] = "waiting" =>
            /\ waits[r] \in Request
            /\ pc[waits[r]] \in Running
            /\ key[waits[r]] = key[r]
        /\ pc[r] \in {"waiting", "woken"} => key[r] # Plain

\* A row says "done" of a printed receipt, or because decide() said so.
PrintedOrReconciled ==
    \A k \in Receipt :
        row[k].state = "done" => row[k].stage = "reconciled" \/ IsPrinted(dev, k)

\* A reconciliation reads only rows with a slip.
Snapshots == \A t \in todo : t.slip # 0

RunInv ==
    /\ TypeOK /\ LockHeld /\ WhileOpen /\ AtFirst /\ Events
    /\ Unanswered /\ OkMeansPrinted /\ PrintedOrReconciled /\ Snapshots

\* Nothing of what a device has printed is ever not printed again.
StaysPrinted == \A c : IsPrinted(dev, c) => IsPrinted(dev', c)

LEMMA DeviceStepStays ==
    ASSUME dev \in Device, NEW k \in Document, DeviceStep(dev, dev', k)
    PROVE  StaysPrinted
<1>1. CASE dev' = Printed(dev)
  BY <1>1, PrintedAdds DEF StaysPrinted
<1>2. CASE dev'.printed = dev.printed
  BY <1>2 DEF StaysPrinted, IsPrinted
<1>3. /\ Opened(dev, k).printed = dev.printed /\ Cleared(dev).printed = dev.printed
      /\ \A p : [dev EXCEPT !.paid = p].printed = dev.printed
  BY DEF Opened, Cleared, Device
<1>4. dev' = Printed(dev) \/ dev'.printed = dev.printed
  BY <1>3 DEF DeviceStep
<1>5. QED BY <1>1, <1>2, <1>4

LEMMA RunStays ==
    ASSUME TypeOK, NEW r \in Request, RunDeviceStep(r)
    PROVE  StaysPrinted
  BY DeviceStepStays DEF TypeOK, RunDeviceStep, DeviceStep

LEMMA RunInvInit == Init => RunInv
<1> SUFFICES ASSUME Init PROVE RunInv
  OBVIOUS
<1>1. TypeOK /\ LockHeld /\ WhileOpen /\ Unanswered /\ OkMeansPrinted
  BY InitInvariant DEF IInv
<1>2. AtFirst /\ Snapshots
  BY DEF Init, AtFirst, Snapshots
<1>3. Events /\ PrintedOrReconciled
  BY DEF Init, Events, PrintedOrReconciled
<1>4. QED BY <1>1, <1>2, <1>3 DEF RunInv

\* A run goes on to the next command (GotoKeeps says the same of IInv).
LEMMA RunGoesOn ==
    ASSUME RunInv, TypeOK', NEW r \in Request, pc[r] \in Holding, StaysPrinted,
           NEW label \in Holding \ {"opening"}, Goto(r, label),
           \A q \in Request : q # r => stage'[q] = stage[q] /\ slip'[q] = slip[q],
           label \in {"selling", "paying", "closing"} => IsOpen(dev'),
           label # "closed" /\ IsOpen(dev') => dev'.key = key[r] /\ slip'[r] = Slip(dev'),
           label = "selling" => stage'[r] = "start" /\ dev'.paid = "no",
           label = "paying" => stage'[r] = "paying",
           label = "closing" => stage'[r] = "closing",
           label = "cancelling" /\ stage'[r] \notin UnknownStages => dev'.paid = "no",
           label = "closed" =>
               stage'[r] = "closing" /\ ~IsOpen(dev') /\ IsPrinted(dev', key[r])
    PROVE  RunInv'
<1>1. /\ pc' = [pc EXCEPT ![r] = label]
      /\ UNCHANGED <<row, inflight, lock, key, waits, reply, todo, stopping, restarts>>
  BY DEF Goto, Kept
<1>2. /\ pc \in [Request -> PC] /\ key \in [Request -> Document]
      /\ inflight \in [Receipt -> Request \cup {NoRequest}]
      /\ reply \in [Request -> Reply] /\ row \in [Receipt -> Row]
  BY DEF RunInv, TypeOK
<1>3. \A q \in Request : q # r => pc[q] \notin Holding /\ pc'[q] = pc[q]
  BY <1>1, <1>2 DEF RunInv, LockHeld
<1>4. pc'[r] \in Holding /\ pc'[r] \in Running /\ pc[r] \in Running
  BY <1>1, <1>2 DEF Holding
<1>5. LockHeld'
  BY <1>1, <1>3, <1>4 DEF RunInv, LockHeld
<1>6. WhileOpen'
  BY <1>1, <1>2, <1>3 DEF WhileOpen, Holding, Running
<1>7. AtFirst'
  BY <1>1, <1>2, <1>3 DEF RunInv, AtFirst, Holding, Running
<1>8. Events'
  <2>1. \A q \in Request : pc[q] \in Running => pc'[q] \in Running
    BY <1>3, <1>4
  <2>2. \A q \in Request :
          pc'[q] \in {"waiting", "woken"} => q # r /\ pc[q] = pc'[q]
    BY <1>3, <1>4 DEF Running
  <2>3. \A k \in Receipt : inflight[k] # NoRequest =>
          pc'[inflight[k]] \in Running /\ key[inflight[k]] = k
    BY <1>2, <2>1 DEF RunInv, Events
  <2>4. \A q \in Request : pc'[q] = "waiting" =>
          waits[q] \in Request /\ pc'[waits[q]] \in Running /\ key[waits[q]] = key[q]
    BY <2>1, <2>2 DEF RunInv, Events
  <2>5. \A q \in Request : pc'[q] \in {"waiting", "woken"} => key[q] # Plain
    BY <2>2 DEF RunInv, Events
  <2>6. QED BY <1>1, <2>3, <2>4, <2>5 DEF Events
<1>9. Unanswered' /\ OkMeansPrinted'
  BY <1>1, <1>2 DEF RunInv, Unanswered, OkMeansPrinted, StaysPrinted, Holding, Running
<1>10. PrintedOrReconciled' /\ Snapshots'
  BY <1>1 DEF RunInv, PrintedOrReconciled, Snapshots, StaysPrinted
<1>11. QED
  BY <1>5, <1>6, <1>7, <1>8, <1>9, <1>10 DEF RunInv

\* A run ends: its event is set, its lock is free.
LEMMA RunEnds ==
    ASSUME RunInv, TypeOK', NEW r \in Request, pc[r] \in Running,
           pc[r] \in Holding \/ dev' = dev, StaysPrinted,
           NEW a \in Reply, EndRun(r, a), UNCHANGED <<stage, slip>>,
           \A k \in Receipt : row'[k] # row[k] /\ row'[k].state = "done" => IsPrinted(dev', k),
           a = "ok" => IsPrinted(dev', key[r])
    PROVE  RunInv'
<1>1. /\ pc \in [Request -> PC] /\ key \in [Request -> Document]
      /\ inflight \in [Receipt -> Request \cup {NoRequest}]
      /\ reply \in [Request -> Reply] /\ row \in [Receipt -> Row]
  BY DEF RunInv, TypeOK
<1>2. UNCHANGED <<key, todo, stage, slip, waits>>
  BY DEF EndRun
<1>3. /\ pc'[r] = "answered"
      /\ \A q \in Request :
            /\ pc'[q] \in Running => q # r /\ pc'[q] = pc[q]
            /\ pc'[q] = "new" => pc[q] = "new"
            /\ pc'[q] = "waiting" => q # r /\ pc[q] = "waiting" /\ waits[q] # r
            /\ pc'[q] = "woken" => pc[q] \in {"waiting", "woken"}
            /\ q # r /\ pc[q] \in Running => pc'[q] = pc[q]
  BY <1>1 DEF EndRun, Running
<1>4. LockHeld'
  <2>1. \A q \in Request : pc'[q] \in Holding <=> q # r /\ pc[q] \in Holding
    BY <1>3 DEF Holding, Running
  <2>2. \A q \in Request : pc[q] \in Holding <=> lock = q
    BY DEF RunInv, LockHeld
  <2>3. lock' = IF lock = r THEN NoRequest ELSE lock
    BY DEF EndRun
  <2>4. QED BY <2>1, <2>2, <2>3, RequestAssumption DEF LockHeld
<1>5. WhileOpen'
  <2>1. CASE pc[r] \in Holding
    <3>1. \A q \in Request : pc'[q] \notin Holding
      BY <1>3, <2>1 DEF RunInv, LockHeld, Holding
    <3>2. QED BY <3>1 DEF WhileOpen, Holding, Running
  <2>2. CASE dev' = dev
    BY <1>2, <1>3, <2>2 DEF RunInv, WhileOpen, Running
  <2>3. QED BY <2>1, <2>2
<1>6. AtFirst'
  BY <1>2, <1>3 DEF RunInv, AtFirst, Running
<1>7. Events'
  <2>1. ASSUME NEW k \in Receipt, inflight'[k] # NoRequest
        PROVE  pc'[inflight'[k]] \in Running /\ key[inflight'[k]] = k
    <3>1. inflight'[k] = inflight[k] /\ (key[r] # Plain => k # key[r])
      BY <1>1, <2>1 DEF EndRun
    <3>2. /\ inflight[k] \in Request /\ pc[inflight[k]] \in Running
          /\ key[inflight[k]] = k
      BY <1>1, <2>1, <3>1 DEF RunInv, Events
    <3>3. inflight[k] # r
      BY <3>1, <3>2, PlainAssumption
    <3>4. QED BY <1>3, <3>1, <3>2, <3>3
  <2>2. ASSUME NEW q \in Request, pc'[q] = "waiting"
        PROVE  waits[q] \in Request /\ pc'[waits[q]] \in Running /\ key[waits[q]] = key[q]
    BY <1>3, <2>2 DEF RunInv, Events
  <2>3. \A q \in Request : pc'[q] \in {"waiting", "woken"} => key[q] # Plain
    BY <1>3 DEF RunInv, Events
  <2>4. QED BY <1>2, <2>1, <2>2, <2>3 DEF Events
<1>8. Unanswered' /\ OkMeansPrinted'
  <2>1. reply' = [reply EXCEPT ![r] = a]
    BY DEF EndRun
  <2>2. \A q \in Request : pc'[q] # "answered" => q # r /\ pc[q] # "answered"
    BY <1>1 DEF EndRun
  <2>3. QED BY <1>1, <1>2, <2>1, <2>2
            DEF RunInv, Unanswered, OkMeansPrinted, StaysPrinted
<1>9. PrintedOrReconciled' /\ Snapshots'
  BY <1>2 DEF RunInv, PrintedOrReconciled, Snapshots, StaysPrinted
<1>10. QED BY <1>4, <1>5, <1>6, <1>7, <1>8, <1>9 DEF RunInv

LEMMA RunFails ==
    ASSUME RunInv, TypeOK', NEW r \in Request, pc[r] \in {"opening", "cancelling"},
           Fail(r), RunDeviceStep(r)
    PROVE  RunInv'
<1>1. /\ pc[r] \in Holding /\ pc[r] \in Running /\ StaysPrinted
      /\ row \in [Receipt -> Row]
  BY RunStays DEF RunInv, TypeOK, Holding, Running
<1>2. PICK a \in {"error", "unknown"} : EndRun(r, a)
  BY DEF Fail
<1>3. \A k \in Receipt : row'[k] # row[k] => row'[k].state # "done"
  BY <1>1 DEF Fail, Put
<1>4. UNCHANGED <<stage, slip>> /\ a \in Reply /\ a # "ok"
  BY <1>2 DEF Fail, Reply
<1>5. QED BY <1>1, <1>2, <1>3, <1>4, RunEnds

-----------------------------------------------------------------------------
(* Its steps.                                                              *)

\* A POST, or a waiter that is resumed, takes its place.
LEMMA RunPost ==
    ASSUME RunInv, TypeOK', NEW r \in Request, Post(r) \/ Wake(r)
    PROVE  RunInv'
<1>1. /\ pc \in [Request -> PC] /\ key \in [Request -> Document]
      /\ inflight \in [Receipt -> Request \cup {NoRequest}]
      /\ waits \in [Request -> Request \cup {NoRequest}]
      /\ stage \in [Request -> Stage] /\ slip \in [Request -> Nat]
      /\ reply \in [Request -> Reply] /\ row \in [Receipt -> Row]
  BY DEF RunInv, TypeOK
<1>2. /\ UNCHANGED <<dev, lock, todo>> /\ pc[r] \in {"new", "woken"}
      /\ reply[r] = "none"
  BY DEF Post, Wake, RunInv, Unanswered
<1>3. PICK k \in Document :
        /\ key' = [key EXCEPT ![r] = k]
        /\ \/ pc[r] = "new" /\ k = Plain /\ PostPlain(r)
           \/ k \in Receipt /\ PostWaits(r, k)
           \/ k \in Receipt /\ ByRow(r, k)
  <2>1. CASE Post(r)
    BY <2>1 DEF Post
  <2>2. CASE Wake(r)
    <3>1. key[r] \in Receipt /\ key' = [key EXCEPT ![r] = key[r]]
      BY <1>1, <2>2 DEF Wake, RunInv, Events, Document
    <3>2. QED BY <2>2, <3>1 DEF Wake, Document
  <2>3. QED BY <2>1, <2>2
<1>4. PICK x \in {"queued", "waiting", "answered"} :
        pc' = [pc EXCEPT ![r] = x] /\ (k = Plain => x = "queued")
  BY <1>3, PlainAssumption DEF PostPlain, PostWaits, ByRow, Answer, Start, Refuse
<1>5. /\ \A q \in Request : q # r => stage'[q] = stage[q] /\ slip'[q] = slip[q]
                                     /\ waits'[q] = waits[q] /\ reply'[q] = reply[q]
      /\ pc'[r] = "queued" => stage'[r] = "start"
      /\ reply'[r] # "ok"
      /\ pc'[r] # "answered" => reply'[r] = "none"
  BY <1>1, <1>2, <1>3 DEF PostPlain, PostWaits, ByRow, Answer, Start, Refuse, RunInv, AtFirst
<1>6. \A c \in Receipt : row'[c] # row[c] => row'[c].state # "done"
  BY <1>1, <1>3 DEF PostPlain, PostWaits, ByRow, Answer, Start, Refuse, Put
<1>7. LockHeld'
  BY <1>1, <1>2, <1>4 DEF RunInv, LockHeld, Holding, Running
<1>8. WhileOpen'
  BY <1>1, <1>2, <1>3, <1>4, <1>5 DEF RunInv, WhileOpen
<1>9. AtFirst'
  BY <1>1, <1>4, <1>5 DEF RunInv, AtFirst
<1>10. Events'
  <2>1. \A q \in Request : pc[q] \in Running => q # r /\ pc'[q] \in Running /\ key'[q] = key[q]
    BY <1>1, <1>2, <1>3, <1>4 DEF Running
  <2>2. ASSUME NEW c \in Receipt, inflight'[c] # NoRequest
        PROVE  pc'[inflight'[c]] \in Running /\ key'[inflight'[c]] = c
    <3>1. CASE inflight' = inflight
      BY <1>1, <2>1, <2>2, <3>1 DEF RunInv, Events
    <3>2. CASE k \in Receipt /\ Start(r, k)
      <4>1. inflight' = [inflight EXCEPT ![k] = r] /\ pc'[r] \in Running /\ key'[r] = k
        BY <1>1, <1>3, <3>2 DEF Start, Running
      <4>2. QED BY <1>1, <2>1, <2>2, <4>1 DEF RunInv, Events
    <3>3. inflight' = inflight \/ (k \in Receipt /\ Start(r, k))
      BY <1>3 DEF PostPlain, PostWaits, ByRow, Answer, Refuse
    <3>4. QED BY <3>1, <3>2, <3>3
  <2>3. ASSUME NEW q \in Request, pc'[q] = "waiting"
        PROVE  /\ waits'[q] \in Request /\ pc'[waits'[q]] \in Running
               /\ key'[waits'[q]] = key'[q]
    <3>1. CASE q # r
      <4>1. pc[q] = "waiting" /\ waits'[q] = waits[q] /\ key'[q] = key[q]
        BY <1>1, <1>3, <1>4, <1>5, <2>3, <3>1
      <4>2. QED BY <2>1, <4>1 DEF RunInv, Events
    <3>2. CASE q = r
      <4>1. k \in Receipt /\ PostWaits(r, k)
        BY <1>1, <1>3, <2>3, <3>2 DEF PostPlain, ByRow, Answer, Start, Refuse
      <4>2. /\ inflight[k] # NoRequest /\ waits'[r] = inflight[k] /\ key'[r] = k
            /\ inflight[k] \in Request
        BY <1>1, <1>3, <4>1 DEF PostWaits
      <4>3. QED BY <2>1, <3>2, <4>1, <4>2 DEF RunInv, Events
    <3>3. QED BY <3>1, <3>2
  <2>4. ASSUME NEW q \in Request, pc'[q] \in {"waiting", "woken"} PROVE key'[q] # Plain
    <3>1. CASE q # r
      BY <1>1, <1>3, <1>4, <2>4, <3>1 DEF RunInv, Events
    <3>2. CASE q = r
      BY <1>1, <1>3, <1>4, <2>4, <3>2
    <3>3. QED BY <3>1, <3>2
  <2>5. QED BY <2>2, <2>3, <2>4 DEF Events
<1>11. Unanswered'
  BY <1>1, <1>4, <1>5 DEF RunInv, Unanswered
<1>12. OkMeansPrinted'
  BY <1>1, <1>2, <1>3, <1>5 DEF RunInv, OkMeansPrinted
<1>13. PrintedOrReconciled' /\ Snapshots'
  BY <1>2, <1>6 DEF RunInv, PrintedOrReconciled, Snapshots
<1>14. QED
  BY <1>7, <1>8, <1>9, <1>10, <1>11, <1>12, <1>13 DEF RunInv


\* The steps of a run that holds the lock.
LEMMA RunPrints ==
    ASSUME RunInv, TypeOK', NEW r \in Request, PrintStep(r)
    PROVE  RunInv'
<1>0. /\ dev \in Device /\ key[r] \in Document /\ stage \in [Request -> Stage]
      /\ slip \in [Request -> Nat] /\ row \in [Receipt -> Row]
  BY DEF RunInv, TypeOK
<1>1. CASE AcquireLock(r)
  <2> USE <1>1 DEF AcquireLock, RunInv, TypeOK
  <2>1. LockHeld'
    BY RequestAssumption DEF LockHeld, Running, Holding
  <2>2. WhileOpen' /\ AtFirst' /\ Unanswered'
    BY DEF WhileOpen, AtFirst, Unanswered
  <2>3. Events'
    <3>1. /\ \A q \in Request : pc[q] \in Running => pc'[q] \in Running
          /\ \A q \in Request : pc'[q] \in {"waiting", "woken"} => pc[q] = pc'[q]
      BY DEF Running
    <3>2. QED BY <3>1 DEF Events
  <2>4. OkMeansPrinted' /\ PrintedOrReconciled' /\ Snapshots'
    BY DEF OkMeansPrinted, PrintedOrReconciled, Snapshots
  <2>5. QED BY <2>1, <2>2, <2>3, <2>4
<1>2. CASE OpenReceipt(r)
  <2>1. PICK o \in OpenCommand(dev, key[r]) :
          /\ dev' = o.dev
          /\ \/ /\ o.answer = "ok"
                /\ slip' = [slip EXCEPT ![r] = Slip(o.dev)]
                /\ Goto(r, "selling")
                /\ UNCHANGED stage
             \/ o.answer # "ok" /\ Fail(r)
    BY <1>2 DEF OpenReceipt
  <2>2. pc[r] = "opening" /\ stage[r] = "start"
    BY <1>2 DEF OpenReceipt, RunInv, AtFirst
  <2>3. RunDeviceStep(r)
    BY <1>0, <2>1, <2>2, OpenOutcome DEF RunDeviceStep
  <2>4. StaysPrinted
    BY <2>3, RunStays DEF RunInv
  <2>5. CASE Fail(r)
    BY <2>2, <2>3, <2>5, RunFails
  <2>6. CASE /\ o.answer = "ok" /\ slip' = [slip EXCEPT ![r] = Slip(o.dev)]
             /\ Goto(r, "selling") /\ UNCHANGED stage
    <3>1. dev' = Opened(dev, key[r])
      BY <1>0, <2>1, <2>6, OpenOutcome
    <3>2. dev'.key = key[r] /\ dev'.paid = "no" /\ IsOpen(dev')
      BY <1>0, <3>1 DEF Opened, Device, IsOpen
    <3>3. slip'[r] = Slip(dev') /\ \A q \in Request : q # r => slip'[q] = slip[q]
      BY <1>0, <2>1, <2>6
    <3>4. QED BY <2>2, <2>4, <2>6, <3>2, <3>3, RunGoesOn DEF Holding, Running
  <2>7. QED BY <2>1, <2>5, <2>6
<1>3. CASE RegisterItems(r)
  <2>1. /\ pc[r] = "selling" /\ dev' = dev
        /\ \/ stage' = [stage EXCEPT ![r] = "paying"] /\ Goto(r, "paying")
           \/ Goto(r, "cancelling") /\ UNCHANGED stage
        /\ UNCHANGED <<slip, key>>
    BY <1>0, <1>3, LineOutcome DEF RegisterItems, Goto, Kept
  <2>2. /\ IsOpen(dev) /\ dev.key = key[r] /\ slip[r] = Slip(dev)
        /\ stage[r] = "start" /\ dev.paid = "no"
    BY <2>1 DEF RunInv, WhileOpen, IsOpen
  <2>3. pc[r] \in Holding /\ StaysPrinted
    BY <2>1 DEF Holding, Running, StaysPrinted
  <2>4. CASE stage' = [stage EXCEPT ![r] = "paying"] /\ Goto(r, "paying")
    BY <1>0, <2>1, <2>2, <2>3, <2>4, RunGoesOn DEF Holding, Running
  <2>5. CASE Goto(r, "cancelling") /\ UNCHANGED stage
    BY <1>0, <2>1, <2>2, <2>3, <2>5, RunGoesOn DEF Holding, Running
  <2>6. QED BY <2>1, <2>4, <2>5
<1>4. CASE PayTotal(r)
  <2>1. PICK o \in PaymentCommand(dev) :
          /\ dev' = o.dev
          /\ \/ o.answer = "ok" /\ Goto(r, "paying") /\ UNCHANGED stage
             \/ /\ o.answer = "ok"
                /\ stage' = [stage EXCEPT ![r] = "closing"]
                /\ Goto(r, "closing")
             \/ o.answer # "ok" /\ Goto(r, "cancelling") /\ UNCHANGED stage
    BY <1>4 DEF PayTotal
  <2>2. /\ pc[r] = "paying" /\ stage[r] = "paying" /\ IsOpen(dev)
        /\ dev.key = key[r] /\ slip[r] = Slip(dev)
    BY <1>4 DEF PayTotal, RunInv, WhileOpen
  <2>3. UNCHANGED <<slip, key>>
    BY <1>4, <2>1 DEF PayTotal, Goto, Kept
  <2>4. RunDeviceStep(r)
    BY <1>0, <2>1, <2>2, PaymentOutcome DEF RunDeviceStep
  <2>5. pc[r] \in Holding /\ StaysPrinted
    BY <2>2, <2>4, RunStays DEF RunInv, Holding, Running
  <2>6. IsOpen(dev') /\ dev'.key = key[r] /\ slip'[r] = Slip(dev')
    <3>1. dev \in Device
      BY <1>0
    <3>2. QED BY <2>1, <2>2, <2>3, <3>1, PaymentOutcome DEF IsOpen, Slip, Device
  <2>7. CASE Goto(r, "paying") /\ UNCHANGED stage
    BY <2>2, <2>3, <2>5, <2>6, <2>7, RunGoesOn DEF Holding, Running
  <2>8. CASE stage' = [stage EXCEPT ![r] = "closing"] /\ Goto(r, "closing")
    BY <1>0, <2>2, <2>3, <2>5, <2>6, <2>8, RunGoesOn DEF Holding, Running
  <2>9. CASE Goto(r, "cancelling") /\ UNCHANGED stage
    BY <2>2, <2>3, <2>5, <2>6, <2>9, RunGoesOn DEF Holding, Running, UnknownStages
  <2>10. QED BY <2>1, <2>7, <2>8, <2>9
<1>5. CASE CloseReceipt(r)
  <2>1. PICK o \in CloseCommand(dev) :
          dev' = o.dev /\ Goto(r, IF o.answer = "ok" THEN "closed" ELSE "cancelling")
    BY <1>5 DEF CloseReceipt
  <2>2. /\ pc[r] = "closing" /\ stage[r] = "closing" /\ IsOpen(dev)
        /\ dev.key = key[r] /\ slip[r] = Slip(dev)
    BY <1>5 DEF CloseReceipt, RunInv, WhileOpen
  <2>3. UNCHANGED <<slip, key, stage>>
    BY <1>5, <2>1 DEF CloseReceipt, Goto, Kept
  <2>4. RunDeviceStep(r)
    BY <1>0, <2>1, <2>2, CloseOutcome DEF RunDeviceStep
  <2>5. pc[r] \in Holding /\ StaysPrinted
    BY <2>2, <2>4, RunStays DEF RunInv, Holding, Running
  <2>6. CASE o.answer = "ok" /\ Goto(r, "closed")
    <3>1. dev' = Printed(dev)
      BY <1>0, <2>1, <2>6, CloseOutcome
    <3>2. ~IsOpen(dev') /\ IsPrinted(dev', key[r])
      BY <1>0, <2>2, <3>1, PrintedSequence, PrintedAdds DEF IsOpen
    <3>3. QED BY <2>2, <2>3, <2>5, <2>6, <3>2, RunGoesOn DEF Holding, Running
  <2>7. CASE Goto(r, "cancelling")
    <3>1. IsOpen(dev') => dev' = dev
      BY <1>0, <2>1, CloseOutcome, PrintedSequence DEF IsOpen
    <3>2. QED BY <2>2, <2>3, <2>5, <2>7, <3>1, RunGoesOn
              DEF Holding, Running, UnknownStages
  <2>8. QED BY <2>1, <2>6, <2>7
<1>6. CASE CancelReceipt(r)
  <2>1. pc[r] = "cancelling" /\ Fail(r)
    BY <1>6 DEF CancelReceipt
  <2>2. RunDeviceStep(r)
    BY <1>0, <1>6, <2>1, CancelOutcome DEF CancelReceipt, RunDeviceStep
  <2>3. QED BY <2>1, <2>2, RunFails
<1>7. CASE ReportPrinted(r)
  <2>1. /\ pc[r] = "closed" /\ dev' = dev /\ EndRun(r, "ok") /\ UNCHANGED <<stage, slip>>
        /\ IF key[r] = Plain THEN UNCHANGED row ELSE Put(key[r], "done", "done", slip[r])
    BY <1>7 DEF ReportPrinted, Succeed
  <2>2. IsPrinted(dev, key[r])
    BY <2>1 DEF RunInv, WhileOpen
  <2>3. \A k \in Receipt : row'[k] # row[k] => IsPrinted(dev', k)
    BY <1>0, <2>1, <2>2 DEF Put
  <2>4. pc[r] \in Running /\ pc[r] \in Holding /\ StaysPrinted /\ "ok" \in Reply
    BY <2>1 DEF Running, Holding, StaysPrinted, Reply
  <2>5. QED BY <2>1, <2>2, <2>3, <2>4, RunEnds
<1>8. QED BY <1>1, <1>2, <1>3, <1>4, <1>5, <1>6, <1>7 DEF PrintStep

LEMMA RunIsCancelled ==
    ASSUME RunInv, TypeOK', NEW r \in Request, CancelTask(r)
    PROVE  RunInv'
<1>1. PICK o \in CommandInFlight(r) : dev' = o.dev
  BY DEF CancelTask
<1>2. RunDeviceStep(r) /\ (pc[r] \in Holding \/ dev' = dev)
  BY <1>1, InFlightStep DEF RunInv
<1>3. /\ pc[r] \in Running /\ EndRun(r, "lost") /\ UNCHANGED <<stage, slip>>
      /\ StaysPrinted /\ "lost" \in Reply /\ row \in [Receipt -> Row]
  BY <1>2, RunStays DEF CancelTask, RunInv, TypeOK, Reply
<1>4. \A k \in Receipt : row'[k] # row[k] => row'[k].state # "done"
  BY <1>3 DEF CancelTask, Put
<1>5. QED BY <1>2, <1>3, <1>4, RunEnds

\* Somebody decides a row, whether its receipt is being printed or not.
LEMMA RowDecided ==
    ASSUME RunInv, TypeOK', UNCHANGED <<dev, inflight, lock, request>>,
           todo' \subseteq todo \cup PendingRows,
           \A k \in Receipt : row'[k] # row[k] /\ row'[k].state = "done" =>
               row'[k].stage = "reconciled" \/ IsPrinted(dev, k)
    PROVE  RunInv'
<1>1. UNCHANGED <<pc, key, stage, slip, waits, reply>>
  BY DEF request
<1>2. LockHeld' /\ WhileOpen' /\ AtFirst'
  BY <1>1 DEF RunInv, LockHeld, WhileOpen, AtFirst
<1>3. Events' /\ Unanswered' /\ OkMeansPrinted'
  BY <1>1 DEF RunInv, Events, Unanswered, OkMeansPrinted
<1>4. PrintedOrReconciled'
  BY DEF RunInv, PrintedOrReconciled
<1>5. Snapshots'
  BY DEF RunInv, Snapshots, PendingRows
<1>6. QED BY <1>2, <1>3, <1>4, <1>5 DEF RunInv

\* Somebody is at the device while no run holds the lock.
LEMMA FreeDevice ==
    ASSUME RunInv, TypeOK', ResetPrinter \/ ClearByHand
    PROVE  RunInv'
<1>1. /\ lock = NoRequest /\ UNCHANGED <<row, inflight, lock, todo>>
      /\ UNCHANGED <<pc, key, stage, slip, waits, reply>>
      /\ dev \in Device
  BY DEF ResetPrinter, ClearByHand, RunInv, TypeOK, request
<1>2. StaysPrinted
  <2>1. CASE ResetPrinter
    BY <1>1, <2>1, CancelOutcome, DeviceStepStays DEF ResetPrinter, DeviceStep, Document
  <2>2. CASE ClearByHand /\ dev.paid = "full"
    BY <1>1, <2>2, DeviceStepStays DEF ClearByHand, DeviceStep, Document
  <2>3. CASE ClearByHand /\ dev' = Cleared(dev)
    BY <1>1, <2>3 DEF StaysPrinted, IsPrinted, Cleared, Device
  <2>4. QED BY <2>1, <2>2, <2>3 DEF ClearByHand
<1>3. \A r \in Request : pc[r] \notin Holding
  BY <1>1, RequestAssumption DEF RunInv, LockHeld
<1>4. LockHeld' /\ AtFirst' /\ Events'
  BY <1>1 DEF RunInv, LockHeld, AtFirst, Events
<1>5. WhileOpen'
  BY <1>1, <1>3 DEF WhileOpen, Holding, Running
<1>6. Unanswered' /\ OkMeansPrinted'
  BY <1>1, <1>2 DEF RunInv, Unanswered, OkMeansPrinted, StaysPrinted
<1>7. PrintedOrReconciled' /\ Snapshots'
  BY <1>1, <1>2 DEF RunInv, PrintedOrReconciled, Snapshots, StaysPrinted
<1>8. QED BY <1>4, <1>5, <1>6, <1>7 DEF RunInv

LEMMA RunsAreGone ==
    ASSUME RunInv, TypeOK', Restart
    PROVE  RunInv'
<1> USE DEF Restart, RunInv, TypeOK
<1>1. \A r \in Request : pc'[r] \in {"new", "answered"} /\ (pc'[r] = "new" => pc[r] = "new")
  OBVIOUS
<1>2. LockHeld' /\ AtFirst' /\ WhileOpen'
  BY <1>1, RequestAssumption DEF LockHeld, AtFirst, WhileOpen, Holding, Running
<1>3. Events'
  BY <1>1 DEF Events
<1>4. Unanswered' /\ OkMeansPrinted'
  BY <1>1 DEF Unanswered, OkMeansPrinted
<1>5. PrintedOrReconciled' /\ Snapshots'
  BY DEF PrintedOrReconciled, Snapshots, PendingRows
<1>6. QED BY <1>2, <1>3, <1>4, <1>5

\* Every step keeps it.
LEMMA RunInvStep ==
    ASSUME RunInv, [Next]_vars
    PROVE  RunInv'
<1>0. TypeOK'
  BY TypeStep DEF RunInv
<1>1. ASSUME NEW r \in Request, Post(r) \/ Wake(r) PROVE RunInv'
  BY <1>0, <1>1, RunPost
<1>2. ASSUME NEW r \in Request, PrintStep(r) PROVE RunInv'
  BY <1>0, <1>2, RunPrints
<1>3. ASSUME NEW r \in Request, CancelTask(r) PROVE RunInv'
  BY <1>0, <1>3, RunIsCancelled
<1>4. ASSUME NEW t \in todo, ReconcileRow(t) PROVE RunInv'
  <2>1. /\ UNCHANGED <<dev, inflight, lock, request>> /\ todo' \subseteq todo
        /\ t.key \in Receipt /\ row \in [Receipt -> Row]
    BY <1>4 DEF ReconcileRow, RunInv, TypeOK
  <2>2. \A k \in Receipt : row'[k] # row[k] => row'[k].stage = "reconciled"
    BY <1>4, <2>1 DEF ReconcileRow, Put
  <2>3. QED BY <1>0, <2>1, <2>2, RowDecided
<1>5. ASSUME NEW k \in Receipt, ResolveReceipt(k) PROVE RunInv'
  <2>1. UNCHANGED <<dev, inflight, lock, request, todo>> /\ row \in [Receipt -> Row]
    BY <1>5 DEF ResolveReceipt, RunInv, TypeOK
  <2>2. \A c \in Receipt : row'[c] # row[c] /\ row'[c].state = "done" => IsPrinted(dev, c)
    BY <1>5, <2>1 DEF ResolveReceipt, Put
  <2>3. QED BY <1>0, <2>1, <2>2, RowDecided
<1>6. ASSUME ResetPrinter \/ ClearByHand PROVE RunInv'
  BY <1>0, <1>6, FreeDevice
<1>7. ASSUME BeginReconcile \/ BeginShutdown \/ UNCHANGED vars PROVE RunInv'
  <2>1. /\ UNCHANGED <<dev, row, inflight, lock, request>>
        /\ todo' \subseteq todo \cup PendingRows
    BY <1>7 DEF BeginReconcile, BeginShutdown, vars
  <2>2. QED BY <1>0, <2>1, RowDecided
<1>8. ASSUME Restart PROVE RunInv'
  BY <1>0, <1>8, RunsAreGone
<1>9. QED BY <1>1, <1>2, <1>3, <1>4, <1>5, <1>6, <1>7, <1>8 DEF Next

\* Whoever decides the rows, and whenever, the runs keep their invariant: they
\* follow the device, not the journal (_print_receipt_impl, with_pm).
THEOREM RunsInvariant == Spec => []RunInv
<1>1. RunInv /\ [Next]_vars => RunInv'
  BY RunInvStep
<1>2. QED BY <1>1, RunInvInit, PTL DEF Spec

\* ok=true is only said of a receipt the device has printed, even when an
\* administrator or a reconciliation decided its row meanwhile.
THEOREM OkIsPrinted == Spec => []OkMeansPrinted
<1>1. RunInv => OkMeansPrinted
  BY DEF RunInv
<1>2. QED BY <1>1, RunsInvariant, PTL

\* Of the rows that say "done" without a printed receipt, reconcile_pending
\* wrote every one: neither idempotent_print nor the administrator did.
THEOREM DoneIsPrintedOrReconciled == Spec => []PrintedOrReconciled
<1>1. RunInv => PrintedOrReconciled
  BY DEF RunInv
<1>2. QED BY <1>1, RunsInvariant, PTL

\* No wake-up is lost: a POST that waits in idempotent_print waits for a run
\* of its own receipt that has not set its event yet, though an entry of
\* _inflight may be overwritten while its run goes on.
THEOREM WaitersHaveARun == Spec => []Events
<1>1. RunInv => Events
  BY DEF RunInv
<1>2. QED BY <1>1, RunsInvariant, PTL

-----------------------------------------------------------------------------
(* A run touches only its own document.                                    *)

\* A step under the lock that changes the device while a document is open
\* changes the document of the run that holds the lock.
LEMMA OwnDocumentStep ==
    ASSUME RunInv, [Next]_vars, NEW r \in Request, lock = r, IsOpen(dev), dev' # dev
    PROVE  dev.key = key[r] /\ slip[r] = Slip(dev)
<1>1. dev \in Device /\ pc[r] \in Holding /\ lock # NoRequest /\ key[r] \in Document
  BY RequestAssumption DEF RunInv, TypeOK, LockHeld
<1>2. \A q \in Request : pc[q] \in Holding => q = r
  BY DEF RunInv, LockHeld
<1>3. SUFFICES pc[r] \in {"paying", "closing", "cancelling"}
  BY DEF RunInv, WhileOpen
<1>4. ASSUME NEW q \in Request, PrintStep(q) PROVE q = r
  BY <1>1, <1>2, <1>4
  DEF PrintStep, AcquireLock, OpenReceipt, RegisterItems, PayTotal, CloseReceipt,
      CancelReceipt, ReportPrinted, Holding, Running
<1>5. ASSUME PrintStep(r) PROVE pc[r] \in {"paying", "closing", "cancelling"}
  <2>1. ~AcquireLock(r) /\ ~ReportPrinted(r)
    BY DEF AcquireLock, ReportPrinted
  <2>2. ~RegisterItems(r)
    BY <1>1, LineOutcome DEF RegisterItems
  <2>3. ~OpenReceipt(r)
    BY <1>1, OpenOutcome DEF OpenReceipt
  <2>4. QED BY <1>5, <2>1, <2>2, <2>3
            DEF PrintStep, PayTotal, CloseReceipt, CancelReceipt
<1>6. ASSUME NEW q \in Request, CancelTask(q)
      PROVE  pc[r] \in {"paying", "closing", "cancelling"}
  <2>1. PICK o \in CommandInFlight(q) : dev' = o.dev
    BY <1>6 DEF CancelTask
  <2>2. pc[q] \in {"paying", "closing", "cancelling"}
    <3>1. ASSUME pc[q] = "opening" PROVE FALSE
      <4>1. q = r /\ o \in OpenCommand(dev, key[r])
        BY <1>2, <2>1, <3>1 DEF CommandInFlight, Holding, Running
      <4>2. QED BY <1>1, <2>1, <4>1, OpenOutcome
    <3>2. ASSUME pc[q] \notin {"opening", "paying", "closing", "cancelling"} PROVE FALSE
      <4>1. o \in LineCommand(dev)
        BY <2>1, <3>2 DEF CommandInFlight
      <4>2. QED BY <1>1, <2>1, <4>1, LineOutcome
    <3>3. QED BY <3>1, <3>2
  <2>3. q = r
    BY <1>2, <2>2 DEF Holding, Running
  <2>4. QED BY <2>2, <2>3
<1>7. ~ResetPrinter /\ ~ClearByHand
  BY <1>1 DEF ResetPrinter, ClearByHand
<1>8. \A q \in Request : ~Post(q) /\ ~Wake(q)
  BY DEF Post, Wake
<1>9. /\ \A t \in todo : ~ReconcileRow(t)
      /\ \A k \in Receipt : ~ResolveReceipt(k)
      /\ ~BeginReconcile /\ ~BeginShutdown /\ ~Restart /\ ~UNCHANGED vars
  BY DEF ReconcileRow, ResolveReceipt, BeginReconcile, BeginShutdown, Restart, vars
<1>10. QED BY <1>4, <1>5, <1>6, <1>7, <1>8, <1>9 DEF Next

\* No failure of one receipt closes or cancels the document of another
\* (the flag "opened" of _print_receipt_impl), whoever decides the rows.
THEOREM RunsOwnTheirDocument == Spec => OwnDocument
<1>1. RunInv /\ [Next]_vars =>
        [\A r \in Request :
           lock = r /\ IsOpen(dev) /\ dev' # dev =>
             dev.key = key[r] /\ slip[r] = Slip(dev)]_vars
  BY OwnDocumentStep
<1>2. QED BY <1>1, RunsInvariant, PTL DEF Spec, OwnDocument

-----------------------------------------------------------------------------
(* How a row comes to say "done" of a receipt that is not printed.         *)

\* The number the receipt was to have is the number of another document.
TakenByAnother(k) ==
    /\ ~IsOpen(dev)
    /\ \E t \in todo : /\ t.key = k
                       /\ t.slip \in 1..Len(dev.printed)
                       /\ dev.printed[t.slip] # k

LEMMA WrongDoneStep ==
    ASSUME RunInv, [Next]_vars, NEW k \in Receipt,
           row[k].state # "done", row'[k].state = "done", ~IsPrinted(dev, k)
    PROVE  TakenByAnother(k)
<1>0. row \in [Receipt -> Row] /\ dev \in Device
  BY DEF RunInv, TypeOK
<1>1. ASSUME NEW r \in Request PROVE ~Post(r) /\ ~Wake(r)
  <2>1. ASSUME NEW c \in Document, ByRow(r, c) PROVE FALSE
    BY <1>0, <2>1 DEF ByRow, Answer, Start, Refuse, Put
  <2>2. ~Wake(r)
    BY <2>1 DEF Wake, RunInv, TypeOK
  <2>3. ~Post(r)
    BY <1>0, <2>1 DEF Post, PostPlain, PostWaits
  <2>4. QED BY <2>2, <2>3
<1>2. ASSUME NEW r \in Request PROVE ~PrintStep(r)
  <2>1. ~Fail(r)
    BY <1>0 DEF Fail, Put
  <2>2. ~ReportPrinted(r)
    <3>1. ASSUME ReportPrinted(r) PROVE FALSE
      <4>1. IsPrinted(dev, key[r]) /\ (row'[k] # row[k] => k = key[r])
        BY <1>0, <3>1 DEF ReportPrinted, Succeed, Put, RunInv, WhileOpen
      <4>2. QED BY <4>1
    <3>2. QED BY <3>1
  <2>3. QED BY <2>1, <2>2
            DEF PrintStep, AcquireLock, OpenReceipt, RegisterItems, PayTotal,
                CloseReceipt, CancelReceipt, Goto, Kept
<1>3. ASSUME NEW r \in Request PROVE ~CancelTask(r)
  BY <1>0 DEF CancelTask, Put
<1>4. ASSUME NEW c \in Receipt PROVE ~ResolveReceipt(c)
  <2>1. ASSUME ResolveReceipt(c) PROVE FALSE
    <3>1. row'[k] # row[k] => k = c
      BY <1>0, <2>1 DEF ResolveReceipt, Put
    <3>2. IsPrinted(dev, c)
      BY <1>0, <2>1, <3>1 DEF ResolveReceipt, Put
    <3>3. QED BY <3>1, <3>2
  <2>2. QED BY <2>1
<1>5. ASSUME NEW t \in todo, ReconcileRow(t) PROVE TakenByAnother(k)
  <2>1. t.key \in Receipt /\ t.slip \in Nat /\ t.slip # 0
    BY DEF RunInv, TypeOK, Snapshots
  <2>2. t.key = k /\ Decision(t.slip) = "done"
    BY <1>0, <1>5, <2>1 DEF ReconcileRow, Put
  <2>3. ~IsOpen(dev) /\ Len(dev.printed) >= t.slip
    BY <2>2 DEF Decision, StatusNumber
  <2>4. t.slip \in 1..Len(dev.printed)
    BY <1>0, <2>1, <2>3 DEF Device
  <2>5. QED BY <2>2, <2>3, <2>4 DEF TakenByAnother, IsPrinted
<1>6. /\ ~ResetPrinter /\ ~ClearByHand /\ ~BeginReconcile /\ ~BeginShutdown
      /\ ~Restart /\ ~UNCHANGED vars
  BY DEF ResetPrinter, ClearByHand, BeginReconcile, BeginShutdown, Restart, vars
<1>7. QED BY <1>1, <1>2, <1>3, <1>4, <1>5, <1>6 DEF Next

\* A row becomes "done" of a receipt that is not printed only when decide()
\* takes another document that got the receipt's number for the receipt: the
\* one way in which DoneMeansPrinted fails.
THEOREM OnlyTheNumberMisleads ==
    Spec => [][\A k \in Receipt :
                 row[k].state # "done" /\ row'[k].state = "done" /\ ~IsPrinted(dev, k)
                   => TakenByAnother(k)]_vars
<1>1. RunInv /\ [Next]_vars =>
        [\A k \in Receipt :
           row[k].state # "done" /\ row'[k].state = "done" /\ ~IsPrinted(dev, k)
             => TakenByAnother(k)]_vars
  BY WrongDoneStep
<1>2. QED BY <1>1, RunsInvariant, PTL DEF Spec

-----------------------------------------------------------------------------
(* The receipt path keeps the promise of OnceOnly.                         *)

\* The documents of the promise are those the device has printed.
LEMMA OnceDocuments ==
    ASSUME dev \in Device, NEW k
    PROVE  k \in Once!Documents <=> IsPrinted(dev, k)
<1>1. dev.printed \in Seq(Document)
  BY DEF Device
<1>2. DOMAIN dev.printed = 1..Len(dev.printed)
  BY <1>1
<1>3. QED BY <1>2 DEF Once!Documents, IsPrinted

\* A row that is written is a step of the promise, if it takes nothing back.
LEMMA PutRefines ==
    ASSUME TypeOK, FailedMeansNotPrinted', TypeOK',
           NEW k \in Receipt, NEW st \in RowState \ {"none"}, NEW sg, NEW n, Put(k, st, sg, n),
           dev'.printed = dev.printed, st = "pending" => row[k].state # "done"
    PROVE  [Once!Next]_(Once!vars)
<1>1. \A c \in Receipt : row'[c].state = IF c = k THEN st ELSE row[c].state
  BY DEF Put, TypeOK
<1>2. Verdict' = [Verdict EXCEPT ![k] =
                    CASE st = "failed" -> "may"
                      [] st = "pending" -> "unknown"
                      [] OTHER -> "done"]
  BY <1>1 DEF Verdict
<1>3. CASE st = "failed"
  <2>1. k \notin Once!Documents
    <3>1. row'[k].state = "failed"
      BY <1>1, <1>3
    <3>2. ~IsPrinted(dev', k)
      BY <3>1 DEF FailedMeansNotPrinted
    <3>3. ~IsPrinted(dev, k)
      BY <3>2 DEF IsPrinted
    <3>4. QED BY <3>3, OnceDocuments DEF TypeOK
  <2>2. QED BY <1>2, <1>3, <2>1 DEF Once!Next, Once!Release
<1>4. CASE st = "done"
  BY <1>2, <1>4 DEF Once!Next, Once!Accept
<1>5. CASE st = "pending" /\ row[k].state = "pending"
  BY <1>2, <1>5 DEF Once!vars, Verdict
<1>6. CASE st = "pending" /\ row[k].state \in {"none", "failed"}
  BY <1>2, <1>6 DEF Once!Next, Once!Claim, Verdict
<1>7. row[k].state \in RowState
  BY DEF TypeOK, Row
<1>8. QED BY <1>3, <1>4, <1>5, <1>6, <1>7 DEF RowState

\* The printing of the open document is one, too.
LEMMA PrintRefines ==
    ASSUME IInv, dev.paid = "full", dev' = Printed(dev), Verdict' = Verdict
    PROVE  [Once!Next]_(Once!vars)
<1>1. dev \in Device /\ dev'.printed = Append(dev.printed, dev.key)
  BY DEF IInv, TypeOK, Printed
<1>2. CASE dev.key = Plain
  BY <1>1, <1>2 DEF Once!Next, Once!IssuePlain
<1>3. CASE dev.key \in Receipt
  <2>1. row[dev.key].state = "pending"
    BY <1>3 DEF IInv, TypeOK, Row, RowState, OpenDocument, FailedMeansNotPrinted
  <2>2. dev.key \notin Once!Documents
    BY <1>1, <1>3, OnceDocuments DEF IInv, OpenDocument
  <2>3. QED BY <1>1, <1>3, <2>1, <2>2 DEF Once!Next, Once!Issue, Verdict
<1>4. QED BY <1>1, <1>2, <1>3 DEF Device, Document

\* What changes neither the rows' states nor the device's journal.
LEMMA NothingRefines ==
    ASSUME UNCHANGED row, dev'.printed = dev.printed
    PROVE  [Once!Next]_(Once!vars)
  BY DEF Once!vars, Verdict

\* A run's row is pending until the run ends.
LEMMA RunningRow ==
    ASSUME IInv, NEW r \in Request, pc[r] \in Running, key[r] # Plain
    PROVE  key[r] \in Receipt /\ row[key[r]].state = "pending"
  BY RequestAssumption DEF IInv, TypeOK, Ownership, Document

LEMMA FailRefines ==
    ASSUME IInv, IInv', NEW r \in Request, pc[r] \in Running, Fail(r),
           dev'.printed = dev.printed
    PROVE  [Once!Next]_(Once!vars)
<1>1. CASE key[r] = Plain
  BY <1>1, NothingRefines DEF Fail
<1>2. CASE key[r] # Plain
  BY <1>2, RunningRow, PutRefines DEF Fail, IInv, RowState
<1>3. QED BY <1>1, <1>2

\* Every step of the receipt path is a step of the promise, or none.
LEMMA RefinementStep ==
    ASSUME IInv, IInv', [Next]_vars
    PROVE  [Once!Next]_(Once!vars)
<1>0. dev \in Device /\ TypeOK /\ TypeOK' /\ FailedMeansNotPrinted'
  BY DEF IInv, TypeOK
<1>1. ASSUME NEW r \in Request, NEW k \in Receipt, ByRow(r, k), dev' = dev
      PROVE  [Once!Next]_(Once!vars)
  <2>1. CASE \E a \in {"already", "unknown"} : Answer(r, a)
    BY <1>1, <2>1, NothingRefines DEF Answer
  <2>2. CASE row[k].state \in {"none", "failed"} /\ Put(k, "pending", "start", 0)
    BY <1>0, <1>1, <2>2, PutRefines DEF RowState
  <2>3. CASE row[k].state \in {"none", "failed"} /\ Put(k, "failed", "start", 0)
    BY <1>0, <1>1, <2>3, PutRefines DEF RowState
  <2>4. QED BY <1>1, <2>1, <2>2, <2>3 DEF ByRow, Start, Refuse
<1>2. ASSUME NEW r \in Request, Post(r) \/ Wake(r) PROVE [Once!Next]_(Once!vars)
  <2>1. CASE Wake(r)
    <3>1. key[r] \in Receipt
      BY <2>1 DEF Wake, IInv, TypeOK, Ownership, Document
    <3>2. QED BY <1>1, <2>1, <3>1 DEF Wake
  <2>2. CASE Post(r)
    <3>1. PICK k \in Document :
            \/ k = Plain /\ PostPlain(r)
            \/ k \in Receipt /\ PostWaits(r, k)
            \/ k \in Receipt /\ inflight[k] = NoRequest /\ ByRow(r, k)
      BY <2>2 DEF Post
    <3>2. dev' = dev
      BY <2>2 DEF Post
    <3>3. QED BY <1>1, <3>1, <3>2, NothingRefines DEF PostPlain, PostWaits
  <2>3. QED BY <1>2, <2>1, <2>2
<1>3. ASSUME NEW r \in Request, PrintStep(r) PROVE [Once!Next]_(Once!vars)
  <2>1. CASE AcquireLock(r)
    BY <2>1, NothingRefines DEF AcquireLock
  <2>2. CASE OpenReceipt(r)
    <3>1. PICK o \in OpenCommand(dev, key[r]) :
            dev' = o.dev /\ (Goto(r, "selling") \/ Fail(r))
      BY <2>2 DEF OpenReceipt
    <3>2. dev'.printed = dev.printed
      BY <1>0, <3>1, SamePrinted DEF TypeOK
    <3>3. pc[r] \in Running
      BY <2>2 DEF OpenReceipt, Running
    <3>4. QED BY <3>1, <3>2, <3>3, FailRefines, NothingRefines DEF Goto, Kept
  <2>3. CASE RegisterItems(r)
    BY <1>0, <2>3, LineOutcome, NothingRefines DEF RegisterItems, Goto, Kept
  <2>4. CASE PayTotal(r)
    <3>1. dev'.printed = dev.printed
      BY <1>0, <2>4, SamePrinted DEF PayTotal, Document
    <3>2. QED BY <2>4, <3>1, NothingRefines DEF PayTotal, Goto, Kept
  <2>5. CASE CloseReceipt(r)
    <3>1. PICK o \in CloseCommand(dev) : dev' = o.dev /\ UNCHANGED row
      BY <2>5 DEF CloseReceipt, Goto, Kept
    <3>2. CASE dev' = dev
      BY <3>1, <3>2, NothingRefines
    <3>3. CASE dev.paid = "full" /\ dev' = Printed(dev)
      BY <3>1, <3>3, PrintRefines DEF Verdict
    <3>4. QED BY <1>0, <3>1, <3>2, <3>3, CloseOutcome
  <2>6. CASE CancelReceipt(r)
    <3>1. dev'.printed = dev.printed
      BY <1>0, <2>6, SamePrinted DEF CancelReceipt, Document
    <3>2. QED BY <2>6, <3>1, FailRefines DEF CancelReceipt, Running
  <2>7. CASE ReportPrinted(r)
    <3>1. CASE key[r] = Plain
      BY <2>7, <3>1, NothingRefines DEF ReportPrinted, Succeed
    <3>2. CASE key[r] # Plain
      <4>1. key[r] \in Receipt /\ dev' = dev /\ Put(key[r], "done", "done", slip[r])
        BY <2>7, <3>2, <1>0 DEF ReportPrinted, Succeed, TypeOK, Document
      <4>2. QED BY <1>0, <4>1, PutRefines DEF RowState
    <3>3. QED BY <3>1, <3>2
  <2>8. QED BY <1>3, <2>1, <2>2, <2>3, <2>4, <2>5, <2>6, <2>7 DEF PrintStep
<1>4. ASSUME NEW r \in Request, CancelTask(r) PROVE [Once!Next]_(Once!vars)
  <2>1. PICK o \in CommandInFlight(r) : dev' = o.dev
    BY <1>4 DEF CancelTask
  <2>2. pc[r] \in Running
    BY <1>4 DEF CancelTask
  <2>3. CASE pc[r] = "closing" /\ dev.paid = "full" /\ dev' = Printed(dev)
    <3>1. stage[r] \in UnknownStages
      BY <2>3 DEF IInv, WhileOpen, UnknownStages
    <3>2. key[r] # Plain => key[r] \in Receipt /\ row[key[r]].state = "pending"
      BY <2>2, RunningRow
    <3>3. \A k \in Receipt : row'[k].state = row[k].state
      BY <1>0, <1>4, <3>1, <3>2 DEF CancelTask, Put, TypeOK
    <3>4. QED BY <2>3, <3>3, PrintRefines DEF Verdict
  <2>4. CASE dev'.printed = dev.printed
    <3>1. CASE key[r] = Plain
      BY <1>4, <2>4, <3>1, NothingRefines DEF CancelTask
    <3>2. CASE key[r] # Plain
      <4>1. key[r] \in Receipt /\ row[key[r]].state = "pending"
        BY <2>2, <3>2, RunningRow
      <4>2. QED BY <1>0, <1>4, <2>4, <3>2, <4>1, PutRefines DEF CancelTask, RowState
    <3>3. QED BY <3>1, <3>2
  <2>5. \/ pc[r] = "closing" /\ dev.paid = "full" /\ dev' = Printed(dev)
        \/ dev'.printed = dev.printed
    <3>1. key[r] \in Document
      BY <1>0 DEF TypeOK
    <3>2. \/ o \in OpenCommand(dev, key[r]) \/ o \in LineCommand(dev)
          \/ o \in PaymentCommand(dev) \/ o \in CancelCommand(dev)
          \/ pc[r] = "closing" /\ o \in CloseCommand(dev)
      BY <2>1 DEF CommandInFlight
    <3>3. CASE \/ o \in OpenCommand(dev, key[r]) \/ o \in LineCommand(dev)
               \/ o \in PaymentCommand(dev) \/ o \in CancelCommand(dev)
      BY <1>0, <2>1, <3>1, <3>3, SamePrinted
    <3>4. CASE pc[r] = "closing" /\ o \in CloseCommand(dev)
      BY <1>0, <2>1, <3>4, CloseOutcome
    <3>5. QED BY <3>2, <3>3, <3>4
  <2>6. QED BY <2>3, <2>4, <2>5
<1>5. ASSUME NEW t \in todo, ReconcileRow(t) PROVE [Once!Next]_(Once!vars)
  <2>1. dev' = dev /\ t.key \in Receipt /\ Decision(t.slip) \in {"pending", "done", "failed"}
    BY <1>0, <1>5 DEF ReconcileRow, TypeOK, Decision
  <2>2. QED BY <1>0, <1>5, <2>1, NothingRefines, PutRefines DEF ReconcileRow, RowState
<1>6. ASSUME NEW k \in Receipt, ResolveReceipt(k) PROVE [Once!Next]_(Once!vars)
  BY <1>0, <1>6, PutRefines DEF ResolveReceipt, RowState
<1>7. ASSUME ResetPrinter \/ ClearByHand PROVE [Once!Next]_(Once!vars)
  <2>1. UNCHANGED row
    BY <1>7 DEF ResetPrinter, ClearByHand
  <2>2. \/ dev'.printed = dev.printed
        \/ dev.paid = "full" /\ dev' = Printed(dev)
    <3>1. Cleared(dev).printed = dev.printed
      BY <1>0 DEF Cleared, Device
    <3>2. CASE ResetPrinter
      BY <1>0, <3>2, SamePrinted DEF ResetPrinter, Document
    <3>3. QED BY <1>7, <3>1, <3>2 DEF ClearByHand
  <2>3. QED BY <2>1, <2>2, NothingRefines, PrintRefines DEF Verdict
<1>8. ASSUME BeginReconcile \/ BeginShutdown \/ Restart \/ UNCHANGED vars
      PROVE  [Once!Next]_(Once!vars)
  BY <1>8, NothingRefines DEF BeginReconcile, BeginShutdown, Restart, vars
<1>9. QED
  BY <1>2, <1>3, <1>4, <1>5, <1>6, <1>7, <1>8 DEF Next

\* The receipt path, its restarts, reconciliations and resolutions included,
\* implements the promise that a receipt is printed at most once (OnceOnly).
THEOREM ReceiptPathRefinesOnceOnly ==
    ASSUME Quiet PROVE Spec => RefinesOnceOnly
<1>1. Init => Once!Init
  BY DEF Init, Once!Init, Verdict, FreshDevice
<1>2. IInv /\ IInv' /\ [Next]_vars => [Once!Next]_(Once!vars)
  BY RefinementStep
<1>3. QED BY <1>1, <1>2, InvariantHolds, PTL DEF Spec, RefinesOnceOnly, Once!Spec
=============================================================================
