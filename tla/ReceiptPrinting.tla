--------------------------- MODULE ReceiptPrinting ---------------------------
(***************************************************************************)
(* The receipt path of one Datecs PM printer: idempotent_print and the     *)
(* receipt journal (server/receipt_journal.py), the print route, the       *)
(* reconciliation and the administrator's resolution                       *)
(* (server/routes/printers.py), the printer's asyncio.Lock                 *)
(* (server/service.py), and the restarts of the proxy, on top of the       *)
(* device of module FiscalDevice.                                          *)
(*                                                                         *)
(* One action is what a coroutine does between two awaits.  A command to   *)
(* the device runs in a worker thread while its coroutine waits, so it is  *)
(* one action with the coroutine's reaction to its answer.                 *)
(***************************************************************************)
EXTENDS FiscalDevice

CONSTANTS
    Request,           \* the POSTs the tills send; each is sent once
    NoRequest,
    MaxRestarts,       \* bound on the restarts of the proxy
    ReconcileInFlight, \* may a receipt be reconciled while it is printed?
    ResolveInFlight    \* may it be resolved by hand while it is printed?

ASSUME RequestAssumption == NoRequest \notin Request
ASSUME RestartsAssumption == MaxRestarts \in Nat
ASSUME SwitchesAssumption ==
    ReconcileInFlight \in BOOLEAN /\ ResolveInFlight \in BOOLEAN

VARIABLES
    dev,      \* the device
    row,      \* the journal's row of each receipt (on disk)
    inflight, \* journal._inflight: the run whose event later POSTs wait for
    lock,     \* the holder of the printer's lock
    pc,       \* how far each request is
    key,      \* the document each request prints
    stage,    \* holder["stage"] of each run
    slip,     \* holder["slip"] of each run; 0 while the device gave none
    waits,    \* the run whose event a waiting request waits for
    reply,    \* what each request was answered
    todo,     \* the pending rows reconciliations have read and not decided
    stopping, \* the server shuts down: its tasks are cancelled, one by one
    restarts

request == <<pc, key, stage, slip, waits, reply>>
vars == <<dev, row, inflight, lock, request, todo, stopping, restarts>>

RowState == {"none", "pending", "done", "failed"}
Stage == {"start", "paying", "closing", "done", "reconciled", "resolved"}
Row == [state : RowState, stage : Stage, slip : Nat]

\* Mutant: a failure while closing would count as "nothing was printed".
WithoutClosing == {"paying"}

\* The stages after which a failure means "it may have been printed".
UnknownStages == {"paying", "closing"}

Running == {"queued", "opening", "selling", "paying", "closing",
            "cancelling", "closed"}
Holding == Running \ {"queued"}
PC == {"new", "waiting", "woken", "answered"} \cup Running

Reply == {"none", "ok", "already", "unknown", "error", "lost"}

TypeOK ==
    /\ dev \in Device
    /\ row \in [Receipt -> Row]
    /\ inflight \in [Receipt -> Request \cup {NoRequest}]
    /\ lock \in Request \cup {NoRequest}
    /\ pc \in [Request -> PC]
    /\ key \in [Request -> Document]
    /\ stage \in [Request -> Stage]
    /\ slip \in [Request -> Nat]
    /\ waits \in [Request -> Request \cup {NoRequest}]
    /\ reply \in [Request -> Reply]
    /\ todo \subseteq [key : Receipt, slip : Nat]
    /\ stopping \in BOOLEAN
    /\ restarts \in 0..MaxRestarts

Init ==
    /\ dev = FreshDevice
    /\ row = [k \in Receipt |-> [state |-> "none", stage |-> "start", slip |-> 0]]
    /\ inflight = [k \in Receipt |-> NoRequest]
    /\ lock = NoRequest
    /\ pc = [r \in Request |-> "new"]
    /\ key = [r \in Request |-> Plain]
    /\ stage = [r \in Request |-> "start"]
    /\ slip = [r \in Request |-> 0]
    /\ waits = [r \in Request |-> NoRequest]
    /\ reply = [r \in Request |-> "none"]
    /\ todo = {}
    /\ stopping = FALSE
    /\ restarts = 0

-----------------------------------------------------------------------------
(* The journal.  put() keeps the slip it had when it is given none.        *)

\* Mutant: the columns of state and stage are swapped.
PutSwapped(k, st, sg, n) ==
    row' = [row EXCEPT ![k] = [state |-> sg, stage |-> st,
                               slip |-> IF n = 0 THEN row[k].slip ELSE n]]

Put(k, st, sg, n) ==
    row' = [row EXCEPT ![k] = [state |-> st, stage |-> sg,
                               slip |-> IF n = 0 THEN row[k].slip ELSE n]]

\* pending(): the rows a reconciliation goes through.  A row without a
\* slip stays pending whatever the device says, so it is left out.
PendingRows ==
    {[key |-> k, slip |-> row[k].slip] :
        k \in {c \in Receipt : row[c].state = "pending" /\ row[c].slip # 0}}

-----------------------------------------------------------------------------
(* idempotent_print.                                                       *)

\* A set event resumes its waiters in the next turn of the event loop,
\* before anything that still has to hear from a worker thread; once the
\* server shuts down every task is cancelled and resumes nothing.
LoopIdle == ~stopping /\ \A r \in Request : pc[r] # "woken"

Answer(r, a) ==
    /\ pc' = [pc EXCEPT ![r] = "answered"]
    /\ reply' = [reply EXCEPT ![r] = a]
    /\ UNCHANGED <<row, inflight, stage, slip, waits>>

Start(r, k) ==
    /\ Put(k, "pending", "start", 0)
    /\ inflight' = [inflight EXCEPT ![k] = r]
    /\ pc' = [pc EXCEPT ![r] = "queued"]
    /\ stage' = [stage EXCEPT ![r] = "start"]
    /\ slip' = [slip EXCEPT ![r] = 0]
    /\ waits' = [waits EXCEPT ![r] = NoRequest]
    /\ UNCHANGED reply

\* Invalid storno arguments, or a storno paid by card: the run ends before
\* its first await, so nobody sees the row pending.
Refuse(r, k) ==
    /\ Put(k, "failed", "start", 0)
    /\ pc' = [pc EXCEPT ![r] = "answered"]
    /\ reply' = [reply EXCEPT ![r] = "error"]
    /\ UNCHANGED <<inflight, stage, slip, waits>>

\* Mutant: a stored result is not looked for, only an unknown one.
ByRowAgain(r, k) ==
    \/ row[k].state = "pending" /\ Answer(r, "unknown")
    \/ row[k].state # "pending" /\ (Start(r, k) \/ Refuse(r, k))

\* What the journal's row says of a request that waits for no run.
ByRow(r, k) ==
    \/ row[k].state = "done" /\ Answer(r, "already")
    \/ row[k].state = "pending" /\ Answer(r, "unknown")
    \/ row[k].state \in {"none", "failed"} /\ (Start(r, k) \/ Refuse(r, k))

\* POST of a receipt with a UNS while the same receipt is being printed.
PostWaits(r, k) ==
    /\ inflight[k] # NoRequest
    /\ pc' = [pc EXCEPT ![r] = "waiting"]
    /\ waits' = [waits EXCEPT ![r] = inflight[k]]
    /\ UNCHANGED <<row, inflight, stage, slip, reply>>

\* POST of a document without a UNS: it is not in the journal.
PostPlain(r) ==
    /\ pc' = [pc EXCEPT ![r] = "queued"]
    /\ UNCHANGED <<row, inflight, stage, slip, waits, reply>>

Post(r) ==
    /\ pc[r] = "new" /\ ~stopping
    /\ \E k \in Document :
        /\ key' = [key EXCEPT ![r] = k]
        /\ \/ k = Plain /\ PostPlain(r)
           \/ k \in Receipt /\ PostWaits(r, k)
           \/ k \in Receipt /\ inflight[k] = NoRequest /\ ByRow(r, k)
    /\ UNCHANGED <<dev, lock, todo, stopping, restarts>>

\* A resumed waiter reads the row; it does not look for a new run.
Wake(r) ==
    /\ pc[r] = "woken" /\ ~stopping
    /\ ByRow(r, key[r])
    /\ UNCHANGED <<dev, lock, key, todo, stopping, restarts>>

\* Mutant: the event of the run is not set.
EndRunSilently(r, a) ==
    /\ lock' = IF lock = r THEN NoRequest ELSE lock
    /\ inflight' = IF key[r] = Plain THEN inflight
                   ELSE [inflight EXCEPT ![key[r]] = NoRequest]
    /\ pc' = [pc EXCEPT ![r] = "answered"]
    /\ reply' = [reply EXCEPT ![r] = a]
    /\ UNCHANGED <<key, waits, todo, stopping, restarts>>

\* The end of a run: the lock is free, the event is set, no await between.
EndRun(r, a) ==
    /\ lock' = IF lock = r THEN NoRequest ELSE lock
    /\ inflight' = IF key[r] = Plain THEN inflight
                   ELSE [inflight EXCEPT ![key[r]] = NoRequest]
    /\ pc' = [q \in Request |->
                IF q = r THEN "answered"
                ELSE IF pc[q] = "waiting" /\ waits[q] = r THEN "woken" ELSE pc[q]]
    /\ reply' = [reply EXCEPT ![r] = a]
    /\ UNCHANGED <<key, waits, todo, stopping, restarts>>

Succeed(r) ==
    /\ IF key[r] = Plain THEN UNCHANGED row
       ELSE Put(key[r], "done", "done", slip[r])
    /\ EndRun(r, "ok")
    /\ UNCHANGED <<stage, slip>>

\* run() answers ok=false: unknown after mark("paying"), failed before.
Fail(r) ==
    /\ \/ key[r] = Plain /\ UNCHANGED row /\ EndRun(r, "error")
       \/ /\ key[r] # Plain /\ stage[r] \in UnknownStages
          /\ Put(key[r], "pending", stage[r], slip[r])
          /\ EndRun(r, "unknown")
       \/ /\ key[r] # Plain /\ stage[r] \notin UnknownStages
          /\ Put(key[r], "failed", stage[r], 0)
          /\ EndRun(r, "error")
    /\ UNCHANGED <<stage, slip>>

-----------------------------------------------------------------------------
(* _print_receipt_impl, on a Datecs PM printer.                            *)

Kept == UNCHANGED <<row, inflight, lock, key, waits, reply, todo, stopping, restarts>>

Goto(r, label) == pc' = [pc EXCEPT ![r] = label] /\ Kept

AcquireLock(r) ==
    /\ pc[r] = "queued" /\ lock = NoRequest /\ ~stopping
    /\ pc' = [pc EXCEPT ![r] = "opening"]
    /\ lock' = r
    /\ UNCHANGED <<dev, row, inflight, key, stage, slip, waits, reply, todo,
                   stopping, restarts>>

\* Mutant: the cancel after a failure does not ask whether it was opened.
OpenOrCancel(r) ==
    /\ pc[r] = "opening" /\ LoopIdle
    /\ \E o \in OpenCommand(dev, key[r]) :
        /\ dev' = o.dev
        /\ \/ /\ o.answer = "ok"
              /\ slip' = [slip EXCEPT ![r] = Slip(o.dev)]
              /\ Goto(r, "selling")
           \/ o.answer # "ok" /\ Goto(r, "cancelling") /\ UNCHANGED slip
    /\ UNCHANGED stage

\* Without an answer nothing counts as opened, and nothing is cancelled.
OpenReceipt(r) ==
    /\ pc[r] = "opening" /\ LoopIdle
    /\ \E o \in OpenCommand(dev, key[r]) :
        /\ dev' = o.dev
        /\ \/ /\ o.answer = "ok"
              /\ slip' = [slip EXCEPT ![r] = Slip(o.dev)]
              /\ Goto(r, "selling")
              /\ UNCHANGED stage
           \/ o.answer # "ok" /\ Fail(r)

\* The items and the optional subtotal, then mark("paying").
RegisterItems(r) ==
    /\ pc[r] = "selling" /\ LoopIdle
    /\ \E o \in LineCommand(dev) :
        /\ dev' = o.dev
        /\ \/ /\ o.answer = "ok"
              /\ stage' = [stage EXCEPT ![r] = "paying"]
              /\ Goto(r, "paying")
           \/ o.answer # "ok" /\ Goto(r, "cancelling") /\ UNCHANGED stage
    /\ UNCHANGED slip

\* One payment of the receipt; after the last one, mark("closing").
PayTotal(r) ==
    /\ pc[r] = "paying" /\ LoopIdle
    /\ \E o \in PaymentCommand(dev) :
        /\ dev' = o.dev
        /\ \/ o.answer = "ok" /\ Goto(r, "paying") /\ UNCHANGED stage
           \/ /\ o.answer = "ok"
              /\ stage' = [stage EXCEPT ![r] = "closing"]
              /\ Goto(r, "closing")
           \/ o.answer # "ok" /\ Goto(r, "cancelling") /\ UNCHANGED stage
    /\ UNCHANGED slip

\* Mutant: a close that nobody answered counts as done.
CloseOptimistically(r) ==
    /\ pc[r] = "closing" /\ LoopIdle
    /\ \E o \in CloseCommand(dev) :
        /\ dev' = o.dev
        /\ Goto(r, IF o.answer # "refused" THEN "closed" ELSE "cancelling")
    /\ UNCHANGED <<stage, slip>>

CloseReceipt(r) ==
    /\ pc[r] = "closing" /\ LoopIdle
    /\ \E o \in CloseCommand(dev) :
        /\ dev' = o.dev
        /\ Goto(r, IF o.answer = "ok" THEN "closed" ELSE "cancelling")
    /\ UNCHANGED <<stage, slip>>

\* except Exception: cancel the document as best one can, then re-raise.
CancelReceipt(r) ==
    /\ pc[r] = "cancelling" /\ LoopIdle
    /\ \E o \in CancelCommand(dev) : dev' = o.dev
    /\ Fail(r)

\* The FM serial has been read (or not); the result is returned.
ReportPrinted(r) ==
    /\ pc[r] = "closed" /\ LoopIdle
    /\ Succeed(r)
    /\ UNCHANGED dev

-----------------------------------------------------------------------------
(* Reconciliation, resolution and the reset button.                        *)

BeginReconcile ==
    /\ ~stopping
    /\ todo' = todo \cup PendingRows
    /\ UNCHANGED <<dev, row, inflight, lock, request, stopping, restarts>>

\* Mutant: the last document must be greater than the expected slip.
DecisionStrict(n) ==
    IF IsOpen(dev) THEN "pending"
    ELSE IF StatusNumber(dev) > n THEN "done" ELSE "failed"

\* decide(): what the status of the device says of an expected slip.
Decision(n) ==
    IF IsOpen(dev) THEN "pending"
    ELSE IF StatusNumber(dev) >= n THEN "done" ELSE "failed"

\* One row of a snapshot: with_pm, 0x4C, decide, put.  The lock is held
\* throughout, and nothing is awaited between the answer and the put; the
\* row is not read again.  An unreadable status decides nothing.
ReconcileRow(t) ==
    /\ lock = NoRequest /\ LoopIdle
    /\ ReconcileInFlight \/ inflight[t.key] = NoRequest
    /\ todo' = todo \ {t}
    /\ \/ UNCHANGED row
       \/ /\ Decision(t.slip) # "pending"
          /\ Put(t.key, Decision(t.slip), "reconciled", 0)
    /\ UNCHANGED <<dev, inflight, lock, request, stopping, restarts>>

\* The administrator has looked at the device and tells the truth.
ResolveReceipt(k) ==
    /\ row[k].state # "none" /\ ~stopping
    /\ ResolveInFlight \/ inflight[k] = NoRequest
    /\ dev.key # k
    /\ Put(k, IF IsPrinted(dev, k) THEN "done" ELSE "failed", "resolved", 0)
    /\ UNCHANGED <<dev, inflight, lock, request, todo, stopping, restarts>>

\* POST /reset: cancels whatever document is open.
ResetPrinter ==
    /\ lock = NoRequest /\ LoopIdle
    /\ \E o \in CancelCommand(dev) : dev' = o.dev
    /\ UNCHANGED <<row, inflight, lock, request, todo, stopping, restarts>>

\* A document left open is finished or voided on the device's own keyboard.
ClearByHand ==
    /\ lock = NoRequest /\ IsOpen(dev)
    /\ dev' = IF dev.paid = "full" THEN Printed(dev) ELSE Cleared(dev)
    /\ UNCHANGED <<row, inflight, lock, request, todo, stopping, restarts>>

-----------------------------------------------------------------------------
(* Shutdown and restart.                                                   *)

BeginShutdown ==
    /\ restarts < MaxRestarts /\ ~stopping
    /\ stopping' = TRUE
    /\ UNCHANGED <<dev, row, inflight, lock, request, todo, restarts>>

\* The command a worker thread is executing for a run: it goes on when the
\* coroutine that waits for it is cancelled, but no other follows it.
CommandInFlight(r) ==
    CASE pc[r] = "opening" -> OpenCommand(dev, key[r])
      [] pc[r] = "paying" -> PaymentCommand(dev)
      [] pc[r] = "closing" -> CloseCommand(dev)
      [] pc[r] = "cancelling" -> CancelCommand(dev)
      [] OTHER -> LineCommand(dev)

\* CancelledError in a run: except BaseException, and no cancel command.
CancelTask(r) ==
    /\ stopping /\ pc[r] \in Running
    /\ \E o \in CommandInFlight(r) : dev' = o.dev
    /\ IF key[r] = Plain THEN UNCHANGED row
       ELSE Put(key[r],
                IF stage[r] \in UnknownStages THEN "pending" ELSE "failed",
                stage[r], slip[r])
    /\ EndRun(r, "lost")
    /\ UNCHANGED <<stage, slip>>

\* The process ends, in any state, and starts again: the journal's rows and
\* the device stay, the startup task reconciles what it finds pending.
Restart ==
    /\ restarts < MaxRestarts
    /\ restarts' = restarts + 1
    /\ stopping' = FALSE
    /\ lock' = NoRequest
    /\ inflight' = [k \in Receipt |-> NoRequest]
    /\ pc' = [r \in Request |-> IF pc[r] = "new" THEN "new" ELSE "answered"]
    /\ reply' = [r \in Request |->
                   IF pc[r] \in {"new", "answered"} THEN reply[r] ELSE "lost"]
    /\ todo' = PendingRows
    /\ UNCHANGED <<dev, row, key, stage, slip, waits>>

-----------------------------------------------------------------------------
PrintStep(r) ==
    \/ AcquireLock(r) \/ OpenReceipt(r) \/ RegisterItems(r) \/ PayTotal(r)
    \/ CloseReceipt(r) \/ CancelReceipt(r) \/ ReportPrinted(r)

Next ==
    \/ \E r \in Request : Post(r) \/ Wake(r) \/ PrintStep(r)
                          \/ CancelTask(r)
    \/ \E t \in todo : ReconcileRow(t)
    \/ \E k \in Receipt : ResolveReceipt(k)
    \/ BeginReconcile \/ ResetPrinter \/ ClearByHand
    \/ BeginShutdown \/ Restart

Spec == Init /\ [][Next]_vars

\* The event loop runs every ready coroutine, a worker thread's command ends
\* (_exchange gives up after three tries), and asyncio.Lock is first come,
\* first served.  A process that is shutting down ends, and is started again.
FairSpec ==
    /\ Spec
    /\ \A r \in Request : WF_vars(Wake(r)) /\ WF_vars(PrintStep(r))
    /\ WF_vars(stopping /\ Restart)

-----------------------------------------------------------------------------
(* Properties.                                                             *)

\* One sale, one fiscal receipt: whatever fails between the first command
\* and the stored result, and however often the till asks again, the device
\* never prints two documents for one UNS (idempotent_print).
AtMostOnePrint ==
    \A k \in Receipt : \A i, j \in 1..Len(dev.printed) :
        dev.printed[i] = k /\ dev.printed[j] = k => i = j

\* A row is failed (or there is none) only while nothing was printed and the
\* device holds no document of the receipt that is paid and could still be
\* closed: "failed" lets the next POST print (idempotent_print, decide).
FailedMeansNotPrinted ==
    \A k \in Receipt :
        row[k].state \in {"none", "failed"} =>
            ~IsPrinted(dev, k) /\ ~(dev.key = k /\ dev.paid = "full")

\* A till that was told ok=true by the run itself has a printed receipt,
\* whatever happened to the journal and the printer since.
OkMeansPrinted ==
    \A r \in Request :
        reply[r] = "ok" => IsPrinted(dev, key[r])

\* A run closes or cancels only the document it opened itself: the cancel
\* after a failure never voids a document an earlier run left behind
\* (the flag "opened" in _print_receipt_impl).
OwnDocument ==
    [][\A r \in Request :
         lock = r /\ IsOpen(dev) /\ dev' # dev =>
             dev.key = key[r] /\ slip[r] = Slip(dev)]_vars

\* The journal's answers, over the device's own journal, are those of OnceOnly.
Verdict ==
    [k \in Receipt |->
        CASE row[k].state \in {"none", "failed"} -> "may"
          [] row[k].state = "pending" -> "unknown"
          [] OTHER -> "done"]

Once == INSTANCE OnceOnly WITH verdict <- Verdict, journal <- dev.printed

\* Every run of the receipt path is one the promise allows (OnceOnly).
RefinesOnceOnly == Once!Spec

\* A POST is answered: neither the wait for another run's event nor the
\* printer's lock holds a till for ever, whatever the device does.
EveryPostAnswered ==
    \A r \in Request : pc[r] # "new" ~> pc[r] = "answered"

-----------------------------------------------------------------------------
(* The inductive invariant behind the safety properties, in parts; it      *)
(* holds when nothing decides a row while its receipt is being printed.    *)

\* A run of a receipt owns its entry of _inflight, and its row is pending.
Ownership ==
    /\ \A r \in Request :
        /\ pc[r] \in Running /\ key[r] # Plain => inflight[key[r]] = r
        /\ pc[r] \in {"waiting", "woken"} => key[r] # Plain
    /\ \A k \in Receipt : inflight[k] # NoRequest =>
        /\ pc[inflight[k]] \in Running
        /\ key[inflight[k]] = k
        /\ row[k].state = "pending"

LockHeld == \A r \in Request : pc[r] \in Holding <=> lock = r

\* What is known of the open document: only paid in full can it be printed,
\* and the journal does not take it for printed while it is open.
OpenDocument ==
    /\ dev.paid = "closed" => dev.key = Plain
    /\ dev.key \in Receipt =>
        ~IsPrinted(dev, dev.key) /\ row[dev.key].state # "done"

\* Before its document is open, a run of a receipt has printed nothing and
\* left nothing that can be printed.
BeforeOpening ==
    \A r \in Request :
        /\ pc[r] \in {"new", "queued", "opening"} => stage[r] = "start"
        /\ pc[r] \in {"queued", "opening"} /\ key[r] # Plain =>
            ~IsPrinted(dev, key[r]) /\ ~(dev.key = key[r] /\ dev.paid = "full")

\* From then on the document on the device is the run's own.
WhileOpen ==
    \A r \in Request :
        /\ pc[r] \in {"selling", "paying", "closing"} => IsOpen(dev)
        /\ pc[r] \in {"selling", "paying", "closing", "cancelling"} /\ IsOpen(dev)
            => dev.key = key[r] /\ slip[r] = Slip(dev)
        /\ pc[r] = "selling" => stage[r] = "start" /\ dev.paid = "no"
        /\ pc[r] = "paying" => stage[r] = "paying"
        /\ pc[r] = "closing" => stage[r] = "closing"
        /\ pc[r] = "cancelling" /\ stage[r] \notin UnknownStages => dev.paid = "no"
        /\ pc[r] = "closed" =>
            stage[r] = "closing" /\ ~IsOpen(dev) /\ IsPrinted(dev, key[r])

\* A slip recorded for k is at most the next number of the device, and at
\* most the last one once k is printed: decide() is never wrong in "failed".
SlipBound(k, n) ==
    /\ n <= Len(dev.printed) + 1
    /\ IsPrinted(dev, k) => n <= Len(dev.printed)

SlipsRecorded ==
    /\ \A k \in Receipt : SlipBound(k, row[k].slip)
    /\ \A t \in todo : SlipBound(t.key, t.slip)
    /\ \A r \in Request : pc[r] \in Running /\ key[r] # Plain => SlipBound(key[r], slip[r])

Unanswered == \A r \in Request : pc[r] # "answered" => reply[r] = "none"

IInv ==
    /\ TypeOK
    /\ Ownership
    /\ LockHeld
    /\ OpenDocument
    /\ BeforeOpening
    /\ WhileOpen
    /\ SlipsRecorded
    /\ Unanswered
    /\ AtMostOnePrint
    /\ FailedMeansNotPrinted
    /\ OkMeansPrinted

-----------------------------------------------------------------------------
(* What the documentation says and the code does not do.                   *)

\* note_slip, receipt_journal.py:59: "the device's last document is at least
\* this number and nothing is open => printed".
DoneMeansPrinted ==
    \A k \in Receipt : row[k].state = "done" => IsPrinted(dev, k)
=============================================================================
