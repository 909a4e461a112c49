----------------------------- MODULE PrinterRoutes -----------------------------
(***************************************************************************)
(* The routes of a printer other than its documents: reports, VAT rates,   *)
(* PLU tables, reset, status and device information (server/routes/        *)
(* printers.py, and the printer actions of routes/iot_compat.py).  They    *)
(* share one lock of the printer, its device, and a cache of the device's  *)
(* information which is also kept on disk (PrinterRegistry).               *)
(*                                                                         *)
(* One command is one step here: PmLink and IcpReceipt show what may       *)
(* happen to it on the wire.  A receipt is one step too (ReceiptPrinting   *)
(* has its commands).  A device handles commands in the order of sending,  *)
(* so that one that seemed lost has taken effect, or never will, before    *)
(* the next one.                                                           *)
(***************************************************************************)
EXTENDS Naturals, Sequences, SequencesExt

CONSTANTS Kind,    \* the routes that requests may take
          Items,   \* items of a PLU table
          MaxRequests, MaxFaults, MaxRestarts   \* bounds

Request == 1..MaxRequests   \* of tills and of the backend, as they arrive
NoOne == 0

Route == {"zreport", "iot", "simple", "rates", "vat", "plu", "unsupported",
          "reset", "status", "info", "receipt"}

ASSUME RoutesAssumption ==
    /\ Kind \subseteq Route /\ Items \in Nat \ {0}
    /\ MaxRequests \in Nat /\ MaxFaults \in Nat /\ MaxRestarts \in Nat

VARIABLES
    driver,   \* the protocol of the printer
    device,   \* its day, its reports, its open document and its tables
    kind,     \* the routes of the requests so far
    run,      \* who holds the lock, the command it is at, what it has found
    queue,    \* waiters of the lock, the oldest first
    told,     \* answers
    cache,    \* what is known of the device's serial numbers
    kept,     \* the same, in the file that survives a restart
    calm,     \* requests that found the lock free, and no fault since
    faults, restarts

vars == <<driver, device, kind, run, queue, told, cache, kept, calm, faults, restarts>>

Free == [of |-> NoOne, step |-> "open", item |-> 1, errors |-> {}]
Nothing == [ok |-> FALSE, no |-> 0, totals |-> {}, table |-> NoOne, serial |-> "none"]
Knowledge == {"none", "empty", "known"}

TypeOK ==
    /\ driver \in {"pm", "icp"}
    /\ device \in [turnover : SUBSET Request, reports : Seq(SUBSET Request),
                   open : BOOLEAN, rates : Request \cup {NoOne},
                   plu : [1..Items -> Request \cup {NoOne}]]
    /\ kind \in Seq(Kind \cup {"dropped"}) /\ Len(kind) <= MaxRequests
    /\ run \in [of : Request \cup {NoOne}, errors : SUBSET (1..Items), item : 1..Items,
                step : {"open", "report", "one", "program", "read", "item", "cancel",
                        "status", "detect", "sell"}]
    /\ queue \in Seq(Request) /\ IsInjective(queue) /\ run.of \notin ToSet(queue)
    /\ \A r \in Request : told[r] # <<>> => r # run.of /\ r \notin ToSet(queue)
    /\ cache \in Knowledge /\ kept \in Knowledge
    /\ faults \in 0..MaxFaults /\ restarts \in 0..MaxRestarts

Init ==
    /\ driver \in {"pm", "icp"}
    /\ device = [turnover |-> {}, reports |-> <<>>, open |-> FALSE, rates |-> NoOne,
                 plu |-> [i \in 1..Items |-> NoOne]]
    /\ kind = <<>>
    /\ run = Free /\ queue = <<>> /\ told = [r \in Request |-> <<>>]
    /\ cache = "none" /\ kept = "none" /\ calm = {} /\ faults = 0 /\ restarts = 0

-----------------------------------------------------------------------------
(* Answers, and the lock.                                                  *)

\* A request has one answer: a sequence of length 1 once it is given.
Tell(r, answer) == told' = [told EXCEPT ![r] = <<answer>>]
Yes == [Nothing EXCEPT !.ok = TRUE]

\* _device_info: an answer with what is known of the device, whatever it is.
Info(c) == [Yes EXCEPT !.serial = c]

\* printer_info asks the device when nothing is cached and nobody prints.
AsksForInfo == driver = "pm" /\ cache = "none" /\ run = Free

\* Routes that answer without the lock: information already there, "busy",
\* and 501 of the VAT rates where the driver is not a PM.
AnswersAtOnce(k) ==
    \/ k = "info" /\ ~AsksForInfo
    \/ k = "status" /\ run # Free
    \/ k \in {"rates", "vat"} /\ driver # "pm"

\* asyncio.Lock: taken at once only when it is free and nobody waits.
Enter(r) ==
    IF run = Free /\ queue = <<>>
    THEN run' = [Free EXCEPT !.of = r] /\ UNCHANGED queue
    ELSE queue' = Append(queue, r) /\ UNCHANGED run

Post(k) ==
    LET r == Len(kind) + 1 IN
    /\ r \in Request /\ kind' = Append(kind, k)
    /\ calm' = IF run = Free THEN calm \cup {r} ELSE calm
    /\ IF AnswersAtOnce(k)
       THEN /\ Tell(r, CASE k = "info" -> Info(cache) [] k = "status" -> Yes
                          [] OTHER -> Nothing)
            /\ UNCHANGED <<run, queue>>
       ELSE Enter(r) /\ UNCHANGED told
    /\ UNCHANGED <<driver, device, cache, kept, faults, restarts>>

\* The lock was released and its oldest waiter, woken by that, runs.
Acquire ==
    /\ run = Free /\ queue # <<>>
    /\ run' = [Free EXCEPT !.of = Head(queue)] /\ queue' = Tail(queue)
    /\ UNCHANGED <<driver, device, kind, told, cache, kept, calm, faults, restarts>>

\* Mutant: an exception leaves the lock behind.
FinishHolding(answer) ==
    /\ Tell(run.of, answer)
    /\ IF answer.ok THEN run' = Free ELSE UNCHANGED run

\* The end of with_driver, by the answer or by an exception.
Finish(answer) == Tell(run.of, answer) /\ run' = Free

Goto(step) == run' = [run EXCEPT !.step = step] /\ UNCHANGED told

\* The cache file after a write, which may fail.
Persisted(c) == {c, kept}

\* What is learnt of the device is cached and written to disk.
Cache(c) == cache' = c /\ kept' \in Persisted(c)
Forget == UNCHANGED <<cache, kept>>

Fault == faults < MaxFaults /\ faults' = faults + 1 /\ calm' = {}
NoFault == UNCHANGED <<faults, calm>>

-----------------------------------------------------------------------------
(* The device.                                                             *)

\* Mutant: the day is zeroed before its totals are answered.
ReportedLate(d) == [d EXCEPT !.turnover = {}, !.reports = Append(@, {})]

\* A Z report: the day's turnover goes to the journal and starts from zero.
Reported(d) == [d EXCEPT !.turnover = {}, !.reports = Append(@, d.turnover)]

\* All slots of the rates are replaced: one that is not given is disabled.
RatesProgrammed(d, r) == [d EXCEPT !.rates = r]

ItemProgrammed(d, i, r) == [d EXCEPT !.plu[i] = r]

\* The device after the command the holder is at.
Executed ==
    CASE run.step = "report" -> Reported(device)
      [] run.step = "program" -> RatesProgrammed(device, run.of)
      [] run.step = "item" -> ItemProgrammed(device, run.item, run.of)
      [] run.step = "cancel" -> [device EXCEPT !.open = FALSE]
      [] run.step = "sell" -> [device EXCEPT !.turnover = @ \cup {run.of}]
      [] OTHER -> device

\* The VAT rates are accessible between a Z report and the next receipt.
NeedsZReport == run.step \in {"program", "read"} /\ device.turnover # {}

\* No report and no new receipt while a document is open, nothing to cancel
\* when none is.
Forbidden ==
    \/ run.step \in {"report", "sell"} /\ device.open
    \/ run.step = "cancel" /\ ~device.open
    \/ NeedsZReport

\* Commands a device may refuse for reasons of its own (paper, a table full).
Refusable == run.step \in {"report", "one", "item", "sell", "status"}

\* One command and what becomes of it: done, refused by the device, or lost
\* with its answer, before or after it took effect.  A receipt that fails
\* may also stay open, when its cancellation is lost as well.
Command(outcome) ==
    \/ /\ outcome = "done" /\ ~Forbidden /\ NoFault
       /\ device' = Executed
    \/ /\ outcome = "refused" /\ (Forbidden \/ Refusable) /\ NoFault
       /\ UNCHANGED device
    \/ /\ outcome = "lost" /\ Fault
       /\ \/ UNCHANGED device
          \/ ~Forbidden /\ device' = Executed
          \/ run.step = "sell" /\ ~Forbidden /\ device' = [device EXCEPT !.open = TRUE]

-----------------------------------------------------------------------------
(* The routes under the lock.                                              *)

FirstStep(k) ==
    CASE k \in {"zreport", "iot"} -> "report"
      [] k = "rates" -> "read"
      [] k = "vat" -> "program"
      [] k = "plu" -> "item"
      [] k = "reset" -> "cancel"
      [] k = "status" -> "status"
      [] k = "info" -> "detect"
      [] k = "receipt" -> "sell"
      [] OTHER -> "one"

\* What a route that ends without a result answers; information is answered
\* from the cache even then.
Failed == IF kind[run.of] = "info" THEN Info(cache') ELSE Nothing

\* The operators, the logo, the template and the journal find that no driver
\* has their method, and answer 501.
Unsupported == kind[run.of] = "unsupported" /\ Finish(Nothing)

\* The driver is made and opened, or opening it fails.
Open ==
    /\ run.of # NoOne /\ run.step = "open" /\ Forget
    /\ \/ kind[run.of] # "unsupported" /\ Goto(FirstStep(kind[run.of])) /\ NoFault
       \/ Unsupported /\ NoFault
       \/ Finish(Failed) /\ Fault
    /\ UNCHANGED <<driver, device, kind, queue, restarts>>

\* The answer of the PM driver: the report's number and totals.
Totals(d) == [Yes EXCEPT !.no = Len(d.reports), !.totals = Last(d.reports)]

\* zreport-totals: number and totals where the driver returns them, else the
\* device's word.
ZReport(outcome) ==
    IF outcome # "done" THEN Nothing
    ELSE IF driver = "pm" THEN Totals(device') ELSE Yes

\* An action of the IoT box is a success unless the driver raises, which the
\* ICP driver does not.
IotAction(outcome) ==
    IF driver = "icp" \/ outcome = "done" THEN Yes ELSE Nothing

Report(outcome) ==
    Finish(IF kind[run.of] = "iot" THEN IotAction(outcome) ELSE ZReport(outcome))

\* Withdrawals, deposits, X and fiscal memory reports, duplicate, drawer.
Simple(outcome) == Finish([Nothing EXCEPT !.ok = outcome = "done"])

\* Rates are programmed, then read back before the lock is released.
Program(outcome) ==
    IF outcome = "done" THEN Goto("read") ELSE Finish(Nothing)

Read(outcome) ==
    Finish(IF outcome = "done" THEN [Yes EXCEPT !.table = device.rates] ELSE Nothing)

\* Mutant: an item that is lost on the way counts as programmed.
ItemFailedLoudly(outcome) == driver = "pm" /\ outcome = "refused"

\* A PM driver raises for an item that failed; the ICP driver returns a
\* status nobody looks at.
ItemFailed(outcome) == driver = "pm" /\ outcome # "done"

\* plu/sync: one item after another under one lock; a failed item is listed
\* and the next one is tried.
Item(outcome) ==
    LET errors == run.errors \cup IF ItemFailed(outcome) THEN {run.item} ELSE {} IN
    IF run.item < Items
    THEN run' = [run EXCEPT !.item = @ + 1, !.errors = errors] /\ UNCHANGED told
    ELSE Finish([Nothing EXCEPT !.ok = errors = {}, !.table = run.of])

\* reset: cancelled, or nothing was open; a lost answer is neither.
Cancel(outcome) == Finish([Nothing EXCEPT !.ok = outcome # "lost"])

\* status: a device that answers without a critical error is asked for its
\* information when nothing is cached.  (Left out: ICP devices whose status
\* is always two errors are asked for their information instead.)
Status(outcome) ==
    IF outcome # "done" THEN Finish(Nothing)
    ELSE IF cache = "none" THEN Goto("detect") ELSE Finish(Yes)

\* A receipt on PM: the answer carries the serial number of the fiscal
\* memory, asked for when the cache does not have it.
Sell(outcome) ==
    IF outcome # "done" THEN Finish(Nothing)
    ELSE IF driver = "pm" /\ cache # "known" THEN Goto("detect")
    ELSE Finish(Info(cache))

\* detect of PM swallows a failed read and returns what it has; after a
\* receipt only a number is cached.
LearntByPm(outcome) ==
    IF outcome = "done" THEN Cache("known")
    ELSE IF kind[run.of] = "receipt" THEN Forget ELSE Cache("empty")

\* detect of ICP returns nothing then.
LearntByIcp(outcome) == IF outcome = "done" THEN Cache("known") ELSE Forget

Learnt(outcome) ==
    IF driver = "pm" THEN LearntByPm(outcome) ELSE LearntByIcp(outcome)

\* The holder's next command and what its route makes of the outcome.
Step ==
    /\ run.of # NoOne /\ run.step # "open"
    /\ \E outcome \in {"done", "refused", "lost"} :
        /\ Command(outcome)
        /\ IF run.step = "detect" THEN Learnt(outcome) ELSE Forget
        /\ CASE run.step = "report" -> Report(outcome)
             [] run.step = "one" -> Simple(outcome)
             [] run.step = "program" -> Program(outcome)
             [] run.step = "read" -> Read(outcome)
             [] run.step = "item" -> Item(outcome)
             [] run.step = "cancel" -> Cancel(outcome)
             [] run.step = "status" -> Status(outcome)
             [] run.step = "sell" -> Sell(outcome)
             [] run.step = "detect" ->
                    Finish(IF kind[run.of] = "status" THEN Yes ELSE Info(cache'))
    /\ UNCHANGED <<driver, kind, queue, restarts>>

\* Status and information give up after 8 s, with or without the lock.
GiveUp(r) ==
    /\ r \in DOMAIN kind /\ kind[r] \in {"status", "info"} /\ told[r] = <<>> /\ Fault
    /\ Tell(r, IF kind[r] = "info" THEN Info(cache) ELSE Nothing)
    /\ run' = IF run.of = r THEN Free ELSE run
    /\ \/ r \notin ToSet(queue) /\ UNCHANGED queue
       \/ \E n \in DOMAIN queue : queue[n] = r /\ queue' = RemoveAt(queue, n)
    /\ UNCHANGED <<driver, device, kind, cache, kept, restarts>>

\* The process restarts: unanswered requests are gone, the cache comes from
\* its file.
Restart ==
    /\ restarts < MaxRestarts /\ restarts' = restarts + 1
    /\ kind' = [r \in DOMAIN kind |-> IF told[r] = <<>> THEN "dropped" ELSE kind[r]]
    /\ run' = Free /\ queue' = <<>> /\ cache' = kept /\ calm' = {}
    /\ UNCHANGED <<driver, device, told, kept, faults>>

-----------------------------------------------------------------------------
Next ==
    \/ \E k \in Kind : Post(k)
    \/ Acquire \/ Open \/ Step
    \/ \E r \in Request : GiveUp(r)
    \/ Restart

Spec == Init /\ [][Next]_vars

\* The event loop wakes the lock's waiters, and a command ends with its
\* answer or by the link's timeouts (PmLink).
FairSpec == Spec /\ WF_vars(Acquire) /\ WF_vars(Open \/ Step)

-----------------------------------------------------------------------------
(* Properties.                                                             *)

Answered(r, k) == told[r] # <<>> /\ kind[r] = k
Answer(r) == told[r][1]

\* The totals a till is told are those of the report with that number, no
\* two tills are told the same report, and every receipt answered ok=true is
\* in one report or in the running day, in one only: what the session close
\* of Odoo reconciles against.
TotalsAreTheReports ==
    LET R == device.reports
        Told == {r \in Request : Answered(r, "zreport") /\ Answer(r).no > 0}
    IN  /\ \A r \in Told : Answer(r).totals = R[Answer(r).no]
        /\ \A r, s \in Told : Answer(r).no = Answer(s).no => r = s
        /\ \A r \in Request : Answered(r, "receipt") /\ Answer(r).ok =>
                LET Z == {n \in DOMAIN R : r \in R[n]}
                IN  IF r \in device.turnover THEN Z = {} ELSE \E n \in Z : Z = {n}

\* A PM printer that is said to have been given its VAT rates or its PLU
\* table holds exactly that table at this moment, though other requests
\* program it too and items of the table are refused or lost.
TablesAreOnesOwn ==
    [][\A r \in Request :
        driver = "pm" /\ told[r] = <<>> /\ told'[r] # <<>> /\ told'[r][1].ok =>
            /\ kind'[r] = "vat" => told'[r][1].table = r /\ device'.rates = r
            /\ kind'[r] = "plu" => \A i \in 1..Items : device'.plu[i] = r]_vars

\* Every request is answered, unless the process restarts under it.
EveryRequestAnswered ==
    LET Posted(r) == r \in DOMAIN kind
    IN  \A r \in Request :
            Posted(r) ~> (told[r] # <<>> \/ (Posted(r) /\ kind[r] = "dropped"))

\* Odoo needs the serial number at once, without it the till does not sell:
\* asked while nobody prints, and with nothing going wrong meanwhile, the
\* information of a PM printer has it.
InfoHasTheSerial ==
    \A r \in calm : driver = "pm" /\ Answered(r, "info") => Answer(r).serial = "known"
=============================================================================
