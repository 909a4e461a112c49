------------------------------ MODULE IcpReceipt ------------------------------
(***************************************************************************)
(* Receipts and invoices on the ICP family of fiscal printers (Datecs ICP, *)
(* Daisy, Eltrade, Incotex).  _icp_request (drivers/fiscal/datecs_icp/     *)
(* protocol.py) repeats a request on a timeout or a NAK, as the PM link    *)
(* does, but takes the first well-formed answer for its own: parse_response*)
(* drops the SEQ and CMD of the frame.  The routes of                      *)
(* server/routes/printers.py drive it command by command under the         *)
(* printer's lock, and report an answer of the device, never an exception, *)
(* when the retries are used up (E101).                                    *)
(*                                                                         *)
(* The device itself is not part of the repository: its commands are       *)
(* modelled from what the routes expect of them.  It is taken to know a    *)
(* repeated request of one connection, as the PM device does.              *)
(***************************************************************************)
EXTENDS Integers, Sequences

CONSTANTS Sale, Invoice,   \* receipts, which go through the journal; invoices
          NoDoc,           \* no document is open
          SerialLine,      \* a late answer also reaches the next connection
          CommentFallback, \* invoice.allow_comment_fallback
          Retries,         \* MAX_WRITE_RETRIES
          MaxQueue,        \* requests the device's buffer holds
          MaxRuns, MaxFaults   \* bounds

Document == Sale \cup Invoice

ASSUME IcpAssumption ==
    /\ Sale \cap Invoice = {} /\ NoDoc \notin Document
    /\ SerialLine \in BOOLEAN /\ CommentFallback \in BOOLEAN
    /\ Retries \in Nat \ {0} /\ MaxQueue \in Nat
    /\ MaxRuns \in Nat /\ MaxFaults \in Nat

VARIABLES
    run,      \* who holds the printer's lock, and the step it is at
    runs,     \* runs so far: the number of the connection
    attempts, \* writes of the current command; 0: not sent yet
    toDevice, \* requests the device has not read
    toHost,   \* answers nobody has read
    last,     \* the request the device handled last
    doc,      \* the open document of the device
    printed,  \* documents it closed and printed
    row,      \* the journal's rows
    clean,    \* a reset has just reported that the device is clean
    faults    \* lost or damaged frames so far

device == <<doc, printed>>
vars == <<run, runs, attempts, toDevice, toHost, last, doc, printed, row,
          clean, faults>>

Step == {"idle", "open", "openInvoice", "abortInvoice", "comment", "item",
         "pay", "full", "close", "abort", "number", "reset", "other"}
Idle == [step |-> "idle", of |-> NoDoc, pays |-> FALSE, stage |-> "printing"]
Run == [step : Step, of : Document \cup {NoDoc}, pays : BOOLEAN,
        stage : {"printing", "paying", "closing"}]

Code == {"ok", "E401", "E404", "error", "E101"}
Request == [run : 1..MaxRuns, cmd : Step, of : Document \cup {NoDoc}]
Paper == [of : Document, lines : Seq(Document), paid : BOOLEAN]

TypeOK ==
    /\ run \in Run /\ runs \in 0..MaxRuns /\ attempts \in 0..Retries
    /\ toDevice \in Seq(Request) /\ toHost \in Seq((Code \ {"E101"}) \cup {"noise"})
    /\ last \in [to : Request \cup {NoDoc}, code : Code]
    /\ doc \in Paper \cup {NoDoc} /\ printed \in Seq(Paper)
    /\ row \in [Sale -> {"none", "pending", "failed", "done"}]
    /\ clean \in BOOLEAN /\ faults \in 0..MaxFaults

Init ==
    /\ run = Idle /\ runs = 0 /\ attempts = 0
    /\ toDevice = <<>> /\ toHost = <<>> /\ last = [to |-> NoDoc, code |-> "ok"]
    /\ doc = NoDoc /\ printed = <<>>
    /\ row = [r \in Sale |-> "none"] /\ clean = FALSE /\ faults = 0

-----------------------------------------------------------------------------
(* The routes.                                                             *)

\* Mutant: what an earlier connection left unread is still there.
ConnectDirty == toHost' = toHost

\* open: a new socket; a serial port drops what has arrived so far.
Connect == toHost' = <<>>

\* with_driver: the lock is free, the driver is made and opened.
Begin(r) ==
    /\ run = Idle /\ runs < MaxRuns
    /\ runs' = runs + 1 /\ run' = r /\ attempts' = 0 /\ clean' = FALSE
    /\ Connect
    /\ UNCHANGED <<toDevice, last, device, faults>>

\* POST receipt: a row that is done or pending answers by itself.
StartSale(r) ==
    /\ row[r] \in {"none", "failed"}
    /\ row' = [row EXCEPT ![r] = "pending"]
    /\ \E p \in BOOLEAN : Begin([Idle EXCEPT !.step = "open", !.of = r, !.pays = p])

\* POST invoice, not journaled: by the native command when the firmware has
\* it, else as a receipt with comments if the configuration allows that.
StartInvoice(i) ==
    /\ \E p \in BOOLEAN, s \in {"openInvoice"} \cup IF CommentFallback THEN {"open"} ELSE {} :
            Begin([Idle EXCEPT !.step = s, !.of = i, !.pays = p])
    /\ UNCHANGED row

\* POST reset, and the routes that send one command (cash, reports, drawer).
StartCommand(s) == Begin([Idle EXCEPT !.step = s]) /\ UNCHANGED row

\* Mutant: a failure while closing is like any other.
UnknownStagesShort == {"paying"}

UnknownStages == {"paying", "closing"}

\* idempotent_print: what the run's answer makes of its row.
RowAfter(r, ok) ==
    IF ok THEN "done" ELSE IF r.stage \in UnknownStages THEN "pending" ELSE "failed"

\* The connection is closed and the lock released; what the device says on
\* this connection from now on reaches nobody, unless the line is serial.
Release(ok) ==
    /\ run' = Idle /\ attempts' = 0
    /\ row' = IF run.of \in Sale THEN [row EXCEPT ![run.of] = RowAfter(run, ok)] ELSE row

Goto(s, stage) ==
    /\ run' = [run EXCEPT !.step = s, !.stage = stage]
    /\ attempts' = 0
    /\ UNCHANGED row

\* The receipt after its items: mark("paying"), mark("closing") and a full
\* payment, or payments, mark("closing") and close.  An invoice marks nothing.
AfterItems ==
    IF run.pays THEN Goto("pay", IF run.of \in Sale THEN "paying" ELSE "printing")
    ELSE Goto("full", IF run.of \in Sale THEN "closing" ELSE "printing")

\* Mutant: no answer is taken for a clean device.
CleanAnswerOrNone(code) == code \in {"ok", "E404", "E101"}

\* reset_printer: aborted, or "command not allowed": nothing was open.
CleanAnswer(code) == code \in {"ok", "E404"}

\* A refused open ends the run, and nothing is aborted.
AfterOpen(code) ==
    IF code = "ok" THEN Goto(IF run.of \in Invoice THEN "comment" ELSE "item", "printing")
    ELSE Release(FALSE)

\* Open of a native invoice: E401 aborts, then the fallback or E412.
AfterOpenInvoice(code) ==
    IF code = "ok" THEN Goto("item", "printing")
    ELSE IF code = "E401" THEN Goto("abortInvoice", "printing")
    ELSE Release(FALSE)

\* The routes' reaction to the answer of the command they sent.
Advance(code) ==
    LET next == CASE run.step \in {"item", "pay", "full", "close"} -> code = "ok"
                  [] OTHER -> TRUE
    IN  /\ clean' = (run.step = "reset" /\ CleanAnswer(code))
        /\ IF ~next THEN Goto("abort", run.stage)
           ELSE CASE run.step = "open" -> AfterOpen(code)
                  [] run.step = "openInvoice" -> AfterOpenInvoice(code)
                  [] run.step = "abortInvoice" ->
                        IF CommentFallback THEN Goto("open", "printing") ELSE Release(FALSE)
                  [] run.step = "comment" -> Goto("item", "printing")
                  [] run.step = "item" -> AfterItems
                  [] run.step = "pay" ->
                        Goto("close", IF run.of \in Sale THEN "closing" ELSE "printing")
                  [] run.step = "full" ->
                        Goto(IF run.of \in Sale THEN "number" ELSE "close", run.stage)
                  [] run.step = "close" -> Goto("number", run.stage)
                  [] run.step = "number" -> Release(TRUE)
                  [] run.step = "abort" -> Release(FALSE)
                  [] OTHER -> Release(TRUE)

-----------------------------------------------------------------------------
(* One command: _icp_request.                                              *)

\* Write the request; a full buffer loses it.
Write ==
    /\ attempts' = attempts + 1
    /\ toDevice' = IF Len(toDevice) < MaxQueue
                   THEN Append(toDevice, [run |-> runs, cmd |-> run.step, of |-> run.of])
                   ELSE toDevice

\* Mutant: one attempt too many.
TryAgainOnceMore(clear) ==
    IF attempts <= Retries
    THEN Write /\ clear /\ UNCHANGED <<run, row, clean>>
    ELSE Advance("E101") /\ clear /\ UNCHANGED toDevice

\* The next attempt, or status E101 after the last one.
TryAgain(clear) ==
    IF attempts < Retries
    THEN Write /\ clear /\ UNCHANGED <<run, row, clean>>
    ELSE Advance("E101") /\ clear /\ UNCHANGED toDevice

Send ==
    /\ run # Idle /\ attempts = 0
    /\ Write
    /\ UNCHANGED <<run, runs, toHost, last, device, row, clean, faults>>

Timeout ==
    /\ run # Idle /\ attempts > 0 /\ toHost = <<>>
    /\ TryAgain(toHost' = toHost)
    /\ UNCHANGED <<runs, last, device, faults>>

\* The first frame is taken, whichever request it answers; what was read
\* with it is dropped.
Receive ==
    /\ run # Idle /\ attempts > 0 /\ toHost # <<>>
    /\ \E n \in 1..Len(toHost) :
        LET rest == toHost' = SubSeq(toHost, n + 1, Len(toHost)) IN
        IF Head(toHost) = "noise" THEN TryAgain(rest)
        ELSE Advance(Head(toHost)) /\ rest /\ UNCHANGED toDevice
    /\ UNCHANGED <<runs, last, device, faults>>

\* The socket or the port fails: the command raises, and so does the abort.
LinkBreaks ==
    /\ run # Idle
    /\ Release(FALSE)
    /\ toHost' = <<>> /\ clean' = FALSE
    /\ UNCHANGED <<runs, toDevice, last, device, faults>>

\* The process dies: the row stays pending.
Crash ==
    /\ run # Idle
    /\ run' = Idle /\ attempts' = 0 /\ toHost' = <<>> /\ clean' = FALSE
    /\ UNCHANGED <<runs, toDevice, last, device, row, faults>>

-----------------------------------------------------------------------------
(* The device and the wire.                                                *)

Reply(q, code) ==
    toHost' = IF run # Idle /\ (q.run = runs \/ SerialLine)
              THEN Append(toHost, code) ELSE toHost

IsOpen == doc # NoDoc

\* Does the device refuse the command in its present state?
Forbidden(cmd) ==
    \/ cmd \in {"open", "openInvoice"} /\ IsOpen
    \/ cmd \in {"comment", "item", "pay", "full"} /\ (~IsOpen \/ (IsOpen /\ doc.paid))
    \/ cmd = "close" /\ (~IsOpen \/ (IsOpen /\ ~doc.paid))
    \/ cmd \in {"abort", "abortInvoice", "reset"} /\ (~IsOpen \/ (IsOpen /\ doc.paid))

\* The command is executed.
Execute(q) ==
    CASE q.cmd \in {"open", "openInvoice"} ->
            doc' = [of |-> q.of, lines |-> <<>>, paid |-> FALSE] /\ UNCHANGED printed
      [] q.cmd = "item" -> doc' = [doc EXCEPT !.lines = Append(@, q.of)] /\ UNCHANGED printed
      [] q.cmd = "pay" -> doc' = [doc EXCEPT !.paid = TRUE] /\ UNCHANGED printed
      [] q.cmd \in {"full", "close"} -> doc' = NoDoc /\ printed' = Append(printed, doc)
      [] q.cmd \in {"abort", "abortInvoice", "reset"} -> doc' = NoDoc /\ UNCHANGED printed
      [] OTHER -> UNCHANGED device

\* What the device may answer to a new request, and do.
Answer(q, code) ==
    \/ code = "ok" /\ ~Forbidden(q.cmd) /\ Execute(q)
    \/ code = "E404" /\ Forbidden(q.cmd) /\ UNCHANGED device
    \/ code = "error" /\ q.cmd \in {"item", "pay", "close"} /\ UNCHANGED device
    \/ code = "E401" /\ q.cmd = "openInvoice"   \* perhaps half opened
       /\ (UNCHANGED device \/ (~IsOpen /\ Execute(q)))

\* The device handles the next request, or repeats its answer to the request
\* it has just handled.
Handle ==
    /\ toDevice # <<>> /\ toDevice' = Tail(toDevice)
    /\ \E code \in Code :
        /\ Reply(Head(toDevice), code)
        /\ \/ last.to = Head(toDevice) /\ last.code = code /\ UNCHANGED <<last, doc, printed>>
           \/ /\ last.to # Head(toDevice) /\ Answer(Head(toDevice), code)
              /\ last' = [to |-> Head(toDevice), code |-> code]
    /\ UNCHANGED <<run, runs, attempts, row, clean, faults>>

\* A request is lost, or damaged and answered by a NAK.
LoseRequest ==
    /\ toDevice # <<>> /\ faults < MaxFaults /\ faults' = faults + 1
    /\ toDevice' = Tail(toDevice)
    /\ toHost' = toHost \/ Reply(Head(toDevice), "noise")
    /\ UNCHANGED <<run, runs, attempts, last, device, row, clean>>

\* An answer is lost or damaged.
LoseAnswer ==
    /\ toHost # <<>> /\ faults < MaxFaults /\ faults' = faults + 1
    /\ toHost' = Tail(toHost) \/ toHost' = <<"noise">> \o Tail(toHost)
    /\ UNCHANGED <<run, runs, attempts, toDevice, last, device, row, clean>>

-----------------------------------------------------------------------------
HostStep == Send \/ Timeout \/ Receive

Next ==
    \/ \E r \in Sale : StartSale(r)
    \/ \E i \in Invoice : StartInvoice(i)
    \/ \E s \in {"reset", "other"} : StartCommand(s)
    \/ HostStep \/ LinkBreaks \/ Crash
    \/ Handle \/ LoseRequest \/ LoseAnswer

Spec == Init /\ [][Next]_vars

-----------------------------------------------------------------------------
(* Properties.                                                             *)

Copies(r) == {k \in 1..Len(printed) : printed[k].of = r}

\* A receipt that goes through the journal is printed at most once, though
\* the host may take any answer for that of its close.
AtMostOnePrint == \A r \in Sale : \A j, k \in Copies(r) : j = k

\* A row that lets the next POST print belongs to a receipt that was not
\* printed: its close was never sent, and nobody else closes its document.
FailedMeansNotPrinted == \A r \in Sale : row[r] = "failed" => Copies(r) = {}

\* A document that an earlier run left open never receives the lines of
\* another sale: the first command of a connection is answered by its own
\* answer, so that an open refused by the device is refused for the route.
OneSaleADocument ==
    LET papers == {printed[k] : k \in 1..Len(printed)} \cup ({doc} \ {NoDoc})
    IN  \A p \in papers : \A k \in 1..Len(p.lines) : p.lines[k] = p.of

\* When a reset reports "aborted" or "nothing to abort", no receipt that can
\* be aborted is open, however late the requests of earlier runs arrived.
ResetMeansClean == clean => doc = NoDoc \/ doc.paid
=============================================================================
