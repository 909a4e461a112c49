# Odoo.ErpNet.FP — models and proofs

The program is a proxy between Odoo and the devices of a shop: fiscal printers,
pinpads, scales, readers, displays, cameras, access controllers. It is one
Python process with one asyncio event loop; the drivers block, so they run in
worker threads (`asyncio.to_thread`) or in threads of their own. This directory
holds TLA+ models of the parts whose order of events matters, the TLC
configurations that check them and the theorems TLAPS proves about them.

Paths below are relative to `src/odoo_erpnet_fp/`.

## Inventory

| Component | State | Operations | Interacts with | What is hard | What makes it correct | Module |
|---|---|---|---|---|---|---|
| Receipt journal (`server/receipt_journal.py`) | SQLite rows per (printer, kind, UNS); `_inflight`: events of running receipts; stage and slip of each run | `idempotent_print`, `put`, `pending`, `decide`, `prune`, `next_fallback_uns` | print routes, reconciliation, administrator | crash between two commands, lost answers, concurrent POSTs, stale snapshots | one fiscal receipt per sale; "failed" means not printed; a waiting till is answered | `ReceiptPrinting`, `OnceOnly` |
| Print routes (`server/routes/printers.py`) | the open document of a run, the flag `opened` | receipt, reversal, invoice, reset, reconcile, resolve | journal, registry lock, device | partial failure, cancel that fails, refused open | a run touches only its own document | `ReceiptPrinting`, `IcpReceipt` |
| Other printer routes (`server/routes/printers.py`, `iot_compat.py`) | the lock's waiters, the cache of device information | Z report, VAT rates, PLU table, single commands, status, information | registry, device | two tills at once, a command lost in the middle of a table, a give-up | totals are those of the report; a table is whole | `PrinterRoutes` |
| Printer registry (`server/service.py`) | one `asyncio.Lock` and caches per printer | `with_driver`, `with_pm`, reload | every route | cancelled coroutine with a live thread | one conversation with a device at a time | in the three above |
| PM device (`drivers/fiscal/datecs_pm/transport_virtual.py` is the program's own model of it) | open document, number of the last document, journal | commands 0x2B–0x4C | PM link | documents left open, numbers of cancelled documents reused | prints what is paid in full, once | `FiscalDevice` |
| PM link (`pm_v2_11_4.py`, `frame.py`) | next SEQ, bytes in flight | `_exchange` | transport | retry, late answers, SEQ wrap, new session at 0x20 | at most one execution per exchange; an answer belongs to its command | `PmLink`, `CommandOnce` |
| ICP drivers (`drivers/fiscal/datecs_icp/`) | one frame in flight | `_icp_request`, receipts, invoices | transport, journal | no sequence number in the answer | documents do not mix, none is printed twice | `IcpReceipt` |
| Pinpad (`drivers/pinpad/`, `routes/pinpads.py`) | session, transaction in progress, cancel flag | pay, void, cancel | POS, terminal | cancel from another thread, answer after a timeout | ok means charged; "refused", by the pinpad or by the bank, means not charged | `Pinpad` |
| IoT sessions (`routes/iot_compat.py`), event buses (`reader_bus`, `camera_bus`, `gps_bus`), readers (`drivers/readers/`, `reader_autodetect.py`) | waiters, one buffered event per identifier; bounded queues; threads and half-read lines | `push`, `wait`, publish, subscribe, hot plug, reset | browsers, threads, udev | push at the moment of a timeout, full queues, a cable pulled in mid scan | a scan is one barcode, in order, and reaches its listeners | `Scans` |
| Fleet client (`server/registry.py`) and hot reload (`service.py`, `config/loader.py`) | pairing secret, outstanding commands, fragments in `config.d/`, registries | heartbeat, execute, acknowledge, enrol, reload | Odoo registry, every device registry | result lost, re-enrolment, a section that cannot start | "applied" is what runs and what a restart loads | `Fleet` |
| Europlacer producer (`drivers/europlacer/producer.py`) | queue of orders, outcomes, a shared folder | submit, produce, stop, start, reload | threads, the machine, Odoo | stop with queued orders, resubmission, late answers | an order's outcome is its own | `Europlacer` |
| Fallback UNS, watchdog and metrics, scale polling, customer displays, database sources, CFX/AMQP, shift bridge, access decisions, codecs, adapters, schemas, scale parsers, biometric, KEP, static pages | see "Not modelled" | | | | | — |

`PROJECT.json` lists every component with its status, and the hazards with the
source line where each one bites.

How the modules fit together: `ReceiptPrinting` is built on `FiscalDevice` and
implements `OnceOnly`; `PmLink` implements `CommandOnce`, which is what the
receipt path and the routes assume of a command; `IcpReceipt` has the link, the
device and the journal of the ICP family in one module, since there the
link's weakness reaches the documents, and implements `OnceOnly` too where no
late answer reaches the next connection (proved, without a run of its own);
`PrinterRoutes` has the lock and the device in steps of whole commands; `Fleet` composes the fleet client with the
registries it reloads; `Scans` composes drivers, registration, buses and
long polls; `Pinpad` and `Europlacer` each compose route, registry and driver.

## The receipt path on PM printers

A till POSTs a receipt with its unique sale number (UNS). The proxy writes a
row `pending`, takes the printer's lock, opens a document, registers the items,
pays, closes. A failure before the payment leaves the row `failed` (another
POST may print), a failure from the payment on leaves it `pending` (nobody
prints until it is resolved). An interrupted receipt is resolved by comparing
the number its document was opened with against the device's last number, or
by an administrator.

| Module | What it is |
|---|---|
| `FiscalDevice` | The device, as operators: a command maps a state of the device to the set of its possible outcomes (new state and answer, "none" for a lost answer). Translated from the virtual device the program carries, seen through `PmDevice._exchange`. |
| `ReceiptPrinting` | The journal, the runs of receipts, the lock, reconciliation, resolution, reset, shutdown, restart. |
| `OnceOnly` | The abstract promise: a receipt is printed only while its verdict is "unknown", and only an unprinted receipt gets the verdict "may print". |
| `MCReceiptPrinting` | Symmetry for TLC. |
| `ReceiptPrintingProofs` | The theorems. |

| Model | Code |
|---|---|
| `dev` | `VirtualPmState`: `open` (its UNS and how far it is paid), `slip_no` = `Len(printed)`, `journal` |
| `row[k]` | the row of the receipt: `state`, `stage`, `slip` (0 is NULL) |
| `inflight[k]` | `journal._inflight`; the event is the request that runs |
| `lock` | `PrinterEntry.lock` |
| `pc`, `key`, `stage`, `slip`, `waits`, `reply` | the coroutine of each POST: where it stands, `holder["stage"]`, `holder["slip"]`, the event it awaits, its answer |
| `todo` | rows that reconciliations have read with `pending()` and not decided yet |
| `Post`, `Wake`, `ByRow`, `Start`, `Refuse` | `idempotent_print` up to the first await of `run()` |
| `AcquireLock` … `ReportPrinted` | `_print_receipt_impl`, one action per await |
| `Succeed`, `Fail`, `EndRun` | the rest of `idempotent_print`, with its `finally` |
| `BeginReconcile`, `ReconcileRow`, `Decision` | `reconcile_pending`, `decide` |
| `ResolveReceipt`, `ResetPrinter` | the routes of those names |
| `BeginShutdown`, `CancelTask` | the server shuts down and cancels its tasks: `except BaseException` |
| `Restart` | the process ends, at any moment, and starts again: `_lifespan`, `_reconcile_at_start` |
| `ClearByHand` (external) | somebody finishes or voids an open document on the device's keyboard |

One action is what a coroutine does between two awaits. A command runs in a
worker thread while the coroutine waits and the lock is held, so the command
and the coroutine's reaction to its answer are one action; other coroutines
interleave before it and after it. Several line commands are one action,
because a line changes nothing the properties speak of. Payments repeat.

Abstractions and assumptions:

* A receipt key stands for (printer, kind, UNS); there is one printer, since
  nothing but the journal's table is shared between printers. `Plain` stands
  for every document without a UNS: it moves the device's numbers on.
* An exchange is executed or not, answered or not. A command is not executed
  after the host has given up on it and sent another one. (`PmLink` shows
  what may happen on the wire.)
* The device survives the restarts of the proxy.
* Waiters that an event has woken run in the next turn of the event loop,
  before a coroutine that still has to hear from a worker thread (`LoopIdle`).
  A POST may come in between: its handler may be ready in the same turn.
* The administrator who resolves a receipt has looked at the device and tells
  the truth, and does so when the receipt's document is not open.
* When the server shuts down every task is cancelled; a worker thread finishes
  the command it is executing and nothing follows it.
* A run that is refused before its first await (`Refuse`) writes `pending` and
  `failed` in one step; nobody can see the first of them.
* `prune` (rows older than 90 days) and the in-memory journal are left out.

The constants `ReconcileInFlight` and `ResolveInFlight` say whether a row may
be decided while its receipt is being printed. The code does not prevent it.
With both FALSE (`Quiet` in the proofs) the receipt path is right; the run
`receipts_reconcile_in_flight` shows that without it a crash can print a receipt twice.

## The PM link

`PmLink`: a call of `_exchange` writes its request up to `Retries` times; the
wire loses or damages requests and answers in either direction and delivers
them late; the device repeats its last answer to a repeated SEQ and command.
A driver is made for each use of the printer and counts SEQ from its start
again; the status route abandons a call after 8 s and closes the connection
under the worker thread.

| Model | Code |
|---|---|
| `session`, `open` | the TCP connection of the driver `make_driver` made |
| `calls`, `attempts` | the calls of `_exchange` and the retry loop of the current one |
| `toDevice`, `toHost` | frames in flight; those sent to a closed connection are lost |
| `last`, `executed` | what the virtual device keeps to recognise a repeated request; what it has executed |
| `Send`, `NextAttempt`, `Timeout`, `Receive`, `Matches` | `_exchange`, `read_until`, `parse_response` |
| `Abandon` | `wait_for(…, 8)` of `/status` and the cancelled `with_pm` |
| `Handle`, `LoseRequest`, `LoseAnswer` | the device and the wire |

Assumed: requests reach the device in the order they were written, of which
the device reads every one that is not lost before it reads one of a later
connection; and a user of a connection stops after `MaxFailures` failed calls in
a row, fewer than it takes the sequence numbers to come round. Without the last
one the answer of a call could be taken for that of the call 224 numbers later.
The routes stop at the first failed call, or after the cancel that follows it.
The exception is a PLU table, whose loop goes on after an item that failed: 224
items that fail in a row, minutes without one answer, are outside of the model.

## Receipts on ICP printers

`IcpReceipt` has the routes command by command (`StartSale`, `StartInvoice`,
`StartCommand`, `Advance`), the link (`Send`, `TryAgain`, `Timeout`, `Receive`)
and a device taken from what the routes expect of it (external). The answer of
an ICP device is accepted without looking at its SEQ and CMD, and exhausted
retries are an answer (E101), not an exception. What is claimed is therefore
what can hold: documents do not mix, a receipt is printed at most once, a
receipt that may be printed again was not printed, and a reset that reports a
clean device is right. That `ok=true` means "printed" is not claimed: the
answer to the payment that arrives after the close was sent is taken for the
answer to the close.

`SerialLine` says whether a late answer reaches the next connection. On TCP it
does not, and the run sets it FALSE. On a serial line it can: an answer that
comes at any time after its command was given up stays in the line's buffer, or
arrives after the next open, until the next use of the printer reads it. A
refused open may then look accepted; what is claimed of ICP printers depends on
this, and `OnlyAnotherSaleClosesIt` says what is left of it on such a line.

## The other routes of a printer

`PrinterRoutes`: eleven kinds of request, a fair queue for the lock
(`Enter`, `Acquire`), one step per command (`Command(outcome)`: done, refused
or lost, where a lost one may have been executed), the give-ups of `/status` and
`/iot` (`GiveUp`), a restart that keeps only the device and the cache file.
`Post`, `Enter` and the answer without the lock are one action because nothing
is awaited between them. A receipt is one step here.

## Card payments

| Model | Code |
|---|---|
| `job`, `session`, `active` | the lock of `PinpadEntry`, the facade of its holder, `active_pinpad` |
| `bank` | the terminal's transaction (external: START, the customer, the bank, END) |
| `cancelled`, `cancels`, `asked` | the flag the loop polls; `/cancel` requests that have read the facade; those that have ever read it |
| `charged`, `voided`, `told`, `voids` | the bank's book and the till's answers |
| `StartRefused`, `EnterLoop`, `Complete`, `LoopGivesUp` | the event loop of `_native.py` / `facade.py`: a START the pinpad refuses, entry, a completion with its receipt tags (perhaps lost), a loop that gives up |
| `ErrorOf` | the facade's names of a code that is not 0: timeout (9), cancel (18), no host (50), `refused_N` for other positive codes, `error_N` for negative ones |
| `ReadActive`, `CallCancel` | the two halves of `/cancel`, between which the transaction may end |

Both drivers are in it (`virtual`); the virtual pinpads share one event, so
that a cancellation may reach the next payment: `CancelOnlyItsOwn` is claimed
for the real ones.

`RefusedIsNotCharged` is about every answer that a till may read as "the card
was not charged": the refusal of a START (`refused_N`), the bank's refusal in the
receipt tags, and a pinpad that could not be opened. On a real pinpad the loop may
give up after the bank has approved; the property then requires that the code
is told as what it is (timeout, cancellation, no host, library error) and not
as a refusal, which the sign of the code alone would make of three of them. On the
virtual pinpad, which decides by itself, nothing but ok may be told of a charged
payment. One assumption about the native library, which is not in
the repository, is the facade's own (`facade.py:232-239`): a positive code
other than those three is the status of a refused START (`StartStatus`), and
a transaction that has started never returns one (`GivesUp`).

## Orders to a Europlacer machine

A job is one accepted submission; it goes from the queue to `attempt` (its file
is written) and `wait` (its answer is awaited), and ends in an outcome, or
`gone` when a stop dropped it or its process ended. `Take`, `Attempt`, `Wait` are
the worker; `Submit`, `StartOne`, `StopOne`, `Reload`, `Restart` the routes and
the registry; `Process` the machine (external), which reads files when it
likes, writes an answer in parts, and answers "existing" to an order it has
carried out. `Name` is the base name of a file: a token per submission and a
suffix per attempt, so that an answer cannot be another's.

## Scans, plates and fixes

`Scans` follows one event from a device to its listeners: the thread of the
reader (`ScanBegins`, `ScanEnds`, `ReadFails`, `Reopen`, `ForcedReopen`,
`LineDrops`, `Reset`), udev (`Unplug`, `PlugIn`, `HandleRemove`, `HandleAdd`), the
bus (`Publish`, `Takers`, `FanOut`), streams (`Subscribe`, `Send`,
`Unsubscribe`) and long polls (`Poll`, `Push`, `Answer`, `Expire`). A device is a
serial or TCP reader, one found by udev, a HID reader, an external reader, a
camera or a tracker; the kind is chosen in `Init`. `half` and `buf` keep how much of
which scan is in the line buffer. `due` and `full` are observations: what a
stream should be sent, and whether its own queue ever dropped an event.
`_waiters`, `_pending` and `payload_holder` are `waiters`, `pending` and `held`.

## The fleet client and the hot reload

The server grants secrets, forgets the proxy and answers a heartbeat with any
batch of commands (external). `push_config` writes a fragment into `config.d/`,
loads the whole configuration and rebuilds the registry of the pushed family
as a whole, or the MQTT brokers one by one.

| Model | Code |
|---|---|
| `proc`, `boots`, `disk`, `config` | the process, the fragments, `app.state.config` |
| `family`, `devices` | the device family that this proxy has and its registry; `Registry` is a row per family: which lists its `from_config` refuses, whether a reload stops the old one first and waits in between, whether a device is opened on demand |
| `specs`, `ingests`, `byHand` | `MqttIngestRegistry`; brokers switched over HTTP |
| `loop`, `batch`, `answer`, `issued` | `fleet_loop` and the commands it is executing |
| `secret`, `stored`, `known`, `granted` | the secret in memory, in its file, at the server |
| `Boot`, `CreateApp`, `Lifespan`, `Crash` | `create_app`, `_lifespan`; the end of the process at any moment |
| `LoadSecret`, `FirstEnrol`, `Reenrol`, `BeatOk`, `BeatGone`, `PostResult` | `fleet_loop` and the functions it calls |
| `PushUnloadable`, `PushDevices`, `ReloadDevices`, `PushMqtt` | `push_config` with its validation, its write and `reload_section` |
| `StartOne`, `StopOne`, `Use` | the MQTT routes; a request that opens a device |

`Forget` takes the server's record away at any moment. Commands other than
`push_config` (`ExecuteOther`) have a result and no effect on what is modelled.

## Runs

| Run | Instance | Checks | Shows |
|---|---|---|---|
| `receipts` | 3 POSTs, 1 receipt and plain documents, 1 restart | `TypeOK`, `AtMostOnePrint`, `FailedMeansNotPrinted`, `OkMeansPrinted`, `OwnDocument`, `RefinesOnceOnly`, `EveryPostAnswered` | one print per receipt through a crash or shutdown at any point, with retries, reconciliation, resolution and reset; every POST is answered unless its process ends |
| `receipts_reconcile_done` | the same, no fairness | `DoneMeansPrinted` violated | a receipt whose document was cancelled is declared printed because the next document took its number |
| `receipts_reconcile_in_flight` | the same, rows decided in flight | `AtMostOnePrint` violated | a reconciliation in flight and a crash print a receipt twice |
| `pm_link` | 1 command code, 3 sequence numbers, 3 attempts, 4 calls, 2 connections | `TypeOK`, `StaleAnswersAreSkipped`, `RefinesCommandOnce`, `EveryCallEnds` | no command is executed twice or answered by another's answer; late answers do not make the link fail for ever |
| `icp_receipt` | 1 receipt, 1 invoice, 2 attempts, 3 runs, 1 fault, TCP | `TypeOK`, `AtMostOnePrint`, `FailedMeansNotPrinted`, `OneSaleADocument`, `ResetMeansClean` | what holds without sequence numbers in the answers |
| `printer_routes` | all 11 routes, 3 requests, 2 items, 1 fault, 1 restart | `TypeOK`, `TotalsAreTheReports`, `TablesAreOnesOwn`, `EveryRequestAnswered` | totals of a Z report, whole tables, answers |
| `printer_routes_serial` | status, information, receipt | `InfoHasTheSerial` violated | an unread serial number is cached for good |
| `pinpad` | 2 purchases, 3 uses | `TypeOK`, `OkIsTheBanks`, `RefusedIsNotCharged`, `CancelOnlyItsOwn`, `EveryRequestEnds` | what the till is told against the bank's book |
| `fleet` | 4 families, 1 broker, 3 secrets, 3 commands in batches of 2, 2 starts | `TypeOK`, `AppliedRuns`, `BrokersAsConfigured`, `KeepsItsIdentity`, `ForgottenComesBack` | pushes, restarts and re-enrolments in any order |
| `europlacer` | 2 orders, 2 submissions, 2 producers of 1 worker, 2 attempts, an archive | `TypeOK`, `SuccessIsApplied`, `OneProducer`, `ExistingIsNotRefused`, `EveryOrderEnds` | outcomes, stop, start, reload, resubmission |
| `scans` | 1 device of any kind, 2 streams, 1 client, 2 scans, 2 hot-plug events, queues of 1 | `TypeOK`, `OneScanOneBarcode`, `StreamsAreComplete`, `AnswersMoveForward`, `ReaderComesBack` | from the cable to the browser |
| `scans_gap` | 3 scans, no stream | `GapIsBuffered` violated | see below |

Why the bounds are enough. Three POSTs are a first attempt, a waiter, and a
third request between them or after a restart; plain documents take the number
of a cancelled one. A receipt that finds another's document open is not in the
run and is covered by the theorems, which hold for any number of receipts.
One restart suffices because a restart leaves
nothing behind but rows, the device and a snapshot of the rows. Three sequence
numbers and four calls let the numbers come round; two connections let an
answer and a repetition arrive in the wrong one. Three ICP runs are one
that leaves a document open, one that finds it, and one that repeats the first. Three uses of a pinpad are a
payment, its repetition and a void, each with a cancellation that
comes late. Three commands in batches of two let a push follow a failed one, in
the same batch and in another, before and after a restart; `biometric` has
the same row in `Registry` as `access` and is not in the run's `Family`. Two
orders with two
submissions include one order submitted twice; with one worker a producer's
second job queues behind the first, while the worker of a stopped producer and
that of its successor work side by side; two workers of one producer are
covered by the theorems. A move to the archive may fail, so the run includes the
stations without one. Queues of length 1 are full after one scan.

In all runs but those of the receipt path `CHECK_DEADLOCK FALSE` is set: they
stop when their bounds on requests, scans or starts are used up and nothing is
left to do. The receipt runs never stop, since reconciliation and the reset button
are always possible.

### Fairness

* Receipts: weak fairness of `Wake`, of the steps of a run and of a restart
  that follows a shutdown. The event loop runs what is ready, a worker
  thread's command ends (`_exchange` makes three attempts within a deadline),
  the lock is first come, first served. A step that leaves the state as it is
  does not count as progress, so a run cannot pay for ever.
* PM link: weak fairness of `Timeout ∨ Receive`: a read ends with bytes or by
  its timeout. Nothing is asked of the device or of the wire.
* Printer routes: weak fairness of `Acquire` and of the holder's next step.
* Pinpad: weak fairness of the worker thread (it enters the loop, if
  the start was not refused, and the loop ends); for the virtual
  pinpad, which decides after a delay by itself, also of its decision. Nothing
  is asked of the customer, the bank or `/cancel`.
* Fleet: weak fairness of the process being started (systemd), of the loop's
  task and of a heartbeat that meets a server which forgot the proxy; strong
  fairness of an enrolment that the server grants, since attempts it refuses
  come in between (the loop retries at each heartbeat for ever).
* Europlacer: weak fairness of each job's worker. Nothing is asked of the
  machine.
* Scans: weak fairness of each device's thread and of the end of a poll.

## What is proved

All theorems are for any values of the constants that satisfy the modules'
assumptions. Every safety property of a passing run is one of them, and for
each finding but the second a theorem says what the code does guarantee in its
place: the only step that can make the property fail.

### Receipts on PM printers

`ReceiptPrintingProofs`, for any sets of receipts and requests and any number
of restarts. `TypeCorrect` is `Spec => []TypeOK`. The rest is in two parts,
because what the journal promises depends on nobody deciding a row in flight,
and what the runs promise does not.

With `Quiet`: `InvariantHolds` (`Spec => []IInv`), and from it
`OnePrintPerReceipt`, `FailedIsNotPrinted` and `ReceiptPathRefinesOnceOnly`
(the refinement). The inductive invariant:

* `Ownership`: a run of a receipt owns its entry of `_inflight` and its row is
  pending, so two runs never print the same receipt;
* `LockHeld`: at most one run talks to the device;
* `BeforeOpening`, `WhileOpen`: before it opens a document, a run's receipt is
  not printed and nothing of it can be; from then on the open document is its
  own, and its stage says how far it is paid. These two make the stage decide
  rightly between `failed` and `pending`;
* `OpenDocument`: the open document is not printed yet and not taken for
  printed, so that finishing it by hand prints it for the first time;
* `SlipBound`, `SlipsRecorded`: a recorded slip is at most the next number of
  the device, and at most the last one once the receipt is printed. This makes
  `decide` right when it says `failed`, and says nothing about `done`, which is
  where it is wrong.

What the device may do during a run, and under no run, is factored out
(`DeviceKeeps`).

Without `Quiet`, whatever is decided and whenever: `RunsInvariant`
(`Spec => []RunInv`). Two runs of one receipt may then exist, so `Ownership` is
lost; `RunInv` keeps what follows from the lock and from the events alone.
`WhileOpen` is about the run that holds the lock, whoever else is queued;
`Events` says that a waiting POST waits for a run of its own receipt that has
still to set its event, although the entry of `_inflight` may name another run
by now; `PrintedOrReconciled` that a `done` row of an unprinted receipt has the
stage "reconciled". From it:

* `OkIsPrinted`, `RunsOwnTheirDocument` (an action property): `ok=true` and
  the open document do not depend on what happens to the rows;
* `WaitersHaveARun`: no wake-up is lost, the safety half of
  `EveryPostAnswered`;
* `DoneIsPrintedOrReconciled`, `OnlyTheNumberMisleads`: of finding 1, that
  neither a run nor an administrator ever writes a wrong `done`, and that
  `decide` writes one only when another document has the number that the
  receipt's was opened with.

### The PM link

`PmLinkProofs`, for any commands, attempts, calls, connections and length of
the sequence numbers, as long as a user gives up before the numbers come round
without an answer (`LinkAssumption`): `LinkInvariant`, `LinkTypeCorrect`,
`LinkRefinesCommandOnce` (the refinement of `CommandOnce`), `CommandsInTurn`
(what it amounts to). `Numbered` and `Streaks` say that two calls of a
connection have the same number only if some call between them did not fail;
`Requests`, `Replies` and `Executions` that requests, answers and executions
each keep the order of the calls; `Returned` that once a call has returned, no
answer of a call before it is still to be read. Together: an answer that matches
the current call is its own (`MatchesItsOwn`), and a request the device takes
for a repetition is one (`RepeatsItself`). These are the two comparisons of
`SEQ` and `CMD`, the proxy's and the device's; neither would be enough if the
numbers could repeat while an older answer is on its way.

`LinkSkipsStaleAnswers` needs more, since it counts. A call that failed leaves
up to `Retries` answers on their way and the next one reads one of them with
each attempt. `Owed` says that from the first request or answer of the waiting
call on, no more is on its way than the attempts the call has made; `Drained`
that a call that returned leaves less on its way than a call has attempts;
`Spared` that a clean call which follows no failed one has an attempt left for
each late answer. So a call that was answered at every attempt can be used up by late
answers only when the call before it failed too.

### Receipts on ICP printers

`IcpReceiptProofs`, for any receipts and invoices, retries, buffer of the
device, runs and faults. Assuming `~SerialLine`: `IcpInvariant`,
`PrintedOnce`, `FailedNotPrinted`, `DocumentsDoNotMix`, `ResetIsRight`, and
`IcpRefinesOnceOnly`: the family implements the same abstract promise as the PM
receipt path (its `done` is mapped to "unknown", since the answer behind it may
have been another command's). Answers are not matched to commands, so the
invariant cannot say that an answer is the command's own; it says what any
answer is worth. The requests reach the device in the order of the runs
(`Queued`). An `ok` heard by a run that has not opened yet comes from its open or
from its abort, and either leaves the device with the run's own document or none
(`Believed`, `Settled`); from then on every command of the run finds that
(`Opened`), whatever else the host believes. `Rows` and `NotReopened` say that
once a close has been sent its receipt is never opened again: the stage was
marked before it was sent.

On any line, a serial one too: `IcpTypeCorrect`, and `OnlyAnotherSaleClosesIt`.
With `SerialLine` the four properties are false (TLC finds it at once: an
open that the device refused is taken for accepted, and the lines go to the
document left open). What is left is what the host does by itself (`HostInv`): a
close is on its way only for a row that forbids another run (`ClosesForbid`).
So a receipt that may be printed again came out only by the close of another sale.

### The other components

`PrinterRoutesProofs`, for any requests of any routes, tables of any length,
faults and restarts: `RoutesInvariant`, `RoutesTypeCorrect`,
`TotalsAreReported`, `TablesStayOnesOwn` (an action property). `Sales` says
that a sale is in one report or in the running day, and belongs to a receipt
that neither waits nor has yet to send its command; `Reports` that what was
told of a report is that report and was told to one request; `Programmed` that
the device has what the holder of the lock has programmed so far, which is what
the answer relies on when the last item is done. `HolderEnds` and
`HolderGoesOn` say once what the end of a route and its next command keep; each
route then only shows what it may answer. Of finding 4: `NoFaultNoMissingSerial`
(an empty serial number needs a fault) and `OnlyTheCacheMissesTheSerial` (when
nothing fails during a request, only an empty reading in the cache does it).

`PinpadProofs`, for any purchases and uses: `PinpadInvariant`,
`PinpadTypeCorrect`, `PaidIsCharged`, `RefusedWasNotCharged`,
`CancelReachesItsOwn`. `GivingUpIsNoVerdict` and `StartStatusIsNamed` say what
`ErrorOf` makes of the codes before and after the start; a refused start finds
the bank still waiting (`JobIsWhole`). The invariant ties the transaction in progress to the
bank's book: `JobIsWhole` (the holder of the lock names its purchase and owns
the last facade), `ChargedOnce` (a charged purchase was answered, or is the one
that runs and the bank has approved it), `VoidedOnce` (a void that the bank has
approved is the first of its purchase), `CancelWasAsked` (the flag of a native
facade was set by a cancellation that read it).

`EuroplacerProofs`, for any orders, submissions, attempts, workers and
producers: `StationInvariant`, `StationTypeCorrect`, `SuccessWasApplied`,
`OneProducerServes`, `ExistingIsNeverRefused`. `FilesAreOwn` says that a file
holds the order of the job it is named after, `AnswersAreTrue` that an answer
which becomes a success belongs to an order the machine has carried out;
`ProducerIsOne` that a queued job is of the station's producer and a running one
too, unless its producer is stopping, and that this producer has been started.
`ExistingIsNotRefused` is about a job from some moment on, so its proof is an
invariant for the time after it: `QueuedIsFresh` (the machine has answered
nothing to a job that no worker has taken) and `Known` (the job's order is
applied, the job is not refused, and none of its answers refuses it).

`FleetProofs`, for any brokers, batches and starts and each family:
`FleetInvariant`, `FleetTypeCorrect`, `AppliedIsRunning`,
`BrokersRunAsConfigured`, `IdentityIsKept`. `LoopIsAt` says what holds at each
place of the loop, between writing a fragment and rebuilding its registry above
all; `DevicesApplied` adds to the promise of "applied" that the file on disk can
be loaded and its list accepted, without which a restart would break it.

`ScansProofs`, for any devices, scans, streams and sessions: `ScansInvariant`,
`ScansTypeCorrect`, `BarcodeIsOneScan`, `StreamsMissNothing`,
`AnswersGoForward`, `PollsMissNothing`. `Lines` says that the line buffer of a
device holds at most the first part of the scan that is being read; `Whole` and
`InOrder` that each event on its way to the bus is one scan, in the order of the
device's scans; `Later` that what a session was told, holds or has buffered of a
device is older than whatever is still to be published; `Waits` that nothing is
buffered for a device somebody waits for. Scans only need to be numbered: no
bound on them, on the queues or on the sessions is used. Of finding 3:
`OnlyCancelledWaitsSwallow` (a scan that nobody waits for is buffered, unless
nothing but a cancelled waiter is there).

### Only model-checked

* Liveness under fairness and `ENABLED` (out of the prover's reach):
  `EveryPostAnswered`, `EveryCallEnds`, `EveryRequestAnswered`,
  `EveryRequestEnds`, `ForgottenComesBack`, `EveryOrderEnds`, `ReaderComesBack`.
* The counterexamples of the findings.

## What the code does and its documentation does not say

1. `decide` may declare a receipt printed that is not
   (`receipts_reconcile_done`): the number its document was opened with was
   given to the next document.
2. A reconciliation may decide a receipt in flight, from the slip of an earlier
   attempt; a crash then lets it print twice (`receipts_reconcile_in_flight`).
3. A long poll that was answered for one device leaves the cancelled waiters
   of its other devices behind: the next scan of one of them goes to nobody and
   is not buffered (`scans_gap`).
4. A serial number that could not be read once is cached, and written to disk,
   as an empty one; the device is not asked again (`printer_routes_serial`).

## Not modelled

* **Fallback unique sale numbers**: one counter drawn in one transaction; its
  hazards (the end of its range, a lost table) are single formulas.
* **`prune` and the in-memory journal**: rows older than 90 days; a degraded
  mode that the code announces as such.
* **Sticky status bits of some ICP models, the layout of vendors' commands,
  late answers on a serial line**: facts about hardware that the source only
  hints at.
* **Watchdog, metrics**: one task that scans a table and counts.
* **Scale polling, customer displays**: the last value wins; each under a
  lock of its own.
* **Database sources**: which rows are read and what is marked as stored is
  kept in the foreign database and in Odoo; the proxy has no state between two
  rounds.
* **CFX and AMQP, shift bridge**: sessions inside the AMQP library, or one
  connection each. Only the reload of a pushed `cfx` section is in `Fleet`.
* **A pinpad closed during `/cancel`**: `request_cancel` checks the device and then
  calls the library with it; that the device is destroyed in between is
  outside of the model (`Reaches` is one look).
* **Access decisions, biometric terminals, snapshots and recognition**: one
  request each, over HTTP clients.
* **Codecs, error tables, adapters, schemas, scale parsers, static pages**:
  pure conversions, the subject of the repository's unit tests.
* **Serial and agent transports**: byte pipes with the interface of the TCP
  one.
* **Hot reload of displays and printers**: a push may not carry those sections.

Worth doing next: two devices in `Scans`, and a module for the database sources
with the foreign table in it.
