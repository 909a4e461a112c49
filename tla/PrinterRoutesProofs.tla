-------------------------- MODULE PrinterRoutesProofs --------------------------
(***************************************************************************)
(* Theorems about PrinterRoutes, for any number of requests of any routes, *)
(* any tables, and any faults and restarts: the totals, the sales and the  *)
(* tables a till is told are those of the device, and so is the serial     *)
(* number, unless an empty reading is cached.                              *)
(***************************************************************************)
EXTENDS PrinterRoutes, SequenceTheorems, TLAPS

-----------------------------------------------------------------------------
(* The inductive invariant.                                                *)

Device == [turnover : SUBSET Request, reports : Seq(SUBSET Request),
           open : BOOLEAN, rates : Request \cup {NoOne},
           plu : [1..Items -> Request \cup {NoOne}]]
Given == [ok : BOOLEAN, no : Nat, totals : SUBSET Request,
          table : Request \cup {NoOne}, serial : Knowledge]

\* A request is answered once, with an answer of its own.
Answering ==
    /\ told \in [Request -> {<<>>} \cup Seq(Given)]
    /\ \A r \in Request : told[r] # <<>> => r \in DOMAIN kind /\ Len(told[r]) = 1

\* The commands of a route.
StepsOf(k) ==
    CASE k \in {"zreport", "iot"} -> {"report"}
      [] k = "rates" -> {"read"}
      [] k = "vat" -> {"program", "read"}
      [] k = "plu" -> {"item"}
      [] k = "reset" -> {"cancel"}
      [] k = "status" -> {"status", "detect"}
      [] k = "info" -> {"detect"}
      [] k = "receipt" -> {"sell", "detect"}
      [] k = "simple" -> {"one"}
      [] OTHER -> {}

\* The holder of the lock is at a command of its own route.
Holding ==
    run.of # NoOne =>
        /\ run.of \in DOMAIN kind /\ kind[run.of] \in Kind
        /\ run.step = "open" \/ run.step \in StepsOf(kind[run.of])
        /\ run.step # "item" => run.item = 1 /\ run.errors = {}

\* Nobody waits who was dropped.
Queued == \A n \in DOMAIN queue : queue[n] \in DOMAIN kind /\ kind[queue[n]] \in Kind

Sold(d, r) == r \in d.turnover \/ \E n \in 1..Len(d.reports) : r \in d.reports[n]

\* A sale is in one report or in the running day.
Day(d) ==
    \A r \in Request : \A n \in 1..Len(d.reports) :
        r \in d.reports[n] =>
            /\ r \notin d.turnover
            /\ \A m \in 1..Len(d.reports) : r \in d.reports[m] => m = n

\* A receipt is sold by its own command only, and before it is answered ok.
Sales ==
    /\ Day(device)
    /\ \A r \in Request : Sold(device, r) =>
          /\ r \in DOMAIN kind /\ kind[r] \in {"receipt", "dropped"}
          /\ r \notin ToSet(queue)
          /\ r = run.of => run.step \notin {"open", "sell"}
    /\ \A r \in Request : Answered(r, "receipt") /\ Answer(r).ok => Sold(device, r)
    /\ run.of # NoOne /\ kind[run.of] = "receipt" /\ run.step = "detect" =>
          Sold(device, run.of)

\* What was told of a report is that report, and told to one request.
Reports ==
    \A r \in Request : Answered(r, "zreport") /\ Answer(r).no > 0 =>
        /\ Answer(r).no <= Len(device.reports)
        /\ Answer(r).totals = device.reports[Answer(r).no]
        /\ \A s \in Request :
             Answered(s, "zreport") /\ Answer(s).no = Answer(r).no => r = s

\* What the holder has programmed so far is what the device has.
Programmed ==
    run.of # NoOne =>
        /\ kind[run.of] = "vat" /\ run.step = "read" => device.rates = run.of
        /\ driver = "pm" /\ run.step = "item" /\ run.errors = {} =>
              \A i \in 1..Items : i < run.item => device.plu[i] = run.of

IInv == /\ TypeOK /\ Answering /\ Holding /\ Queued
        /\ Sales /\ Reports /\ Programmed

LEMMA RoutesTypes ==
    ASSUME IInv
    PROVE  /\ MaxRequests \in Nat /\ Items \in Nat \ {0} /\ NoOne \notin Request /\ NoOne = 0
           /\ Kind \subseteq Route /\ "dropped" \notin Kind
           /\ kind \in Seq(Kind \cup {"dropped"})
           /\ Len(kind) \in Nat /\ Len(kind) <= MaxRequests /\ DOMAIN kind = 1..Len(kind)
           /\ \A r \in DOMAIN kind : r \in Request /\ kind[r] \in Kind \cup {"dropped"}
           /\ queue \in Seq(Request) /\ Len(queue) \in Nat /\ DOMAIN queue = 1..Len(queue)
           /\ \A n \in DOMAIN queue : queue[n] \in Request /\ queue[n] \in ToSet(queue)
           /\ device \in Device /\ Len(device.reports) \in Nat
           /\ \A n \in 1..Len(device.reports) : device.reports[n] \in SUBSET Request
           /\ run.of \in Request \cup {NoOne} /\ run.item \in 1..Items /\ run.errors \in SUBSET (1..Items)
           /\ \A r \in Request : told[r] # <<>> => told[r][1] \in Given
           /\ cache \in Knowledge /\ kept \in Knowledge
<1>1. /\ MaxRequests \in Nat /\ Items \in Nat \ {0} /\ NoOne \notin Request /\ NoOne = 0
      /\ Kind \subseteq Route /\ "dropped" \notin Kind
  BY RoutesAssumption DEF NoOne, Request, Route
<1>2. /\ kind \in Seq(Kind \cup {"dropped"}) /\ Len(kind) <= MaxRequests
      /\ queue \in Seq(Request) /\ device \in Device
      /\ run.of \in Request \cup {NoOne} /\ run.item \in 1..Items /\ run.errors \in SUBSET (1..Items)
      /\ cache \in Knowledge /\ kept \in Knowledge
  BY DEF IInv, TypeOK, Device
<1>3. /\ Len(kind) \in Nat /\ DOMAIN kind = 1..Len(kind)
      /\ \A r \in 1..Len(kind) : kind[r] \in Kind \cup {"dropped"}
  BY <1>2, LenProperties, ElementOfSeq
<1>4. /\ Len(queue) \in Nat /\ DOMAIN queue = 1..Len(queue)
      /\ \A n \in 1..Len(queue) : queue[n] \in Request
  BY <1>2, LenProperties, ElementOfSeq
<1>5. device.reports \in Seq(SUBSET Request)
  BY <1>2 DEF Device
<1>6. /\ Len(device.reports) \in Nat
      /\ \A n \in 1..Len(device.reports) : device.reports[n] \in SUBSET Request
  BY <1>5, LenProperties, ElementOfSeq
<1>7. ASSUME NEW r \in Request, told[r] # <<>>
      PROVE  told[r][1] \in Given
  <2>1. told[r] \in Seq(Given) /\ Len(told[r]) = 1
    BY <1>7 DEF IInv, Answering
  <2> QED
    BY <2>1, ElementOfSeq
<1>8. /\ \A r \in DOMAIN kind : r \in Request /\ kind[r] \in Kind \cup {"dropped"}
      /\ \A n \in DOMAIN queue : queue[n] \in Request /\ queue[n] \in ToSet(queue)
  BY <1>1, <1>2, <1>3, <1>4 DEF Request, ToSet
<1> QED
  BY <1>1, <1>2, <1>3, <1>4, <1>5, <1>6, <1>7, <1>8

-----------------------------------------------------------------------------
(* What a command does to the device.                                      *)

\* A report takes the day's sales and leaves the earlier reports alone.
LEMMA ReportKeepsSales ==
    ASSUME NEW d \in Device, Day(d)
    PROVE  /\ Reported(d) \in Device /\ Day(Reported(d))
           /\ \A r : Sold(Reported(d), r) <=> Sold(d, r)
           /\ Len(Reported(d).reports) = Len(d.reports) + 1
           /\ \A n \in 1..Len(d.reports) : Reported(d).reports[n] = d.reports[n]
           /\ Reported(d).rates = d.rates /\ Reported(d).plu = d.plu
<1> DEFINE e == Reported(d)
<1>1. /\ e \in Device /\ e.turnover = {} /\ e.reports = Append(d.reports, d.turnover)
      /\ e.rates = d.rates /\ e.plu = d.plu
  <2>1. d.reports \in Seq(SUBSET Request) /\ d.turnover \in SUBSET Request
    BY DEF Device
  <2>2. Append(d.reports, d.turnover) \in Seq(SUBSET Request) /\ {} \in SUBSET Request
    BY <2>1, AppendProperties
  <2> QED
    BY <2>2 DEF Device, Reported
<1>2. /\ Len(d.reports) \in Nat /\ Len(e.reports) = Len(d.reports) + 1
      /\ \A n \in 1..Len(d.reports) : e.reports[n] = d.reports[n]
      /\ e.reports[Len(d.reports) + 1] = d.turnover
  <2>1. d.reports \in Seq(SUBSET Request) /\ d.turnover \in SUBSET Request
    BY DEF Device
  <2> QED
    BY <1>1, <2>1, AppendProperties, LenProperties
<1> HIDE DEF e
<1>3. /\ \A n \in 1..Len(e.reports) : n \in 1..Len(d.reports) \/ n = Len(d.reports) + 1
      /\ \A n \in 1..Len(d.reports) : n \in 1..Len(e.reports)
      /\ Len(d.reports) + 1 \in 1..Len(e.reports)
  BY <1>2
<1>4. \A r : Sold(e, r) <=> Sold(d, r)
  BY <1>1, <1>2, <1>3 DEF Sold
<1>5. Day(e)
  <2> SUFFICES ASSUME NEW r \in Request, NEW n \in 1..Len(e.reports), r \in e.reports[n]
               PROVE  \A m \in 1..Len(e.reports) : r \in e.reports[m] => m = n
    BY <1>1 DEF Day
  <2>1. CASE n \in 1..Len(d.reports)
    <3>1. r \notin d.turnover /\ \A m \in 1..Len(d.reports) : r \in d.reports[m] => m = n
      BY <1>2, <2>1 DEF Day
    <3> QED
      BY <1>2, <1>3, <3>1
  <2>2. CASE n = Len(d.reports) + 1
    <3>1. \A m \in 1..Len(d.reports) : r \notin d.reports[m]
      BY <1>2, <2>2 DEF Day
    <3> QED
      BY <1>2, <1>3, <2>2, <3>1
  <2> QED
    BY <1>3, <2>1, <2>2
<1> QED
  BY <1>1, <1>2, <1>4, <1>5 DEF e

\* A receipt is sold once.
LEMMA SaleKeepsSales ==
    ASSUME NEW d \in Device, Day(d), NEW r \in Request, ~Sold(d, r),
           NEW e, e = [d EXCEPT !.turnover = @ \cup {r}]
    PROVE  /\ e \in Device /\ Day(e)
           /\ \A s : Sold(e, s) <=> Sold(d, s) \/ s = r
           /\ e.reports = d.reports /\ e.rates = d.rates /\ e.plu = d.plu
<1>1. /\ e \in Device /\ e.turnover = d.turnover \cup {r} /\ e.reports = d.reports
      /\ e.rates = d.rates /\ e.plu = d.plu
  BY DEF Device
<1>2. \A s : Sold(e, s) <=> Sold(d, s) \/ s = r
  BY <1>1 DEF Sold
<1>3. Day(e)
  BY <1>1 DEF Day, Sold
<1> QED
  BY <1>1, <1>2, <1>3

\* One command and the tables, the sales and the reports of the device.
LEMMA CommandDoes ==
    ASSUME IInv, run.of # NoOne, run.step # "open",
           NEW outcome \in {"done", "refused", "lost"}, Command(outcome)
    PROVE  /\ device' \in Device /\ Day(device') /\ faults' \in 0..MaxFaults
           /\ \A r : Sold(device, r) => Sold(device', r)
           /\ \A r : Sold(device', r) => Sold(device, r) \/ (r = run.of /\ run.step = "sell")
           /\ run.step = "sell" /\ outcome = "done" => Sold(device', run.of)
           /\ Len(device.reports) <= Len(device'.reports)
           /\ \A n \in 1..Len(device.reports) : device'.reports[n] = device.reports[n]
           /\ run.step = "report" /\ outcome = "done" =>
                Len(device'.reports) = Len(device.reports) + 1
           /\ run.step # "program" => device'.rates = device.rates
           /\ run.step = "program" /\ outcome = "done" => device'.rates = run.of
           /\ run.step # "item" => device'.plu = device.plu
           /\ \A i \in 1..Items : i # run.item => device'.plu[i] = device.plu[i]
           /\ run.step = "item" /\ outcome = "done" => device'.plu[run.item] = run.of
<1>0. /\ device \in Device /\ Day(device) /\ run.of \in Request /\ run.item \in 1..Items
      /\ Len(device.reports) \in Nat
  BY RoutesTypes DEF IInv, Sales
<1>1. faults' \in 0..MaxFaults
  <2>1. faults \in 0..MaxFaults /\ MaxFaults \in Nat
    BY RoutesAssumption DEF IInv, TypeOK
  <2> QED
    BY <2>1 DEF Command, Fault, NoFault
<1>2. /\ \/ device' = device
         \/ device' = Executed
         \/ device' = [device EXCEPT !.open = TRUE]
      /\ outcome = "done" => device' = Executed
  BY DEF Command
<1>3. CASE device' = device /\ outcome # "done"
  BY <1>0, <1>1, <1>3
<1>4. CASE device' = [device EXCEPT !.open = TRUE] /\ outcome # "done"
  <2>1. /\ device' \in Device /\ device'.turnover = device.turnover
        /\ device'.reports = device.reports
        /\ device'.rates = device.rates /\ device'.plu = device.plu
    BY <1>0, <1>4 DEF Device
  <2> QED
    BY <1>0, <1>1, <1>4, <2>1 DEF Day, Sold
<1>5. CASE device' = Executed
  <2>1. CASE run.step = "report"
    <3>1. device' = Reported(device)
      BY <1>5, <2>1 DEF Executed
    <3> QED
      BY <1>0, <1>1, <2>1, <3>1, ReportKeepsSales
  <2>2. CASE run.step = "program"
    <3>1. device' = [device EXCEPT !.rates = run.of]
      BY <1>5, <2>2 DEF Executed, RatesProgrammed
    <3>2. /\ device' \in Device /\ device'.turnover = device.turnover
          /\ device'.reports = device.reports
          /\ device'.rates = run.of /\ device'.plu = device.plu
      BY <1>0, <3>1 DEF Device
    <3> QED
      BY <1>0, <1>1, <2>2, <3>2 DEF Day, Sold
  <2>3. CASE run.step = "item"
    <3>1. device' = [device EXCEPT !.plu[run.item] = run.of]
      BY <1>5, <2>3 DEF Executed, ItemProgrammed
    <3>2. /\ device' \in Device /\ device'.turnover = device.turnover
          /\ device'.reports = device.reports
          /\ device'.rates = device.rates
          /\ device'.plu = [device.plu EXCEPT ![run.item] = run.of]
      BY <1>0, <3>1 DEF Device
    <3>3. device.plu \in [1..Items -> Request \cup {NoOne}]
      BY <1>0 DEF Device
    <3>4. /\ \A i \in 1..Items : i # run.item => device'.plu[i] = device.plu[i]
          /\ device'.plu[run.item] = run.of
      BY <1>0, <3>2, <3>3
    <3>5. Day(device') /\ \A r : Sold(device', r) <=> Sold(device, r)
      BY <1>0, <3>2 DEF Day, Sold
    <3> QED
      BY <1>0, <1>1, <2>3, <3>2, <3>4, <3>5
  <2>4. CASE run.step = "cancel"
    <3>1. device' = [device EXCEPT !.open = FALSE]
      BY <1>5, <2>4 DEF Executed
    <3>2. /\ device' \in Device /\ device'.turnover = device.turnover
          /\ device'.reports = device.reports
          /\ device'.rates = device.rates /\ device'.plu = device.plu
      BY <1>0, <3>1 DEF Device
    <3> QED
      BY <1>0, <1>1, <2>4, <3>2 DEF Day, Sold
  <2>5. CASE run.step = "sell"
    <3>1. device' = [device EXCEPT !.turnover = @ \cup {run.of}]
      BY <1>5, <2>5 DEF Executed
    <3>2. ~Sold(device, run.of)
      BY <1>0, <2>5 DEF IInv, Sales
    <3>3. /\ device' \in Device /\ Day(device')
          /\ \A s : Sold(device', s) <=> Sold(device, s) \/ s = run.of
          /\ device'.reports = device.reports
          /\ device'.rates = device.rates /\ device'.plu = device.plu
      BY <1>0, <3>1, <3>2, SaleKeepsSales
    <3> QED
      BY <1>0, <1>1, <2>5, <3>3
  <2>6. CASE run.step \notin {"report", "program", "item", "cancel", "sell"}
    <3>1. device' = device
      BY <1>5, <2>6 DEF Executed
    <3> QED
      BY <1>0, <1>1, <2>6, <3>1
  <2> QED
    BY <2>1, <2>2, <2>3, <2>4, <2>5, <2>6
<1> QED
  BY <1>2, <1>3, <1>4, <1>5

-----------------------------------------------------------------------------
(* What a command does to the requests.                                    *)

\* What a command leaves true of the sales and the reports, and what it does
\* not change.
Commanded ==
    /\ device' \in Device /\ Day(device') /\ faults' \in 0..MaxFaults
    /\ cache' \in Knowledge /\ kept' \in Knowledge
    /\ \A r : Sold(device, r) => Sold(device', r)
    /\ \A r : Sold(device', r) => Sold(device, r) \/ (r = run.of /\ run.step = "sell")
    /\ Len(device.reports) <= Len(device'.reports)
    /\ \A n \in 1..Len(device.reports) : device'.reports[n] = device.reports[n]
    /\ UNCHANGED <<driver, kind, queue, restarts>>

\* The holder is answered and the lock is free.
LEMMA HolderEnds ==
    ASSUME IInv, run.of # NoOne, Commanded, NEW a \in Given, Finish(a),
           kind[run.of] = "receipt" /\ a.ok => Sold(device', run.of),
           kind[run.of] = "zreport" /\ a.no > 0 =>
                /\ a.no = Len(device.reports) + 1 /\ a.no <= Len(device'.reports)
                /\ a.totals = device'.reports[a.no]
    PROVE  IInv'
<1>0. /\ run.of \in Request /\ NoOne \notin Request /\ run' = Free
      /\ Items \in Nat \ {0} /\ Len(device.reports) \in Nat
      /\ run.of \in DOMAIN kind /\ kind' = kind /\ queue' = queue /\ driver' = driver
      /\ run.of \notin ToSet(queue)
  BY RoutesTypes DEF IInv, TypeOK, Holding, Finish, Commanded
<1>f. Free.of = NoOne /\ Free.step = "open" /\ Free.item = 1 /\ Free.errors = {}
  BY DEF Free
<1>t. /\ told \in [Request -> {<<>>} \cup Seq(Given)]
      /\ told' = [told EXCEPT ![run.of] = <<a>>]
      /\ <<a>> # <<>> /\ <<a>> \in Seq(Given) /\ Len(<<a>>) = 1 /\ <<a>>[1] = a
  BY DEF IInv, Answering, Finish, Tell
<1>u. /\ \A r \in Request : r # run.of => told'[r] = told[r]
      /\ told'[run.of] = <<a>>
  BY <1>0, <1>t
<1>1. TypeOK'
  <2>1. /\ run'.of = NoOne /\ NoOne \notin ToSet(queue)
        /\ run' \in [of : Request \cup {NoOne}, errors : SUBSET (1..Items), item : 1..Items,
                step : {"open", "report", "one", "program", "read", "item", "cancel",
                        "status", "detect", "sell"}]
    <3>1. 1 \in 1..Items /\ {} \in SUBSET (1..Items)
      BY <1>0
    <3>2. NoOne \notin ToSet(queue)
      BY <1>0, RoutesTypes DEF ToSet
    <3> QED
      BY <1>0, <3>1, <3>2 DEF Free
  <2>2. \A r \in Request : told'[r] # <<>> => r # run'.of /\ r \notin ToSet(queue)
    BY <1>0, <1>u, <2>1 DEF IInv, TypeOK
  <2>3. restarts' = restarts
    BY DEF Commanded
  <2> QED
    BY <1>0, <2>1, <2>2, <2>3 DEF IInv, TypeOK, Commanded, Device, IsInjective, ToSet, Knowledge
<1>2. Answering'
  <2>1. told' \in [Request -> {<<>>} \cup Seq(Given)]
    BY <1>0, <1>t
  <2>2. \A r \in Request : told'[r] # <<>> => r \in DOMAIN kind /\ Len(told'[r]) = 1
    BY <1>0, <1>t, <1>u DEF IInv, Answering
  <2> QED
    BY <1>0, <2>1, <2>2 DEF Answering, Given, Knowledge
<1>3. Holding' /\ Queued' /\ Programmed'
  BY <1>0, <1>f DEF IInv, Holding, Queued, Programmed
<1>4. Sales'
  <2>1. ASSUME NEW r \in Request, Sold(device', r)
        PROVE  /\ r \in DOMAIN kind /\ kind[r] \in {"receipt", "dropped"}
               /\ r \notin ToSet(queue) /\ r # run'.of
    <3>1. CASE Sold(device, r)
      BY <1>0, <1>f, <3>1 DEF IInv, Sales
    <3>2. CASE r = run.of /\ run.step = "sell"
      <4>1. kind[run.of] = "receipt"
        BY <1>0, <3>2 DEF IInv, Holding, StepsOf
      <4> QED
        BY <1>0, <1>f, <3>2, <4>1
    <3> QED
      BY <2>1, <3>1, <3>2 DEF Commanded
  <2>2. ASSUME NEW r \in Request, told'[r] # <<>>, kind[r] = "receipt", told'[r][1].ok
        PROVE  Sold(device', r)
    <3>1. CASE r = run.of
      BY <1>t, <1>u, <2>2, <3>1
    <3>2. CASE r # run.of
      BY <1>u, <2>2, <3>2 DEF IInv, Sales, Answered, Answer, Commanded
    <3> QED
      BY <3>1, <3>2
  <2>3. Day(device') /\ run'.of = NoOne
    BY <1>0, <1>f DEF Commanded
  <2>4. ToSet(queue)' = ToSet(queue)
    BY <1>0 DEF ToSet
  <2> QED
    BY <1>0, <2>1, <2>2, <2>3, <2>4 DEF Sales, Answered, Answer, Sold, Day
<1>5. Reports'
  <2> DEFINE T(r) == told'[r] # <<>> /\ kind[r] = "zreport" /\ told'[r][1].no > 0
  <2>1. ASSUME NEW r \in Request, T(r), r # run.of
        PROVE  /\ told'[r] = told[r] /\ told[r][1].no \in Nat
               /\ told[r][1].no <= Len(device.reports)
               /\ told[r][1].totals = device'.reports[told[r][1].no]
    <3>1. told'[r] = told[r]
      BY <1>u, <2>1
    <3>2. /\ told[r][1].no <= Len(device.reports)
          /\ told[r][1].totals = device.reports[told[r][1].no]
      BY <2>1, <3>1 DEF IInv, Reports, Answered, Answer
    <3>3. told[r][1].no \in Nat
      BY <2>1, <3>1, RoutesTypes DEF Given
    <3>4. told[r][1].no \in 1..Len(device.reports)
      BY <1>0, <2>1, <3>1, <3>2, <3>3
    <3> QED
      BY <3>1, <3>2, <3>3, <3>4 DEF Commanded
  <2>2. T(run.of) => /\ a.no = Len(device.reports) + 1 /\ a.no <= Len(device'.reports)
                     /\ a.totals = device'.reports[a.no]
    BY <1>t, <1>u
  <2>3. told'[run.of][1] = a
    BY <1>t, <1>u
  <2>4. ASSUME NEW r \in Request, T(r)
        PROVE  /\ told'[r][1].no <= Len(device'.reports)
               /\ told'[r][1].totals = device'.reports[told'[r][1].no]
               /\ \A s \in Request : T(s) /\ told'[s][1].no = told'[r][1].no => r = s
    <3>1. /\ told'[r][1].no <= Len(device'.reports)
          /\ told'[r][1].totals = device'.reports[told'[r][1].no]
      <4>1. CASE r = run.of
        BY <2>2, <2>3, <2>4, <4>1
      <4>2. CASE r # run.of
        <5>1. Len(device.reports) <= Len(device'.reports) /\ Len(device'.reports) \in Nat
          BY LenProperties DEF Commanded, Device
        <5> QED
          BY <1>0, <2>1, <2>4, <4>2, <5>1
      <4> QED
        BY <4>1, <4>2
    <3>2. ASSUME NEW s \in Request, T(s), told'[s][1].no = told'[r][1].no
          PROVE  r = s
      <4>1. CASE r # run.of /\ s # run.of
        BY <2>1, <2>4, <3>2, <4>1 DEF IInv, Reports, Answered, Answer
      <4>2. CASE r = run.of /\ s # run.of
        <5>1. told'[r][1].no = Len(device.reports) + 1
          BY <2>2, <2>3, <2>4, <4>2
        <5>2. told'[s][1].no <= Len(device.reports) /\ told'[s][1].no \in Nat
          BY <2>1, <3>2, <4>2
        <5> QED
          BY <1>0, <3>2, <5>1, <5>2
      <4>3. CASE s = run.of /\ r # run.of
        <5>1. told'[s][1].no = Len(device.reports) + 1
          BY <2>2, <2>3, <3>2, <4>3
        <5>2. told'[r][1].no <= Len(device.reports) /\ told'[r][1].no \in Nat
          BY <2>1, <2>4, <4>3
        <5> QED
          BY <1>0, <3>2, <5>1, <5>2
      <4> QED
        BY <4>1, <4>2, <4>3
    <3> QED
      BY <3>1, <3>2
  <2> QED
    BY <1>0, <2>4 DEF Reports, Answered, Answer
<1> QED
  BY <1>1, <1>2, <1>3, <1>4, <1>5 DEF IInv

\* The holder is at its next command.
LEMMA HolderGoesOn ==
    ASSUME IInv, run.of # NoOne, Commanded, told' = told,
           run' \in [of : Request \cup {NoOne}, errors : SUBSET (1..Items), item : 1..Items,
                step : {"open", "report", "one", "program", "read", "item", "cancel",
                        "status", "detect", "sell"}],
           run'.of = run.of, run'.step \in StepsOf(kind[run.of]),
           run'.step = "sell" => run.step = "open",
           run'.step # "item" => run'.item = 1 /\ run'.errors = {},
           kind[run.of] = "receipt" /\ run'.step = "detect" => Sold(device', run.of),
           kind[run.of] = "vat" /\ run'.step = "read" => device'.rates = run.of,
           driver = "pm" /\ run'.step = "item" /\ run'.errors = {} =>
              \A i \in 1..Items : i < run'.item => device'.plu[i] = run.of
    PROVE  IInv'
<1>0. /\ run.of \in Request /\ Len(device.reports) \in Nat
      /\ run.of \in DOMAIN kind /\ kind[run.of] \in Kind
      /\ kind' = kind /\ queue' = queue /\ driver' = driver /\ restarts' = restarts
      /\ run.of \notin ToSet(queue) /\ ToSet(queue)' = ToSet(queue)
  BY RoutesTypes DEF IInv, TypeOK, Holding, Commanded, ToSet
<1>1. TypeOK'
  BY <1>0 DEF IInv, TypeOK, Commanded, Device, IsInjective, Knowledge
<1>2. Answering' /\ Queued'
  BY <1>0 DEF IInv, Answering, Queued, Given, Knowledge
<1>3. Holding'
  BY <1>0 DEF Holding, StepsOf
<1>4. Sales'
  <2>1. ASSUME NEW r \in Request, Sold(device', r)
        PROVE  /\ r \in DOMAIN kind /\ kind[r] \in {"receipt", "dropped"}
               /\ r \notin ToSet(queue)
               /\ r = run.of => run'.step \notin {"open", "sell"}
    <3>1. CASE Sold(device, r)
      <4>1. run'.step # "open"
        BY DEF StepsOf
      <4> QED
        BY <1>0, <3>1, <4>1 DEF IInv, Sales
    <3>2. CASE r = run.of /\ run.step = "sell"
      <4>1. kind[run.of] = "receipt"
        BY <1>0, <3>2 DEF IInv, Holding, StepsOf
      <4>2. run'.step \notin {"open", "sell"}
        BY <3>2 DEF StepsOf
      <4> QED
        BY <1>0, <3>2, <4>1, <4>2
    <3> QED
      BY <2>1, <3>1, <3>2 DEF Commanded
  <2>2. ASSUME NEW r \in Request, told[r] # <<>>, kind[r] = "receipt", told[r][1].ok
        PROVE  Sold(device', r)
    BY <2>2 DEF IInv, Sales, Answered, Answer, Commanded
  <2>3. Day(device')
    BY DEF Commanded
  <2> QED
    BY <1>0, <2>1, <2>2, <2>3 DEF Sales, Answered, Answer, Sold, Day
<1>5. Reports'
  <2>1. ASSUME NEW r \in Request, told[r] # <<>>, kind[r] = "zreport", told[r][1].no > 0
        PROVE  /\ told[r][1].no <= Len(device'.reports)
               /\ told[r][1].totals = device'.reports[told[r][1].no]
    <3>1. /\ told[r][1].no <= Len(device.reports)
          /\ told[r][1].totals = device.reports[told[r][1].no]
      BY <2>1 DEF IInv, Reports, Answered, Answer
    <3>2. told[r][1].no \in Nat
      BY <2>1, RoutesTypes DEF Given
    <3>3. told[r][1].no \in 1..Len(device.reports)
      BY <1>0, <2>1, <3>1, <3>2
    <3>4. Len(device.reports) <= Len(device'.reports) /\ Len(device'.reports) \in Nat
      BY LenProperties DEF Commanded, Device
    <3> QED
      BY <1>0, <3>1, <3>2, <3>3, <3>4 DEF Commanded
  <2> QED
    BY <1>0, <2>1 DEF IInv, Reports, Answered, Answer
<1>6. Programmed'
  BY <1>0 DEF Programmed
<1> QED
  BY <1>1, <1>2, <1>3, <1>4, <1>5, <1>6 DEF IInv

\* The answers of the routes.
LEMMA AnswersGiven ==
    ASSUME IInv
    PROVE  /\ Nothing \in Given /\ ~Nothing.ok /\ Nothing.no = 0
           /\ Yes \in Given /\ Yes.ok /\ Yes.no = 0
           /\ \A c \in Knowledge : Info(c) \in Given /\ Info(c).ok /\ Info(c).no = 0
           /\ \A b \in BOOLEAN : /\ [Nothing EXCEPT !.ok = b] \in Given
                                 /\ [Nothing EXCEPT !.ok = b].no = 0
                                 /\ [Nothing EXCEPT !.ok = b].ok = b
           /\ \A b \in BOOLEAN, t \in Request \cup {NoOne} :
                /\ [Nothing EXCEPT !.ok = b, !.table = t] \in Given
                /\ [Nothing EXCEPT !.ok = b, !.table = t].ok = b
                /\ [Nothing EXCEPT !.ok = b, !.table = t].table = t
                /\ [Yes EXCEPT !.table = t] \in Given
                /\ [Yes EXCEPT !.table = t].table = t
<1>1. Nothing \in Given /\ ~Nothing.ok /\ Nothing.no = 0
  BY DEF Nothing, Given, Knowledge
<1>2. Yes \in Given /\ Yes.ok /\ Yes.no = 0
  BY <1>1 DEF Yes, Given
<1> QED
  BY <1>1, <1>2 DEF Info, Given

\* Whoever is told by a PM printer that a table is programmed, has it there.
TablesTold ==
    \A r \in Request :
        driver = "pm" /\ told[r] = <<>> /\ told'[r] # <<>> /\ told'[r][1].ok =>
            /\ kind'[r] = "vat" => told'[r][1].table = r /\ device'.rates = r
            /\ kind'[r] = "plu" => \A i \in 1..Items : device'.plu[i] = r

\* Only the answer of the holder may speak of a table.
LEMMA HolderToldTables ==
    ASSUME IInv, run.of # NoOne, kind' = kind, NEW a \in Given, Finish(a),
           driver = "pm" /\ a.ok =>
              /\ kind[run.of] = "vat" => a.table = run.of /\ device'.rates = run.of
              /\ kind[run.of] = "plu" => \A i \in 1..Items : device'.plu[i] = run.of
    PROVE  TablesTold
<1>1. /\ told \in [Request -> {<<>>} \cup Seq(Given)] /\ run.of \in Request
      /\ told' = [told EXCEPT ![run.of] = <<a>>] /\ <<a>>[1] = a
  BY RoutesTypes DEF IInv, Answering, Finish, Tell
<1>2. \A r \in Request : told'[r] = IF r = run.of THEN <<a>> ELSE told[r]
  BY <1>1
<1> QED
  BY <1>1, <1>2 DEF TablesTold

\* What the holder's command finds, and what is learnt by it.
LEMMA StepIsCommanded ==
    ASSUME IInv, run.of # NoOne, run.step # "open",
           NEW outcome \in {"done", "refused", "lost"}, Command(outcome),
           IF run.step = "detect" THEN Learnt(outcome) ELSE Forget,
           UNCHANGED <<driver, kind, queue, restarts>>
    PROVE  Commanded
<1>1. cache \in Knowledge /\ kept \in Knowledge
  BY RoutesTypes
<1>2. cache' \in Knowledge /\ kept' \in Knowledge
  BY <1>1 DEF Learnt, LearntByPm, LearntByIcp, Cache, Forget, Persisted, Knowledge
<1> QED
  BY <1>2, CommandDoes DEF Commanded

LEMMA TotalsAre ==
    ASSUME IInv, NEW d \in Device, Len(d.reports) \in Nat,
           d.reports[Len(d.reports)] \in SUBSET Request
    PROVE  /\ Totals(d) \in Given /\ Totals(d).no = Len(d.reports)
           /\ Totals(d).totals = d.reports[Len(d.reports)]
<1>1. Yes \in Given
  BY AnswersGiven
<1> QED
  BY <1>1 DEF Totals, Last, Given

\* A report is told as it was made, and to nobody before.
LEMMA ReportStep ==
    ASSUME IInv, run.of # NoOne, run.step = "report", Commanded,
           NEW outcome \in {"done", "refused", "lost"}, Command(outcome), Report(outcome)
    PROVE  IInv' /\ TablesTold
<1>1. kind[run.of] \in {"zreport", "iot"} /\ kind' = kind
  BY RoutesTypes DEF IInv, Holding, StepsOf, Route, Commanded
<1>2. PICK a : Finish(a) /\ a = IF kind[run.of] = "iot" THEN IotAction(outcome) ELSE ZReport(outcome)
  BY DEF Report
<1>3. a \in Given /\ (kind[run.of] = "zreport" /\ a.no > 0 =>
                /\ a.no = Len(device.reports) + 1 /\ a.no <= Len(device'.reports)
                /\ a.totals = device'.reports[a.no])
  <2>1. CASE outcome = "done" /\ driver = "pm" /\ kind[run.of] # "iot"
    <3>1. a = Totals(device')
      BY <1>2, <2>1 DEF ZReport
    <3>2. /\ Len(device'.reports) = Len(device.reports) + 1 /\ Len(device.reports) \in Nat
          /\ device' \in Device
      BY <2>1, CommandDoes, RoutesTypes DEF Commanded
    <3>3. /\ Len(device'.reports) \in 1..Len(device'.reports)
          /\ device'.reports[Len(device'.reports)] \in SUBSET Request
      <4>1. device'.reports \in Seq(SUBSET Request) /\ Len(device'.reports) \in 1..Len(device'.reports)
        BY <3>2 DEF Device
      <4> QED
        BY <4>1, ElementOfSeq
    <3>5. /\ a \in Given /\ a.no = Len(device'.reports)
          /\ a.totals = device'.reports[Len(device'.reports)]
      BY <3>1, <3>2, <3>3, TotalsAre
    <3> QED
      BY <3>2, <3>5
  <2>2. CASE ~(outcome = "done" /\ driver = "pm" /\ kind[run.of] # "iot")
    <3>1. a = Yes \/ a = Nothing
      BY <1>2, <2>2 DEF ZReport, IotAction
    <3>2. Yes \in Given /\ Yes.no = 0 /\ Nothing \in Given /\ Nothing.no = 0
      BY AnswersGiven
    <3>3. a \in Given /\ a.no = 0
      BY <3>1, <3>2
    <3> QED
      BY <3>3
  <2> QED
    BY <2>1, <2>2
<1>4. kind[run.of] \notin {"receipt", "vat", "plu"}
  BY <1>1
<1> QED
  BY <1>1, <1>2, <1>3, <1>4, HolderEnds, HolderToldTables

\* Commands whose answer says nothing of the tables.
LEMMA PlainStep ==
    ASSUME IInv, run.of # NoOne, Commanded, NEW outcome \in {"done", "refused", "lost"},
           \/ run.step = "one" /\ Simple(outcome)
           \/ run.step = "cancel" /\ Cancel(outcome)
    PROVE  IInv' /\ TablesTold
<1>1. kind[run.of] \in {"simple", "reset"} /\ kind' = kind
  BY RoutesTypes DEF IInv, Holding, StepsOf, Route, Commanded
<1>2. PICK b \in BOOLEAN : Finish([Nothing EXCEPT !.ok = b])
  BY DEF Simple, Cancel
<1>3. [Nothing EXCEPT !.ok = b] \in Given /\ kind[run.of] \notin {"receipt", "zreport", "vat", "plu"}
  BY <1>1, AnswersGiven
<1> QED
  BY <1>1, <1>2, <1>3, HolderEnds, HolderToldTables

\* The rates are programmed and read back under one lock.
LEMMA RatesStep ==
    ASSUME IInv, run.of # NoOne, Commanded, NEW outcome \in {"done", "refused", "lost"},
           Command(outcome),
           \/ run.step = "program" /\ Program(outcome)
           \/ run.step = "read" /\ Read(outcome)
    PROVE  IInv' /\ TablesTold
<1>0. /\ kind[run.of] \in {"rates", "vat"} /\ kind' = kind /\ run.of \in Request
      /\ run.item = 1 /\ run.errors = {}
      /\ run.step = "program" => kind[run.of] = "vat"
  BY RoutesTypes DEF IInv, Holding, StepsOf, Route, Commanded
<1>1. CASE run.step = "program" /\ outcome = "done"
  <2>1. run' = [run EXCEPT !.step = "read"] /\ told' = told
    BY <1>1 DEF Program, Goto
  <2>2. /\ run' \in [of : Request \cup {NoOne}, errors : SUBSET (1..Items), item : 1..Items,
                step : {"open", "report", "one", "program", "read", "item", "cancel",
                        "status", "detect", "sell"}]
        /\ run'.of = run.of /\ run'.step = "read" /\ run'.item = 1 /\ run'.errors = {}
    BY <1>0, <2>1 DEF IInv, TypeOK
  <2>3. run'.step \in StepsOf(kind[run.of])
    BY <1>0, <1>1, <2>2 DEF StepsOf
  <2>4. device'.rates = run.of
    BY <1>1, CommandDoes
  <2>5. IInv'
    BY <1>0, <1>1, <2>1, <2>2, <2>3, <2>4, HolderGoesOn
  <2> QED
    BY <2>1, <2>5 DEF TablesTold
<1>2. CASE run.step = "program" /\ outcome # "done"
  <2>1. Finish(Nothing)
    BY <1>2 DEF Program
  <2> QED
    BY <1>0, <2>1, AnswersGiven, HolderEnds, HolderToldTables
<1>3. CASE run.step = "read"
  <2>1. PICK a \in Given : Finish(a) /\ a = IF outcome = "done" THEN [Yes EXCEPT !.table = device.rates] ELSE Nothing
    <3>1. device.rates \in Request \cup {NoOne}
      BY RoutesTypes DEF Device
    <3> QED
      BY <1>3, <3>1, AnswersGiven DEF Read
  <2>2. device'.rates = device.rates
    BY <1>3, CommandDoes
  <2>3. kind[run.of] = "vat" => device.rates = run.of
    BY <1>3 DEF IInv, Programmed
  <2>4. a.ok => a.table = device.rates
    BY <2>1, AnswersGiven, RoutesTypes DEF Device
  <2> QED
    BY <1>0, <2>1, <2>2, <2>3, <2>4, HolderEnds, HolderToldTables
<1> QED
  BY <1>1, <1>2, <1>3

\* Items are programmed one after another under one lock; those that failed
\* on a PM printer are listed, and the answer is not ok then.
LEMMA ItemStep ==
    ASSUME IInv, run.of # NoOne, Commanded, NEW outcome \in {"done", "refused", "lost"},
           Command(outcome), run.step = "item", Item(outcome)
    PROVE  IInv' /\ TablesTold
<1> DEFINE errors == run.errors \cup IF ItemFailed(outcome) THEN {run.item} ELSE {}
<1>0. /\ kind[run.of] = "plu" /\ kind' = kind /\ run.of \in Request
      /\ run.item \in 1..Items /\ run.errors \in SUBSET (1..Items) /\ Items \in Nat
      /\ errors \in SUBSET (1..Items)
  BY RoutesTypes DEF IInv, Holding, StepsOf, Route, Commanded
<1>1. driver = "pm" /\ errors = {} =>
        \A i \in 1..Items : i < run.item + 1 => device'.plu[i] = run.of
  <2> SUFFICES ASSUME driver = "pm", errors = {}, NEW i \in 1..Items, i < run.item + 1
               PROVE  device'.plu[i] = run.of
    OBVIOUS
  <2>1. run.errors = {} /\ outcome = "done"
    BY DEF ItemFailed
  <2>2. CASE i = run.item
    BY <2>1, <2>2, CommandDoes
  <2>3. CASE i # run.item
    <3>1. i < run.item
      BY <1>0, <2>3
    <3>2. device.plu[i] = run.of
      BY <2>1, <3>1 DEF IInv, Programmed
    <3> QED
      BY <2>3, <3>2, CommandDoes
  <2> QED
    BY <2>2, <2>3
<1>2. CASE run.item < Items
  <2>1. run' = [run EXCEPT !.item = @ + 1, !.errors = errors] /\ told' = told
    BY <1>2 DEF Item
  <2> HIDE DEF errors
  <2>i. run.item + 1 \in 1..Items
    BY <1>0, <1>2
  <2>r. run \in [of : Request \cup {NoOne}, errors : SUBSET (1..Items), item : 1..Items,
                step : {"open", "report", "one", "program", "read", "item", "cancel",
                        "status", "detect", "sell"}]
    BY DEF IInv, TypeOK
  <2>2. /\ run' \in [of : Request \cup {NoOne}, errors : SUBSET (1..Items), item : 1..Items,
                step : {"open", "report", "one", "program", "read", "item", "cancel",
                        "status", "detect", "sell"}]
        /\ run'.of = run.of /\ run'.step = "item" /\ run'.item = run.item + 1
        /\ run'.errors = errors
    <3>1. errors \in SUBSET (1..Items)
      BY <1>0
    <3>2. run' = [of |-> run.of, errors |-> errors, item |-> run.item + 1, step |-> "item"]
      BY <2>1, <2>r
    <3>3. run.of \in Request \cup {NoOne}
      BY <2>r
    <3> QED
      BY <2>i, <3>1, <3>2, <3>3
  <2>3. run'.step \in StepsOf(kind[run.of])
    BY <1>0, <2>2 DEF StepsOf
  <2>4. IInv'
    BY <1>0, <1>1, <2>1, <2>2, <2>3, HolderGoesOn
  <2> QED
    BY <2>1, <2>4 DEF TablesTold
<1>3. CASE ~(run.item < Items)
  <2>1. Finish([Nothing EXCEPT !.ok = errors = {}, !.table = run.of])
    BY <1>3 DEF Item
  <2>2. /\ [Nothing EXCEPT !.ok = errors = {}, !.table = run.of] \in Given
        /\ [Nothing EXCEPT !.ok = errors = {}, !.table = run.of].ok = (errors = {})
    <3> DEFINE none == errors = {}
    <3>1. none \in BOOLEAN /\ run.of \in Request \cup {NoOne}
      BY <1>0
    <3> HIDE DEF none
    <3>2. /\ [Nothing EXCEPT !.ok = none, !.table = run.of] \in Given
          /\ [Nothing EXCEPT !.ok = none, !.table = run.of].ok = none
      BY <3>1, AnswersGiven
    <3> QED
      BY <3>2 DEF none
  <2> HIDE DEF errors
  <2>3. driver = "pm" /\ errors = {} => \A i \in 1..Items : device'.plu[i] = run.of
    <3>1. \A i \in 1..Items : i < run.item + 1
      BY <1>0, <1>3
    <3> QED
      BY <1>1, <3>1
  <2>4. kind[run.of] \notin {"receipt", "zreport", "vat"}
    BY <1>0
  <2> QED
    BY <1>0, <2>1, <2>2, <2>3, <2>4, HolderEnds, HolderToldTables
<1> QED
  BY <1>2, <1>3

\* A status or a receipt may ask the device for its information as well.
LEMMA AskingStep ==
    ASSUME IInv, run.of # NoOne, Commanded, NEW outcome \in {"done", "refused", "lost"},
           Command(outcome),
           \/ run.step = "status" /\ Status(outcome)
           \/ run.step = "sell" /\ Sell(outcome)
    PROVE  IInv' /\ TablesTold
<1>0. /\ kind[run.of] \in {"status", "receipt"} /\ kind' = kind /\ run.of \in Request
      /\ run.step = "sell" => kind[run.of] = "receipt"
      /\ run.step = "status" => kind[run.of] = "status"
      /\ run.item = 1 /\ run.errors = {} /\ run.step \in {"status", "sell"}
  BY RoutesTypes DEF IInv, Holding, StepsOf, Route, Commanded
<1>1. CASE Goto("detect")
  <2>1. run' = [run EXCEPT !.step = "detect"] /\ told' = told
    BY <1>1 DEF Goto
  <2>r. run \in [of : Request \cup {NoOne}, errors : SUBSET (1..Items), item : 1..Items,
                step : {"open", "report", "one", "program", "read", "item", "cancel",
                        "status", "detect", "sell"}]
    BY DEF IInv, TypeOK
  <2>2. /\ run' \in [of : Request \cup {NoOne}, errors : SUBSET (1..Items), item : 1..Items,
                step : {"open", "report", "one", "program", "read", "item", "cancel",
                        "status", "detect", "sell"}]
        /\ run'.of = run.of /\ run'.step = "detect" /\ run'.item = 1 /\ run'.errors = {}
    BY <1>0, <2>1, <2>r
  <2>3. run'.step \in StepsOf(kind[run.of])
    BY <1>0, <2>2 DEF StepsOf
  <2>4. kind[run.of] = "receipt" => Sold(device', run.of)
    <3>1. Finish(Nothing) \/ Finish(Info(cache)) => run'.step = "open"
      BY DEF Finish, Free
    <3>2. kind[run.of] = "receipt" => run.step = "sell" /\ outcome = "done"
      BY <1>0, <2>2, <3>1 DEF Sell
    <3> QED
      BY <3>2, CommandDoes
  <2>5. IInv'
    BY <1>0, <2>1, <2>2, <2>3, <2>4, HolderGoesOn
  <2> QED
    BY <2>1, <2>5 DEF TablesTold
<1>2. CASE Finish(Nothing)
  BY <1>0, <1>2, AnswersGiven, HolderEnds, HolderToldTables
<1>3. CASE run.step = "status" /\ Finish(Yes)
  BY <1>0, <1>3, AnswersGiven, HolderEnds, HolderToldTables
<1>4. CASE run.step = "sell" /\ outcome = "done" /\ Finish(Info(cache))
  <2>1. Info(cache) \in Given
    BY AnswersGiven, RoutesTypes
  <2>2. Sold(device', run.of)
    BY <1>4, CommandDoes
  <2>3. kind[run.of] = "receipt"
    BY <1>0, <1>4
  <2> QED
    BY <1>0, <1>4, <2>1, <2>2, <2>3, HolderEnds, HolderToldTables
<1> QED
  BY <1>0, <1>1, <1>2, <1>3, <1>4 DEF Status, Sell

\* The information ends a status, a receipt that is sold, or its own route.
LEMMA DetectStep ==
    ASSUME IInv, run.of # NoOne, Commanded, NEW outcome \in {"done", "refused", "lost"},
           Command(outcome), run.step = "detect",
           Finish(IF kind[run.of] = "status" THEN Yes ELSE Info(cache'))
    PROVE  IInv' /\ TablesTold
<1>0. /\ kind[run.of] \in {"status", "receipt", "info"} /\ kind' = kind /\ run.of \in Request
  BY RoutesTypes DEF IInv, Holding, StepsOf, Route, Commanded
<1>1. PICK a \in Given : Finish(a)
  BY AnswersGiven DEF Commanded
<1>2. kind[run.of] = "receipt" => Sold(device', run.of)
  <2>1. kind[run.of] = "receipt" => Sold(device, run.of)
    BY DEF IInv, Sales
  <2> QED
    BY <2>1 DEF Commanded
<1>3. kind[run.of] \notin {"zreport", "vat", "plu"}
  BY <1>0
<1> QED
  BY <1>0, <1>1, <1>2, <1>3, HolderEnds, HolderToldTables

LEMMA StepKeeps ==
    ASSUME IInv, Step
    PROVE  IInv' /\ TablesTold
<1>0. run.of # NoOne /\ run.step # "open" /\ UNCHANGED <<driver, kind, queue, restarts>>
  BY DEF Step
<1>1. PICK outcome \in {"done", "refused", "lost"} :
        /\ Command(outcome)
        /\ IF run.step = "detect" THEN Learnt(outcome) ELSE Forget
        /\ CASE run.step = "report" -> Report(outcome)
             [] run.step = "one" -> Simple(outcome)
             [] run.step = "program" -> Program(outcome)
             [] run.step = "read" -> Read(outcome)
             [] run.step = "item" -> Item(outcome)
             [] run.step = "cancel" -> Cancel(outcome)
             [] run.step = "status" -> Status(outcome)
             [] run.step = "sell" -> Sell(outcome)
             [] run.step = "detect" ->
                    Finish(IF kind[run.of] = "status" THEN Yes ELSE Info(cache'))
  BY DEF Step
<1>2. Commanded
  BY <1>0, <1>1, StepIsCommanded
<1>3. run.step \in {"report", "one", "program", "read", "item", "cancel",
                    "status", "detect", "sell"}
  BY <1>0 DEF IInv, TypeOK
<1>4. CASE run.step = "report"
  BY <1>0, <1>1, <1>2, <1>4, ReportStep
<1>5. CASE run.step \in {"one", "cancel"}
  BY <1>0, <1>1, <1>2, <1>5, PlainStep
<1>6. CASE run.step \in {"program", "read"}
  BY <1>0, <1>1, <1>2, <1>6, RatesStep
<1>7. CASE run.step = "item"
  BY <1>0, <1>1, <1>2, <1>7, ItemStep
<1>8. CASE run.step \in {"status", "sell"}
  BY <1>0, <1>1, <1>2, <1>8, AskingStep
<1>9. CASE run.step = "detect"
  BY <1>0, <1>1, <1>2, <1>9, DetectStep
<1> QED
  BY <1>3, <1>4, <1>5, <1>6, <1>7, <1>8, <1>9

\* The driver is opened: the route's first command, or its failure.
LEMMA OpenKeeps ==
    ASSUME IInv, Open
    PROVE  IInv' /\ TablesTold
<1>0. /\ run.of # NoOne /\ run.step = "open" /\ device' = device /\ cache' = cache /\ kept' = kept
      /\ UNCHANGED <<driver, kind, queue, restarts>> /\ kind' = kind
  BY DEF Open, Forget
<1>1. /\ run.of \in DOMAIN kind /\ kind[run.of] \in Route /\ run.of \in Request
      /\ run.item = 1 /\ run.errors = {} /\ kind[run.of] \in Kind
  BY <1>0, RoutesTypes DEF IInv, Holding
<1>2. Commanded
  <2>1. faults' \in 0..MaxFaults
    <3>1. faults \in 0..MaxFaults /\ MaxFaults \in Nat
      BY RoutesAssumption DEF IInv, TypeOK
    <3> QED
      BY <3>1 DEF Open, Fault, NoFault
  <2>2. device \in Device /\ Len(device.reports) \in Nat /\ cache \in Knowledge /\ kept \in Knowledge
    BY RoutesTypes
  <2> QED
    BY <1>0, <2>1, <2>2 DEF IInv, Sales, Commanded
<1>3. CASE kind[run.of] # "unsupported" /\ Goto(FirstStep(kind[run.of]))
  <2>1. run' = [run EXCEPT !.step = FirstStep(kind[run.of])] /\ told' = told
    BY <1>3 DEF Goto
  <2>r. run \in [of : Request \cup {NoOne}, errors : SUBSET (1..Items), item : 1..Items,
                step : {"open", "report", "one", "program", "read", "item", "cancel",
                        "status", "detect", "sell"}]
    BY DEF IInv, TypeOK
  <2>f. /\ FirstStep(kind[run.of]) \in StepsOf(kind[run.of])
        /\ FirstStep(kind[run.of]) \in {"report", "one", "program", "read", "item", "cancel",
                                        "status", "detect", "sell"}
        /\ kind[run.of] = "receipt" => FirstStep(kind[run.of]) = "sell"
        /\ kind[run.of] = "vat" => FirstStep(kind[run.of]) = "program"
    BY <1>1, <1>3 DEF FirstStep, StepsOf, Route
  <2>2. /\ run' \in [of : Request \cup {NoOne}, errors : SUBSET (1..Items), item : 1..Items,
                step : {"open", "report", "one", "program", "read", "item", "cancel",
                        "status", "detect", "sell"}]
        /\ run'.of = run.of /\ run'.step = FirstStep(kind[run.of])
        /\ run'.item = 1 /\ run'.errors = {}
    BY <1>1, <2>1, <2>r, <2>f
  <2>3. \A i \in 1..Items : ~(i < run'.item)
    BY <2>2, RoutesTypes
  <2>4. IInv'
    BY <1>0, <1>2, <2>1, <2>2, <2>3, <2>f, HolderGoesOn
  <2> QED
    BY <2>1, <2>4 DEF TablesTold
<1>4. CASE Finish(Nothing)
  <2>1. Nothing \in Given /\ ~Nothing.ok /\ Nothing.no = 0
    BY AnswersGiven
  <2>2. IInv'
    BY <1>0, <1>2, <1>4, <2>1, HolderEnds
  <2>3. TablesTold
    BY <1>0, <1>4, <2>1, HolderToldTables
  <2> QED
    BY <2>2, <2>3
<1>5. CASE kind[run.of] = "info" /\ Finish(Info(cache))
  <2>1. Info(cache) \in Given
    BY AnswersGiven, RoutesTypes
  <2> QED
    BY <1>0, <1>2, <1>5, <2>1, HolderEnds, HolderToldTables
<1> QED
  BY <1>0, <1>3, <1>4, <1>5 DEF Open, Unsupported, Failed

\* The lock is handed to its oldest waiter.
LEMMA AcquireKeeps ==
    ASSUME IInv, Acquire
    PROVE  IInv' /\ TablesTold
<1>0. /\ queue # <<>> /\ queue \in Seq(Request) /\ queue' = Tail(queue)
      /\ run' = [Free EXCEPT !.of = Head(queue)] /\ run = Free
      /\ driver' = driver /\ device' = device /\ kind' = kind /\ told' = told
      /\ cache' = cache /\ kept' = kept /\ faults' = faults /\ restarts' = restarts
      /\ Len(queue) \in Nat /\ DOMAIN queue = 1..Len(queue) /\ Items \in Nat \ {0}
  BY RoutesTypes DEF Acquire
<1>q. /\ Len(queue') = Len(queue) - 1 /\ queue' \in Seq(Request) /\ DOMAIN queue' = 1..Len(queue')
      /\ \A i \in 1..Len(queue') : queue'[i] = queue[i + 1] /\ i + 1 \in DOMAIN queue
      /\ 1 \in DOMAIN queue /\ Head(queue) = queue[1]
  <2>1. /\ Len(queue') = Len(queue) - 1 /\ queue' \in Seq(Request)
        /\ \A i \in 1..Len(queue') : queue'[i] = queue[i + 1]
    BY <1>0, HeadTailProperties
  <2>2. DOMAIN queue' = 1..Len(queue') /\ 1 \in 1..Len(queue) /\ Head(queue) = queue[1]
    BY <1>0, <2>1, LenProperties, EmptySeq
  <2> QED
    BY <1>0, <2>1, <2>2
<1>h. /\ Head(queue) \in Request /\ Head(queue) \in ToSet(queue) /\ NoOne \notin Request
      /\ Head(queue) \in DOMAIN kind /\ kind[Head(queue)] \in Kind
      /\ told[Head(queue)] = <<>> /\ ~Sold(device, Head(queue))
  <2>1. Head(queue) \in Request /\ Head(queue) \in ToSet(queue) /\ NoOne \notin Request
    BY <1>q, RoutesTypes
  <2> QED
    BY <1>q, <2>1 DEF IInv, TypeOK, Queued, Sales
<1>r. /\ run'.of = Head(queue) /\ run'.step = "open" /\ run'.item = 1 /\ run'.errors = {}
      /\ run' \in [of : Request \cup {NoOne}, errors : SUBSET (1..Items), item : 1..Items,
                step : {"open", "report", "one", "program", "read", "item", "cancel",
                        "status", "detect", "sell"}]
  <2>1. 1 \in 1..Items
    BY <1>0
  <2> QED
    BY <1>0, <1>h, <2>1 DEF Free
<1>s. ToSet(queue') \subseteq ToSet(queue) /\ Head(queue) \notin ToSet(queue')
  <2>1. \A i \in 1..Len(queue') : i + 1 # 1
    BY <1>0, <1>q
  <2>2. \A i \in 1..Len(queue') : queue'[i] # Head(queue)
    BY <1>q, <2>1 DEF IInv, TypeOK, IsInjective
  <2> QED
    BY <1>q, <2>2 DEF ToSet
<1>1. TypeOK'
  <2>1. IsInjective(queue')
    <3> SUFFICES ASSUME NEW i \in 1..Len(queue'), NEW j \in 1..Len(queue'), queue'[i] = queue'[j]
                 PROVE  i = j
      BY <1>q DEF IsInjective
    <3>1. i + 1 \in DOMAIN queue /\ j + 1 \in DOMAIN queue /\ queue[i + 1] = queue[j + 1]
      BY <1>q
    <3>2. i + 1 = j + 1
      BY <3>1 DEF IInv, TypeOK, IsInjective
    <3> QED
      BY <1>0, <1>q, <3>2
  <2>2. \A r \in Request : told[r] # <<>> => r # run'.of /\ r \notin ToSet(queue')
    BY <1>h, <1>r, <1>s DEF IInv, TypeOK
  <2> QED
    BY <1>0, <1>q, <1>r, <1>s, <2>1, <2>2 DEF IInv, TypeOK, IsInjective, ToSet, Knowledge
<1>2. Answering' /\ Reports'
  BY <1>0 DEF IInv, Answering, Reports, Answered, Answer, Given, Knowledge
<1>3. Holding' /\ Queued' /\ Programmed'
  BY <1>0, <1>q, <1>h, <1>r DEF IInv, Holding, Queued, Programmed, StepsOf
<1>4. Sales'
  <2>1. ASSUME NEW r \in Request, Sold(device, r)
        PROVE  r \notin ToSet(queue') /\ r # run'.of
    BY <1>h, <1>r, <1>s, <2>1 DEF IInv, Sales
  <2>2. ToSet(queue)' = ToSet(queue')
    BY DEF ToSet
  <2> QED
    BY <1>0, <1>r, <2>1, <2>2 DEF IInv, Sales, Answered, Answer, Sold, Day
<1>5. TablesTold
  BY <1>0 DEF TablesTold
<1> QED
  BY <1>1, <1>2, <1>3, <1>4, <1>5 DEF IInv

\* A request that is not known yet: nothing was told or sold to it.
LEMMA NewRequest ==
    ASSUME IInv, NEW k \in Kind, NEW r \in Request, r = Len(kind) + 1,
           kind' = Append(kind, k)
    PROVE  /\ kind' \in Seq(Kind \cup {"dropped"}) /\ Len(kind') <= MaxRequests
           /\ DOMAIN kind' = DOMAIN kind \cup {r} /\ kind'[r] = k
           /\ \A s \in DOMAIN kind : kind'[s] = kind[s]
           /\ r \notin DOMAIN kind /\ told[r] = <<>> /\ ~Sold(device, r)
           /\ r # run.of /\ r \notin ToSet(queue)
<1>0. /\ kind \in Seq(Kind \cup {"dropped"}) /\ Len(kind) \in Nat /\ MaxRequests \in Nat
      /\ DOMAIN kind = 1..Len(kind) /\ NoOne \notin Request
  BY RoutesTypes
<1>1. /\ kind' \in Seq(Kind \cup {"dropped"}) /\ Len(kind') = Len(kind) + 1
      /\ kind'[Len(kind) + 1] = k
      /\ \A s \in 1..Len(kind) : kind'[s] = kind[s]
  BY <1>0, AppendProperties
<1>2. DOMAIN kind' = DOMAIN kind \cup {r} /\ r \notin DOMAIN kind /\ Len(kind') <= MaxRequests
  <2>1. DOMAIN kind' = 1..(Len(kind) + 1)
    BY <1>0, <1>1, LenProperties
  <2> QED
    BY <1>0, <1>1, <2>1 DEF Request
<1>3. told[r] = <<>> /\ ~Sold(device, r) /\ r # run.of
  BY <1>0, <1>2 DEF IInv, Answering, Sales, Holding
<1>4. r \notin ToSet(queue)
  BY <1>2 DEF IInv, Queued, ToSet
<1> QED
  BY <1>0, <1>1, <1>2, <1>3, <1>4

\* What a new request leaves alone, whether it is answered, holds the lock or
\* waits.
LEMMA PostLeaves ==
    ASSUME IInv, NEW k \in Kind, NEW r \in Request, r = Len(kind) + 1,
           kind' = Append(kind, k),
           UNCHANGED <<driver, device, cache, kept, faults, restarts>>,
           \/ /\ run' = run /\ queue' = queue
              /\ \E a \in Given : /\ told' = [told EXCEPT ![r] = <<a>>] /\ a.no = 0
                                  /\ a.ok => k \notin {"receipt", "vat", "plu"}
           \/ told' = told
    PROVE  Answering' /\ Reports' /\ TablesTold /\ Day(device')
           /\ \A s \in Request : /\ s # r => told'[s] = told[s]
                                 /\ told'[s] # <<>> /\ kind'[s] = "receipt" /\ told'[s][1].ok
                                      => Sold(device', s)
<1>0. /\ \A s \in DOMAIN kind : kind'[s] = kind[s]
      /\ DOMAIN kind' = DOMAIN kind \cup {r} /\ kind'[r] = k /\ r \notin DOMAIN kind
      /\ told[r] = <<>> /\ device' = device /\ driver' = driver
      /\ told \in [Request -> {<<>>} \cup Seq(Given)]
      /\ \A s \in Request : told[s] # <<>> => s \in DOMAIN kind
  BY NewRequest DEF IInv, Answering
<1>1. CASE told' = told
  <2>1. Answering'
    BY <1>0, <1>1 DEF IInv, Answering, Given, Knowledge
  <2>2. Reports'
    <3>1. \A s \in Request : told[s] # <<>> /\ kind'[s] = "zreport" => kind[s] = "zreport"
      BY <1>0
    <3> QED
      BY <1>0, <1>1, <3>1 DEF IInv, Reports, Answered, Answer
  <2>3. TablesTold
    BY <1>1 DEF TablesTold
  <2>4. \A s \in Request : told[s] # <<>> /\ kind'[s] = "receipt" /\ told[s][1].ok
                              => Sold(device, s)
    BY <1>0 DEF IInv, Sales, Answered, Answer
  <2> QED
    BY <1>0, <1>1, <2>1, <2>2, <2>3, <2>4 DEF IInv, Sales
<1>2. CASE /\ run' = run /\ queue' = queue
           /\ \E a \in Given : /\ told' = [told EXCEPT ![r] = <<a>>] /\ a.no = 0
                               /\ a.ok => k \notin {"receipt", "vat", "plu"}
  <2>1. PICK a \in Given : /\ told' = [told EXCEPT ![r] = <<a>>] /\ a.no = 0
                           /\ a.ok => k \notin {"receipt", "vat", "plu"}
    BY <1>2
  <2>2. <<a>> # <<>> /\ <<a>> \in Seq(Given) /\ Len(<<a>>) = 1 /\ <<a>>[1] = a
    OBVIOUS
  <2>3. /\ told'[r] = <<a>> /\ \A s \in Request : s # r => told'[s] = told[s]
        /\ told' \in [Request -> {<<>>} \cup Seq(Given)]
    BY <1>0, <2>1, <2>2
  <2>4. Answering'
    <3>1. \A s \in Request : told'[s] # <<>> => s \in DOMAIN kind' /\ Len(told'[s]) = 1
      BY <1>0, <2>2, <2>3 DEF IInv, Answering
    <3> QED
      BY <2>3, <3>1 DEF Answering, Given, Knowledge
  <2>5. Reports'
    <3>1. \A s \in Request : told'[s] # <<>> /\ kind'[s] = "zreport" /\ told'[s][1].no > 0 =>
              told'[s] = told[s] /\ told[s] # <<>> /\ kind[s] = "zreport"
      BY <1>0, <2>1, <2>2, <2>3
    <3> QED
      BY <1>0, <3>1 DEF IInv, Reports, Answered, Answer
  <2>6. TablesTold
    BY <1>0, <2>1, <2>2, <2>3 DEF TablesTold
  <2>7. \A s \in Request : told'[s] # <<>> /\ kind'[s] = "receipt" /\ told'[s][1].ok
                              => Sold(device', s)
    BY <1>0, <2>1, <2>2, <2>3 DEF IInv, Sales, Answered, Answer
  <2> QED
    BY <1>0, <2>3, <2>4, <2>5, <2>6, <2>7 DEF IInv, Sales
<1> QED
  BY <1>1, <1>2

\* A request arrives: it is answered at once, holds the lock, or waits.
LEMMA PostKeeps ==
    ASSUME IInv, NEW k \in Kind, Post(k)
    PROVE  IInv' /\ TablesTold
<1> DEFINE r == Len(kind) + 1
<1>0. /\ r \in Request /\ kind' = Append(kind, k)
      /\ UNCHANGED <<driver, device, cache, kept, faults, restarts>>
      /\ run.of \in Request \cup {NoOne} /\ NoOne \notin Request
      /\ queue \in Seq(Request) /\ Len(queue) \in Nat /\ DOMAIN queue = 1..Len(queue)
      /\ Items \in Nat \ {0}
      /\ run.of # NoOne => run.of \in DOMAIN kind
  BY RoutesTypes DEF Post, IInv, Holding
<1> HIDE DEF r
<1>n. /\ r = Len(kind) + 1
      /\ kind' \in Seq(Kind \cup {"dropped"}) /\ Len(kind') <= MaxRequests
      /\ DOMAIN kind' = DOMAIN kind \cup {r} /\ kind'[r] = k
      /\ \A s \in DOMAIN kind : kind'[s] = kind[s]
      /\ r \notin DOMAIN kind /\ told[r] = <<>> /\ ~Sold(device, r)
      /\ r # run.of /\ r \notin ToSet(queue)
  BY <1>0, NewRequest DEF r
<1>1. CASE /\ run' = run /\ queue' = queue
           /\ \E a \in Given : /\ told' = [told EXCEPT ![r] = <<a>>] /\ a.no = 0
                               /\ a.ok => k \notin {"receipt", "vat", "plu"}
  <2>1. /\ Answering' /\ Reports' /\ TablesTold /\ Day(device')
        /\ \A s \in Request : /\ s # r => told'[s] = told[s]
                              /\ told'[s] # <<>> /\ kind'[s] = "receipt" /\ told'[s][1].ok
                                   => Sold(device', s)
    <3>1. PICK a \in Given : /\ told' = [told EXCEPT ![r] = <<a>>] /\ a.no = 0
                             /\ a.ok => k \notin {"receipt", "vat", "plu"}
      BY <1>1
    <3>2. told \in [Request -> {<<>>} \cup Seq(Given)]
      BY DEF IInv, Answering
    <3>3. \A s \in Request : s # r => told'[s] = told[s]
      BY <1>0, <3>1, <3>2
    <3> QED
      BY <1>0, <1>1, <1>n, <3>3, PostLeaves
  <2>2. TypeOK'
    <3>1. \A s \in Request : told'[s] # <<>> => s # run.of /\ s \notin ToSet(queue)
      BY <1>n, <2>1 DEF IInv, TypeOK
    <3> QED
      BY <1>0, <1>1, <1>n, <3>1 DEF IInv, TypeOK, Device, IsInjective, ToSet, Knowledge
  <2>3. Holding' /\ Queued' /\ Programmed'
    <3>1. Holding'
      BY <1>0, <1>1, <1>n DEF IInv, Holding, StepsOf
    <3>2. Queued'
      BY <1>1, <1>n DEF IInv, Queued
    <3>3. Programmed'
      BY <1>0, <1>1, <1>n DEF IInv, Programmed
    <3> QED
      BY <3>1, <3>2, <3>3
  <2>4. Sales'
    <3>1. ToSet(queue)' = ToSet(queue)
      BY <1>1 DEF ToSet
    <3>2. \A s \in Request : Sold(device, s) =>
             /\ s \in DOMAIN kind' /\ kind'[s] \in {"receipt", "dropped"}
             /\ s \notin ToSet(queue)
             /\ s = run.of => run.step \notin {"open", "sell"}
      BY <1>n DEF IInv, Sales
    <3>3. run.of # NoOne /\ kind'[run.of] = "receipt" /\ run.step = "detect" =>
             Sold(device, run.of)
      BY <1>0, <1>n DEF IInv, Sales
    <3> QED
      BY <1>0, <1>1, <2>1, <3>1, <3>2, <3>3 DEF Sales, Answered, Answer, Sold, Day
  <2> QED
    BY <2>1, <2>2, <2>3, <2>4 DEF IInv
<1>2. CASE Enter(r) /\ told' = told
  <2>0. /\ \/ run = Free /\ run' = [Free EXCEPT !.of = r] /\ queue' = queue /\ queue = <<>>
           \/ queue' = Append(queue, r) /\ run' = run
    BY <1>2 DEF Enter
  <2>1. /\ Answering' /\ Reports' /\ TablesTold /\ Day(device')
        /\ \A s \in Request : told[s] # <<>> /\ kind'[s] = "receipt" /\ told[s][1].ok
                                   => Sold(device', s)
    BY <1>0, <1>2, <1>n, PostLeaves
  <2>2. CASE run = Free /\ run' = [Free EXCEPT !.of = r] /\ queue' = queue /\ queue = <<>>
    <3>1. /\ run'.of = r /\ run'.step = "open" /\ run'.item = 1 /\ run'.errors = {}
          /\ run' \in [of : Request \cup {NoOne}, errors : SUBSET (1..Items), item : 1..Items,
                step : {"open", "report", "one", "program", "read", "item", "cancel",
                        "status", "detect", "sell"}]
      <4>1. 1 \in 1..Items
        BY <1>0
      <4> QED
        BY <1>0, <2>2, <4>1 DEF Free
    <3>2. ToSet(queue) = {} /\ ToSet(queue)' = ToSet(queue) /\ DOMAIN queue' = {}
      BY <2>2 DEF ToSet
    <3>3. TypeOK'
      <4>1. \A s \in Request : told[s] # <<>> => s # run'.of
        BY <1>n, <3>1
      <4> QED
        BY <1>0, <1>2, <1>n, <2>2, <3>1, <3>2, <4>1 DEF IInv, TypeOK, Device, IsInjective, Knowledge
    <3>4. Holding' /\ Queued' /\ Programmed'
      BY <1>0, <1>n, <3>1, <3>2 DEF Holding, Queued, Programmed
    <3>5. Sales'
      <4>1. \A s \in Request : Sold(device, s) =>
               /\ s \in DOMAIN kind' /\ kind'[s] \in {"receipt", "dropped"}
               /\ s # run'.of
        BY <1>n, <3>1 DEF IInv, Sales
      <4> QED
        BY <1>0, <1>2, <2>1, <3>1, <3>2, <4>1 DEF Sales, Answered, Answer, Sold, Day
    <3> QED
      BY <2>1, <3>3, <3>4, <3>5 DEF IInv
  <2>3. CASE queue' = Append(queue, r) /\ run' = run
    <3>1. /\ queue' \in Seq(Request) /\ Len(queue') = Len(queue) + 1
          /\ queue'[Len(queue) + 1] = r
          /\ \A i \in 1..Len(queue) : queue'[i] = queue[i]
      BY <1>0, <2>3, AppendProperties
    <3>2. DOMAIN queue' = 1..(Len(queue) + 1)
      BY <3>1, LenProperties
    <3>3. /\ \A i \in DOMAIN queue' : \/ i \in DOMAIN queue /\ queue'[i] = queue[i]
                                      \/ i = Len(queue) + 1 /\ queue'[i] = r
          /\ \A i \in DOMAIN queue : i # Len(queue) + 1 /\ queue[i] # r
      BY <1>0, <1>n, <3>1, <3>2 DEF ToSet
    <3>4. ToSet(queue') = ToSet(queue) \cup {r}
      BY <1>0, <3>1, <3>2, <3>3 DEF ToSet
    <3>5. IsInjective(queue')
      BY <3>3 DEF IInv, TypeOK, IsInjective
    <3>6. TypeOK'
      <4>1. \A s \in Request : told[s] # <<>> => s # run.of /\ s \notin ToSet(queue')
        BY <1>n, <3>4 DEF IInv, TypeOK
      <4>2. run.of \notin ToSet(queue')
        BY <1>n, <3>4 DEF IInv, TypeOK
      <4> QED
        BY <1>0, <1>2, <1>n, <2>3, <3>1, <3>5, <4>1, <4>2
           DEF IInv, TypeOK, Device, IsInjective, ToSet, Knowledge
    <3>7. Holding' /\ Queued' /\ Programmed'
      <4>1. Holding'
        BY <1>0, <1>n, <2>3 DEF IInv, Holding, StepsOf
      <4>2. Queued'
        BY <1>n, <3>3 DEF IInv, Queued
      <4>3. Programmed'
        BY <1>0, <1>n, <2>3 DEF IInv, Programmed
      <4> QED
        BY <4>1, <4>2, <4>3
    <3>8. Sales'
      <4>1. ToSet(queue)' = ToSet(queue')
        BY DEF ToSet
      <4>2. \A s \in Request : Sold(device, s) =>
               /\ s \in DOMAIN kind' /\ kind'[s] \in {"receipt", "dropped"}
               /\ s \notin ToSet(queue')
               /\ s = run.of => run.step \notin {"open", "sell"}
        BY <1>n, <3>4 DEF IInv, Sales
      <4>3. run.of # NoOne /\ kind'[run.of] = "receipt" /\ run.step = "detect" =>
               Sold(device, run.of)
        BY <1>0, <1>n DEF IInv, Sales
      <4> QED
        BY <1>0, <1>2, <2>1, <2>3, <4>1, <4>2, <4>3 DEF Sales, Answered, Answer, Sold, Day
    <3> QED
      BY <2>1, <3>6, <3>7, <3>8 DEF IInv
  <2> QED
    BY <2>0, <2>2, <2>3
<1>3. CASE AnswersAtOnce(k) /\ UNCHANGED <<run, queue>>
           /\ Tell(r, CASE k = "info" -> Info(cache) [] k = "status" -> Yes
                         [] OTHER -> Nothing)
  <2>1. PICK a \in Given : told' = [told EXCEPT ![r] = <<a>>] /\ a.no = 0
    BY <1>3, AnswersGiven, RoutesTypes DEF Tell
  <2>2. k \notin {"receipt", "plu"} /\ (k = "vat" => ~Nothing.ok)
    BY <1>3, AnswersGiven DEF AnswersAtOnce
  <2> QED
    BY <1>1, <1>3, <2>1, <2>2, AnswersGiven DEF Tell
<1> QED
  BY <1>0, <1>2, <1>3 DEF Post, r

\* A waiter gone from a queue without repetitions.
LEMMA RemovedWaiter ==
    ASSUME NEW q \in Seq(Request), IsInjective(q), NEW n \in DOMAIN q, NEW t, t = RemoveAt(q, n)
    PROVE  /\ t \in Seq(Request) /\ IsInjective(t) /\ q[n] \notin ToSet(t)
           /\ ToSet(t) \subseteq ToSet(q)
           /\ \A i \in DOMAIN t : \E j \in DOMAIN q : t[i] = q[j]
<1>0. Len(q) \in Nat /\ DOMAIN q = 1..Len(q) /\ n \in 1..Len(q)
  BY LenProperties
<1> DEFINE a == SubSeq(q, 1, n - 1)
           b == SubSeq(q, n + 1, Len(q))
<1>1. /\ a \in Seq(Request) /\ Len(a) = n - 1 /\ \A i \in 1..(n - 1) : a[i] = q[i]
  <2>1. \A i \in 1..(n - 1) : q[i] \in Request
    BY <1>0, ElementOfSeq
  <2> QED
    BY <1>0, <2>1, SubSeqProperties
<1>2. /\ b \in Seq(Request) /\ Len(b) = Len(q) - n
      /\ \A i \in 1..(Len(q) - n) : b[i] = q[n + i]
  <2>1. \A i \in (n + 1)..Len(q) : q[i] \in Request
    BY <1>0, ElementOfSeq
  <2> QED
    BY <1>0, <2>1, SubSeqProperties
<1>3. t = a \o b
  BY DEF RemoveAt
<1> HIDE DEF a, b
<1>4. /\ t \in Seq(Request) /\ Len(t) = Len(q) - 1 /\ DOMAIN t = 1..(Len(q) - 1)
      /\ \A i \in 1..Len(t) : t[i] = IF i <= Len(a) THEN a[i] ELSE b[i - Len(a)]
  <2>1. /\ a \o b \in Seq(Request) /\ Len(a \o b) = Len(a) + Len(b)
        /\ \A i \in 1..Len(a) + Len(b) : (a \o b)[i] = IF i <= Len(a) THEN a[i] ELSE b[i - Len(a)]
    BY <1>1, <1>2, ConcatProperties
  <2>2. Len(t) = Len(q) - 1
    BY <1>0, <1>1, <1>2, <1>3, <2>1
  <2>3. DOMAIN t = 1..Len(t)
    BY <1>3, <2>1, LenProperties
  <2> QED
    BY <1>3, <2>1, <2>2, <2>3
<1>5. ASSUME NEW i \in DOMAIN t
      PROVE  t[i] = IF i < n THEN q[i] ELSE q[i + 1]
  <2>1. CASE i < n
    BY <1>0, <1>1, <1>4, <2>1
  <2>2. CASE ~(i < n)
    <3>1. i - (n - 1) \in 1..(Len(q) - n) /\ n + (i - (n - 1)) = i + 1
      BY <1>0, <1>4, <2>2
    <3> QED
      BY <1>0, <1>1, <1>2, <1>4, <2>2, <3>1
  <2> QED
    BY <2>1, <2>2
<1>6. ASSUME NEW i \in DOMAIN t
      PROVE  /\ i \in DOMAIN q /\ i + 1 \in DOMAIN q /\ i \in Nat
             /\ \E j \in DOMAIN q : t[i] = q[j] /\ j # n /\ j = IF i < n THEN i ELSE i + 1
  BY <1>0, <1>4, <1>5
<1>7. q[n] \notin ToSet(t)
  <2>1. \A i \in DOMAIN t : t[i] # q[n]
    BY <1>6 DEF IsInjective
  <2> QED
    BY <2>1 DEF ToSet
<1>8. IsInjective(t)
  <2> SUFFICES ASSUME NEW i \in DOMAIN t, NEW j \in DOMAIN t, t[i] = t[j]
               PROVE  i = j
    BY DEF IsInjective
  <2>1. PICK x \in DOMAIN q : t[i] = q[x] /\ x = IF i < n THEN i ELSE i + 1
    BY <1>6
  <2>2. PICK y \in DOMAIN q : t[j] = q[y] /\ y = IF j < n THEN j ELSE j + 1
    BY <1>6
  <2>3. x = y
    BY <2>1, <2>2 DEF IsInjective
  <2> QED
    BY <1>0, <1>6, <2>1, <2>2, <2>3
<1> QED
  BY <1>4, <1>6, <1>7, <1>8 DEF ToSet

\* A request for the status or the information gives up, wherever it is.
LEMMA GiveUpKeeps ==
    ASSUME IInv, NEW r \in Request, GiveUp(r)
    PROVE  IInv' /\ TablesTold
<1>0. /\ r \in DOMAIN kind /\ kind[r] \in {"status", "info"} /\ told[r] = <<>>
      /\ UNCHANGED <<driver, device, kind, cache, kept, restarts>>
      /\ kind' = kind /\ device' = device
      /\ run' = IF run.of = r THEN Free ELSE run
      /\ faults' \in 0..MaxFaults
      /\ run.of \in Request \cup {NoOne} /\ NoOne \notin Request /\ Items \in Nat \ {0}
      /\ queue \in Seq(Request) /\ IsInjective(queue)
      /\ told \in [Request -> {<<>>} \cup Seq(Given)]
  <2>1. faults \in 0..MaxFaults /\ MaxFaults \in Nat
    BY RoutesAssumption DEF IInv, TypeOK
  <2>2. faults' \in 0..MaxFaults
    BY <2>1 DEF GiveUp, Fault
  <2> QED
    BY <2>2, RoutesTypes DEF GiveUp, IInv, TypeOK, Answering
<1>1. PICK a \in Given : told' = [told EXCEPT ![r] = <<a>>] /\ a.no = 0
  BY AnswersGiven, RoutesTypes DEF GiveUp, Tell
<1>2. <<a>> # <<>> /\ <<a>> \in Seq(Given) /\ Len(<<a>>) = 1 /\ <<a>>[1] = a
  OBVIOUS
<1>3. /\ told'[r] = <<a>> /\ \A s \in Request : s # r => told'[s] = told[s]
      /\ told' \in [Request -> {<<>>} \cup Seq(Given)]
  BY <1>0, <1>1, <1>2
<1>q. /\ queue' \in Seq(Request) /\ IsInjective(queue') /\ r \notin ToSet(queue')
      /\ ToSet(queue') \subseteq ToSet(queue)
      /\ \A i \in DOMAIN queue' : \E j \in DOMAIN queue : queue'[i] = queue[j]
  <2>1. CASE r \notin ToSet(queue) /\ UNCHANGED queue
    BY <1>0, <2>1
  <2>2. CASE \E n \in DOMAIN queue : queue[n] = r /\ queue' = RemoveAt(queue, n)
    BY <1>0, <2>2, RemovedWaiter
  <2> QED
    BY <2>1, <2>2 DEF GiveUp
<1>f. Free.of = NoOne /\ Free.step = "open" /\ Free.item = 1 /\ Free.errors = {}
  BY DEF Free
<1>r. run'.of # r /\ (run'.of # NoOne => run' = run)
  BY <1>0, <1>f
<1>4. TypeOK'
  <2>1. run' \in [of : Request \cup {NoOne}, errors : SUBSET (1..Items), item : 1..Items,
                step : {"open", "report", "one", "program", "read", "item", "cancel",
                        "status", "detect", "sell"}]
    <3>1. 1 \in 1..Items
      BY <1>0
    <3> QED
      BY <1>0, <3>1 DEF Free, IInv, TypeOK
  <2>2. \A s \in Request : told'[s] # <<>> => s # run'.of /\ s \notin ToSet(queue')
    BY <1>0, <1>3, <1>q, <1>r DEF IInv, TypeOK
  <2>3. run'.of \notin ToSet(queue')
    <3>1. NoOne \notin ToSet(queue)
      BY <1>0, RoutesTypes DEF ToSet
    <3> QED
      BY <1>q, <1>r, <3>1 DEF IInv, TypeOK
  <2> QED
    BY <1>0, <1>q, <2>1, <2>2, <2>3 DEF IInv, TypeOK, Device, IsInjective, ToSet, Knowledge
<1>5. Answering'
  <2>1. \A s \in Request : told'[s] # <<>> => s \in DOMAIN kind /\ Len(told'[s]) = 1
    BY <1>0, <1>2, <1>3 DEF IInv, Answering
  <2> QED
    BY <1>0, <1>3, <2>1 DEF Answering, Given, Knowledge
<1>6. Holding' /\ Queued' /\ Programmed'
  <2>1. Holding'
    BY <1>0, <1>r DEF IInv, Holding, StepsOf
  <2>2. Queued'
    BY <1>0, <1>q DEF IInv, Queued
  <2>3. Programmed'
    BY <1>0, <1>r DEF IInv, Programmed
  <2> QED
    BY <2>1, <2>2, <2>3
<1>7. Sales'
  <2>1. ToSet(queue)' = ToSet(queue')
    BY DEF ToSet
  <2>2. \A s \in Request : Sold(device, s) =>
           /\ s \in DOMAIN kind /\ kind[s] \in {"receipt", "dropped"}
           /\ s \notin ToSet(queue')
           /\ s = run'.of => run'.step \notin {"open", "sell"}
    BY <1>0, <1>q, <1>r DEF IInv, Sales
  <2>3. \A s \in Request : told'[s] # <<>> /\ kind[s] = "receipt" /\ told'[s][1].ok
                              => Sold(device, s)
    BY <1>0, <1>3 DEF IInv, Sales, Answered, Answer
  <2>4. run'.of # NoOne /\ kind[run'.of] = "receipt" /\ run'.step = "detect" =>
           Sold(device, run'.of)
    BY <1>r DEF IInv, Sales
  <2>5. Day(device)
    BY DEF IInv, Sales
  <2> QED
    BY <1>0, <2>1, <2>2, <2>3, <2>4, <2>5 DEF Sales, Answered, Answer, Sold, Day
<1>8. Reports'
  <2>1. \A s \in Request : told'[s] # <<>> /\ kind'[s] = "zreport" =>
            told'[s] = told[s] /\ told[s] # <<>> /\ kind[s] = "zreport"
    BY <1>0, <1>3
  <2> QED
    BY <1>0, <2>1 DEF IInv, Reports, Answered, Answer
<1>9. TablesTold
  BY <1>0, <1>3 DEF TablesTold
<1> QED
  BY <1>4, <1>5, <1>6, <1>7, <1>8, <1>9 DEF IInv

\* A restart drops the requests that have no answer; what was sold and told
\* stays.
LEMMA RestartKeeps ==
    ASSUME IInv, Restart
    PROVE  IInv' /\ TablesTold
<1>0. /\ kind' = [r \in DOMAIN kind |-> IF told[r] = <<>> THEN "dropped" ELSE kind[r]]
      /\ device' = device /\ driver' = driver /\ told' = told /\ faults' = faults
      /\ run' = Free /\ queue' = <<>> /\ cache' = kept /\ kept' = kept
      /\ restarts' \in 0..MaxRestarts
      /\ DOMAIN kind = 1..Len(kind) /\ Len(kind) \in Nat
      /\ \A r \in DOMAIN kind : kind[r] \in Kind \cup {"dropped"}
      /\ Items \in Nat \ {0} /\ NoOne \notin Request
  <2>1. restarts \in 0..MaxRestarts /\ MaxRestarts \in Nat
    BY RoutesAssumption DEF IInv, TypeOK
  <2>2. restarts' \in 0..MaxRestarts
    BY <2>1 DEF Restart
  <2> QED
    BY <2>2, RoutesTypes DEF Restart
<1>k. /\ DOMAIN kind' = DOMAIN kind
      /\ \A r \in DOMAIN kind : kind'[r] \in {kind[r], "dropped"}
      /\ \A r \in Request : told[r] # <<>> => kind'[r] = kind[r] /\ r \in DOMAIN kind
      /\ kind' \in Seq(Kind \cup {"dropped"}) /\ Len(kind') = Len(kind)
  <2>1. kind' \in Seq(Kind \cup {"dropped"}) /\ Len(kind') = Len(kind)
    <3>1. kind' \in [1..Len(kind) -> Kind \cup {"dropped"}]
      BY <1>0
    <3> QED
      BY <1>0, <3>1, SeqDef, LenProperties
  <2>2. \A r \in Request : told[r] # <<>> => kind'[r] = kind[r] /\ r \in DOMAIN kind
    BY <1>0 DEF IInv, Answering
  <2> QED
    BY <1>0, <2>1, <2>2
<1>f. /\ Free.of = NoOne /\ Free.step = "open" /\ Free.item = 1 /\ Free.errors = {}
      /\ Free \in [of : Request \cup {NoOne}, errors : SUBSET (1..Items), item : 1..Items,
                step : {"open", "report", "one", "program", "read", "item", "cancel",
                        "status", "detect", "sell"}]
  <2>1. 1 \in 1..Items
    BY <1>0
  <2> QED
    BY <2>1 DEF Free
<1>s. queue' \in Seq(Request) /\ DOMAIN queue' = {} /\ ToSet(queue') = {} /\ IsInjective(queue')
  BY <1>0 DEF ToSet, IsInjective
<1>1. TypeOK'
  BY <1>0, <1>f, <1>k, <1>s DEF IInv, TypeOK, Device, IsInjective, ToSet, Knowledge
<1>2. Answering'
  BY <1>0, <1>k DEF IInv, Answering, Given, Knowledge
<1>3. Holding' /\ Queued' /\ Programmed'
  BY <1>0, <1>f, <1>s DEF Holding, Queued, Programmed
<1>4. Sales'
  <2>1. ToSet(queue)' = {}
    BY <1>s DEF ToSet
  <2>2. \A r \in Request : Sold(device, r) =>
           r \in DOMAIN kind' /\ kind'[r] \in {"receipt", "dropped"}
    BY <1>k DEF IInv, Sales
  <2>3. \A r \in Request : told[r] # <<>> /\ kind'[r] = "receipt" /\ told[r][1].ok
                              => Sold(device, r)
    BY <1>k DEF IInv, Sales, Answered, Answer
  <2>4. Day(device) /\ run'.of = NoOne
    BY <1>0, <1>f DEF IInv, Sales
  <2>5. \A r \in Request : r # run'.of
    BY <1>0, <2>4
  <2> QED
    BY <1>0, <2>1, <2>2, <2>3, <2>4, <2>5 DEF Sales, Answered, Answer, Sold, Day
<1>5. Reports'
  <2>1. \A r \in Request : told[r] # <<>> => kind'[r] = kind[r]
    BY <1>k
  <2> QED
    BY <1>0, <2>1 DEF IInv, Reports, Answered, Answer
<1>6. TablesTold
  BY <1>0 DEF TablesTold
<1> QED
  BY <1>1, <1>2, <1>3, <1>4, <1>5, <1>6 DEF IInv

-----------------------------------------------------------------------------
(* The theorems.                                                           *)

LEMMA RoutesInit ==
    ASSUME Init
    PROVE  IInv
<1>0. /\ MaxRequests \in Nat /\ MaxFaults \in Nat /\ MaxRestarts \in Nat
      /\ Items \in Nat \ {0} /\ NoOne \notin Request
  BY RoutesAssumption DEF Request, NoOne
<1>1. /\ driver \in {"pm", "icp"} /\ kind = <<>> /\ queue = <<>> /\ run = Free
      /\ told = [r \in Request |-> <<>>]
      /\ device = [turnover |-> {}, reports |-> <<>>, open |-> FALSE, rates |-> NoOne,
                   plu |-> [i \in 1..Items |-> NoOne]]
      /\ cache = "none" /\ kept = "none" /\ faults = 0 /\ restarts = 0
  BY DEF Init
<1>2. device \in Device /\ Len(device.reports) = 0 /\ device.turnover = {}
  BY <1>1 DEF Device
<1>f. /\ Free.of = NoOne
      /\ Free \in [of : Request \cup {NoOne}, errors : SUBSET (1..Items), item : 1..Items,
                step : {"open", "report", "one", "program", "read", "item", "cancel",
                        "status", "detect", "sell"}]
  <2>1. 1 \in 1..Items
    BY <1>0
  <2> QED
    BY <2>1 DEF Free
<1>q. queue \in Seq(Request) /\ DOMAIN queue = {} /\ ToSet(queue) = {} /\ IsInjective(queue)
  BY <1>1 DEF ToSet, IsInjective
<1>3. TypeOK
  <2>1. kind \in Seq(Kind \cup {"dropped"}) /\ Len(kind) <= MaxRequests
    BY <1>0, <1>1
  <2>2. faults \in 0..MaxFaults /\ restarts \in 0..MaxRestarts
    BY <1>0, <1>1
  <2> QED
    BY <1>1, <1>2, <1>f, <1>q, <2>1, <2>2 DEF TypeOK, Device, Knowledge
<1>4. Answering /\ Holding /\ Queued /\ Reports /\ Programmed
  BY <1>1, <1>f, <1>q DEF Answering, Holding, Queued, Reports, Programmed, Answered
<1>5. Sales
  <2>1. \A r : ~Sold(device, r)
    BY <1>2 DEF Sold
  <2>2. Day(device)
    BY <1>2 DEF Day
  <2> QED
    BY <1>1, <1>f, <2>1, <2>2 DEF Sales, Answered
<1> QED
  BY <1>3, <1>4, <1>5 DEF IInv

LEMMA RoutesStep ==
    ASSUME IInv, [Next]_vars
    PROVE  IInv' /\ (TablesTold \/ UNCHANGED vars)
<1>1. CASE \E k \in Kind : Post(k)
  BY <1>1, PostKeeps
<1>2. CASE Acquire
  BY <1>2, AcquireKeeps
<1>3. CASE Open
  BY <1>3, OpenKeeps
<1>4. CASE Step
  BY <1>4, StepKeeps
<1>5. CASE \E r \in Request : GiveUp(r)
  BY <1>5, GiveUpKeeps
<1>6. CASE Restart
  BY <1>6, RestartKeeps
<1>7. CASE UNCHANGED vars
  <2>1. /\ driver' = driver /\ device' = device /\ kind' = kind /\ run' = run /\ queue' = queue
        /\ told' = told /\ cache' = cache /\ kept' = kept /\ faults' = faults
        /\ restarts' = restarts
    BY <1>7 DEF vars
  <2>2. TypeOK' /\ Holding' /\ Queued' /\ Programmed'
    BY <2>1 DEF IInv, TypeOK, Holding, Queued, Programmed, IsInjective, ToSet, StepsOf, Knowledge
  <2>3. Answering'
    BY <2>1 DEF IInv, Answering, Given, Knowledge
  <2>4. Reports'
    BY <2>1 DEF IInv, Reports, Answered, Answer
  <2>5. Sales'
    <3>1. ToSet(queue)' = ToSet(queue)
      BY <2>1 DEF ToSet
    <3> QED
      BY <2>1, <3>1 DEF IInv, Sales, Answered, Answer, Sold, Day
  <2> QED
    BY <1>7, <2>2, <2>3, <2>4, <2>5 DEF IInv
<1> QED
  BY <1>1, <1>2, <1>3, <1>4, <1>5, <1>6, <1>7 DEF Next

\* The invariant holds, whatever the routes of the requests, the faults of the
\* device and the restarts of the process: a sale is in one report or in the
\* running day, a told report is one of the device's and told to one request,
\* and the holder of the lock is alone with the device.
THEOREM RoutesInvariant == Spec => []IInv
<1>1. Init => IInv
  BY RoutesInit
<1>2. IInv /\ [Next]_vars => IInv'
  BY RoutesStep
<1> QED
  BY <1>1, <1>2, PTL DEF Spec

\* TypeOK: the lock is never held by one of its waiters, nobody waits twice,
\* and whoever has an answer neither holds it nor waits.
THEOREM RoutesTypeCorrect == Spec => []TypeOK
<1>1. IInv => TypeOK
  BY DEF IInv
<1> QED
  BY <1>1, RoutesInvariant, PTL

\* TotalsAreTheReports: the totals of a Z report that a till is told are those
\* of the report with that number and of no other till's, and a receipt
\* answered ok=true is in one report or in the running day.
THEOREM TotalsAreReported == Spec => []TotalsAreTheReports
<1>1. ASSUME IInv
      PROVE  TotalsAreTheReports
  <2>1. /\ DOMAIN device.reports = 1..Len(device.reports)
    BY LenProperties DEF IInv, TypeOK
  <2>2. ASSUME NEW r \in Request, Answered(r, "receipt"), Answer(r).ok
        PROVE  LET Z == {n \in DOMAIN device.reports : r \in device.reports[n]}
               IN  IF r \in device.turnover THEN Z = {} ELSE \E n \in Z : Z = {n}
    <3> DEFINE Z == {n \in DOMAIN device.reports : r \in device.reports[n]}
    <3>1. Sold(device, r) /\ Day(device)
      <4>1. Sales
        BY <1>1 DEF IInv
      <4> QED
        BY <2>2, <4>1 DEF Sales, Answered, Answer
    <3>2. CASE r \in device.turnover
      BY <2>1, <3>1, <3>2 DEF Day
    <3>3. CASE r \notin device.turnover
      <4>1. PICK n \in DOMAIN device.reports : r \in device.reports[n]
        BY <2>1, <3>1, <3>3 DEF Sold
      <4>2. Z = {n}
        BY <2>1, <3>1, <4>1 DEF Day
      <4> QED
        BY <3>3, <4>1, <4>2
    <3> QED
      BY <3>2, <3>3
  <2>3. ASSUME NEW r \in Request, Answered(r, "zreport"), Answer(r).no > 0
        PROVE  /\ Answer(r).totals = device.reports[Answer(r).no]
               /\ \A s \in Request : Answered(s, "zreport") /\ Answer(r).no = Answer(s).no => r = s
    <3>1. Reports
      BY <1>1 DEF IInv
    <3> QED
      BY <2>3, <3>1 DEF Reports, Answered, Answer
  <2> QED
    BY <2>2, <2>3 DEF TotalsAreTheReports
<1> QED
  BY <1>1, RoutesInvariant, PTL

\* TablesAreOnesOwn: a PM printer that is said to have been given its VAT
\* rates or its PLU table has that table at that moment.
THEOREM TablesStayOnesOwn == Spec => TablesAreOnesOwn
<1>1. IInv /\ [Next]_vars => [TablesTold]_vars
  BY RoutesStep
<1> QED
  BY <1>1, RoutesInvariant, PTL DEF Spec, TablesAreOnesOwn, TablesTold

-----------------------------------------------------------------------------
(* The serial number in the device information of a PM printer.            *)

\* A request is calm only once it has come; an empty reading is cached, and
\* written to the file, only after a fault; and without one nobody is told it.
CalmPosted == calm \subseteq DOMAIN kind
EmptyNeedsAFault == cache = "empty" \/ kept = "empty" => faults > 0
Informed == faults = 0 => InfoHasTheSerial

\* A request that was calm to the end is told of no serial number only from
\* the cache, which holds an empty reading.
CalmAnswers ==
    \A r \in Request :
        driver = "pm" /\ told[r] = <<>> /\ told'[r] # <<>> /\ kind'[r] = "info" /\ r \in calm'
            => told'[r][1].serial = "known" \/ cache = "empty"

\* The command that asks the device for its numbers is answered or lost.
LEMMA AskedOrLost ==
    ASSUME run.step = "detect", NEW outcome \in {"done", "refused", "lost"}, Command(outcome)
    PROVE  (outcome = "done" /\ NoFault) \/ (outcome = "lost" /\ Fault)
<1>1. /\ run.step \notin {"report", "sell", "cancel", "program", "read"}
      /\ ~Refusable
  BY DEF Refusable
<1>2. ~Forbidden
  BY <1>1 DEF Forbidden, NeedsZReport
<1>3. QED BY <1>1, <1>2 DEF Command

\* What the cache may be after a step, and what became of the faults.
LEMMA CacheStep ==
    ASSUME IInv, [Next]_vars
    PROVE  /\ faults \in Nat
           /\ \/ faults' = faults + 1 /\ calm' = {}
              \/ faults' = faults
           /\ faults' = faults => {cache', kept'} \subseteq {cache, kept, "known"}
<1>1. faults \in Nat
  BY DEF IInv, TypeOK
<1>2. CASE Step
  <2>1. PICK outcome \in {"done", "refused", "lost"} :
          /\ Command(outcome)
          /\ IF run.step = "detect" THEN Learnt(outcome) ELSE Forget
    BY <1>2 DEF Step
  <2>2. NoFault \/ Fault
    BY <2>1 DEF Command
  <2>3. CASE run.step = "detect"
    <3>1. (outcome = "done" /\ NoFault) \/ (outcome = "lost" /\ Fault)
      BY <2>1, <2>3, AskedOrLost
    <3>2. outcome = "done" => cache' = "known" /\ kept' \in {"known", kept}
      BY <2>1, <2>3 DEF Learnt, LearntByPm, LearntByIcp, Cache, Persisted
    <3>3. QED BY <1>1, <3>1, <3>2 DEF NoFault, Fault
  <2>4. CASE run.step # "detect"
    BY <1>1, <2>1, <2>2, <2>4 DEF Forget, NoFault, Fault
  <2>5. QED BY <2>3, <2>4
<1>3. CASE Open
  <2>1. Forget /\ (NoFault \/ Fault)
    BY <1>3 DEF Open
  <2>2. QED BY <1>1, <2>1 DEF Forget, NoFault, Fault
<1>4. CASE \E r \in Request : GiveUp(r)
  BY <1>1, <1>4 DEF GiveUp, Fault
<1>5. CASE (\E k \in Kind : Post(k)) \/ Acquire \/ Restart \/ UNCHANGED vars
  BY <1>1, <1>5 DEF Post, Acquire, Restart, vars
<1>6. QED BY <1>1, <1>2, <1>3, <1>4, <1>5 DEF Next

LEMMA CalmStep ==
    ASSUME IInv, CalmPosted, [Next]_vars
    PROVE  CalmPosted'
<1>1. kind \in Seq(Kind \cup {"dropped"}) /\ DOMAIN kind = 1..Len(kind) /\ Len(kind) \in Nat
  BY RoutesTypes
<1>2. ASSUME NEW k \in Kind, Post(k) PROVE CalmPosted'
  <2>1. kind' = Append(kind, k) /\ calm' \subseteq calm \cup {Len(kind) + 1}
    BY <1>2 DEF Post
  <2>2. DOMAIN kind' = 1..(Len(kind) + 1)
    BY <1>1, <2>1, AppendProperties
  <2>3. QED BY <1>1, <2>1, <2>2 DEF CalmPosted
<1>3. CASE Step
  <2>1. kind' = kind /\ (NoFault \/ Fault)
    BY <1>3 DEF Step, Command
  <2>2. QED BY <2>1 DEF CalmPosted, NoFault, Fault
<1>4. CASE Open
  <2>1. kind' = kind /\ (NoFault \/ Fault)
    BY <1>4 DEF Open
  <2>2. QED BY <2>1 DEF CalmPosted, NoFault, Fault
<1>5. CASE (\E r \in Request : GiveUp(r)) \/ Restart
  BY <1>5 DEF GiveUp, Fault, Restart, CalmPosted
<1>6. CASE Acquire \/ UNCHANGED vars
  BY <1>6 DEF Acquire, vars, CalmPosted
<1>7. QED BY <1>2, <1>3, <1>4, <1>5, <1>6 DEF Next

LEMMA StepInforms ==
    ASSUME IInv, CalmPosted, [Next]_vars, NEW r \in Request, driver = "pm",
           told[r] = <<>>, told'[r] # <<>>, kind'[r] = "info", r \in calm'
    PROVE  told'[r][1].serial = "known" \/ cache = "empty"
<1>0. /\ kind \in Seq(Kind \cup {"dropped"}) /\ DOMAIN kind = 1..Len(kind) /\ Len(kind) \in Nat
      /\ cache \in Knowledge /\ told \in [Request -> {<<>>} \cup Seq(Given)]
      /\ run.of \in Request \cup {NoOne}
  BY RoutesTypes DEF IInv, Answering
<1>1. \A c : Info(c).serial = c
  BY DEF Info, Yes, Nothing
<1>2. ASSUME NEW k \in Kind, Post(k) PROVE told'[r][1].serial = "known" \/ cache = "empty"
  <2>1. r = Len(kind) + 1 /\ kind' = Append(kind, k)
    BY <1>0, <1>2 DEF Post, Tell
  <2>2. k = "info"
    BY <1>0, <2>1, AppendProperties
  <2>3. r \notin calm
    BY <1>0, <2>1 DEF CalmPosted
  <2>4. run = Free
    BY <1>2, <2>1, <2>3 DEF Post
  <2>5. AnswersAtOnce(k) /\ told' = [told EXCEPT ![r] = <<Info(cache)>>]
    BY <1>2, <2>1, <2>2 DEF Post, Tell
  <2>6. cache # "none"
    BY <2>2, <2>4, <2>5 DEF AnswersAtOnce, AsksForInfo
  <2>7. told'[r][1].serial = cache
    BY <1>0, <1>1, <2>5
  <2>8. QED BY <1>0, <2>6, <2>7 DEF Knowledge
<1>3. CASE Step
  <2>1. PICK outcome \in {"done", "refused", "lost"} :
          /\ Command(outcome)
          /\ IF run.step = "detect" THEN Learnt(outcome) ELSE Forget
          /\ CASE run.step = "report" -> Report(outcome)
               [] run.step = "one" -> Simple(outcome)
               [] run.step = "program" -> Program(outcome)
               [] run.step = "read" -> Read(outcome)
               [] run.step = "item" -> Item(outcome)
               [] run.step = "cancel" -> Cancel(outcome)
               [] run.step = "status" -> Status(outcome)
               [] run.step = "sell" -> Sell(outcome)
               [] run.step = "detect" ->
                      Finish(IF kind[run.of] = "status" THEN Yes ELSE Info(cache'))
    BY <1>3 DEF Step
  <2>2. /\ run.of # NoOne /\ run.step # "open" /\ kind' = kind /\ driver' = driver
        /\ run.step \in {"report", "one", "program", "read", "item", "cancel",
                         "status", "detect", "sell"}
    BY <1>3 DEF Step, IInv, TypeOK
  <2>3. told' = told \/ \E a : told' = [told EXCEPT ![run.of] = <<a>>]
    BY <2>1, <2>2 DEF Report, Simple, Program, Read, Item, Cancel, Status, Sell, Finish,
                      Tell, Goto
  <2>4. run.of = r
    BY <1>0, <2>2, <2>3
  <2>5. run.step = "detect"
    BY <2>2, <2>4 DEF IInv, Holding, StepsOf
  <2>6. outcome = "done"
    BY <2>1, <2>5, AskedOrLost DEF Fault
  <2>7. cache' = "known"
    BY <2>1, <2>5, <2>6 DEF Learnt, LearntByPm, LearntByIcp, Cache
  <2>8. told' = [told EXCEPT ![r] = <<Info(cache')>>]
    BY <2>1, <2>2, <2>4, <2>5 DEF Finish, Tell
  <2>9. QED BY <1>0, <1>1, <2>7, <2>8
<1>4. CASE Open
  <2>1. run.of = r
    BY <1>0, <1>4 DEF Open, Goto, Unsupported, Finish, Tell
  <2>2. kind[run.of] = "info"
    BY <1>4, <2>1 DEF Open
  <2>3. Fault
    BY <1>4, <2>1, <2>2 DEF Open, Goto, Unsupported
  <2>4. QED BY <2>3 DEF Fault
<1>5. CASE (\E q \in Request : GiveUp(q)) \/ Acquire \/ Restart \/ UNCHANGED vars
  BY <1>5 DEF GiveUp, Fault, Acquire, Restart, vars
<1>6. QED BY <1>2, <1>3, <1>4, <1>5 DEF Next

LEMMA InformedStep ==
    ASSUME IInv, IInv', CalmPosted, EmptyNeedsAFault, Informed, [Next]_vars
    PROVE  EmptyNeedsAFault' /\ Informed'
<1>1. EmptyNeedsAFault'
  BY CacheStep DEF EmptyNeedsAFault
<1>2. ASSUME faults' = 0, NEW r \in calm', driver' = "pm", Answered(r, "info")'
      PROVE  Answer(r)'.serial = "known"
  <2>1. faults = 0 /\ cache # "empty"
    BY <1>2, CacheStep DEF EmptyNeedsAFault
  <2>2. driver = "pm"
    BY <1>2 DEF Next, Post, Acquire, Open, Step, GiveUp, Restart, vars
  <2>3. r \in Request /\ told'[r] # <<>> /\ kind'[r] = "info"
    <3>1. CalmPosted'
      BY CalmStep
    <3>2. \A q \in DOMAIN kind' : q \in Request
      <4>1. kind' \in Seq(Kind \cup {"dropped"}) /\ Len(kind') <= MaxRequests
        BY DEF IInv, TypeOK
      <4>2. DOMAIN kind' = 1..Len(kind') /\ Len(kind') \in Nat
        BY <4>1, LenProperties
      <4>3. QED BY <4>1, <4>2, RoutesTypes DEF Request
    <3>3. QED BY <1>2, <3>1, <3>2 DEF CalmPosted, Answered
  <2>4. CASE told[r] = <<>>
    <3>1. told'[r][1].serial = "known"
      BY <2>1, <2>2, <2>3, <2>4, <1>2, StepInforms
    <3>2. QED BY <3>1 DEF Answer
  <2>5. CASE told[r] # <<>>
    <3>1. r \in DOMAIN kind /\ r # run.of
      BY <2>3, <2>5 DEF IInv, Answering, TypeOK
    <3>2. r \in calm /\ kind[r] = "info" /\ told'[r] = told[r]
      <4>1. CASE \E k \in Kind : Post(k)
        <5>1. PICK k \in Kind : Post(k)
          BY <4>1
        <5>2. /\ kind' = Append(kind, k) /\ kind \in Seq(Kind \cup {"dropped"})
              /\ Len(kind) \in Nat /\ DOMAIN kind = 1..Len(kind)
          BY <5>1, RoutesTypes DEF Post
        <5>3. r # Len(kind) + 1 /\ kind'[r] = kind[r]
          BY <3>1, <5>2, AppendProperties
        <5>4. calm' \subseteq calm \cup {Len(kind) + 1}
          BY <5>1 DEF Post
        <5>5. told' = told \/ \E a : told' = [told EXCEPT ![Len(kind) + 1] = <<a>>]
          BY <5>1 DEF Post, Tell
        <5>6. told'[r] = told[r]
          BY <2>3, <5>3, <5>5 DEF IInv, Answering
        <5>7. QED BY <1>2, <2>3, <5>3, <5>4, <5>6
      <4>2. CASE Step
        <5>1. /\ kind' = kind /\ calm' \subseteq calm
              /\ run.step \in {"report", "one", "program", "read", "item", "cancel",
                               "status", "detect", "sell"}
          BY <4>2 DEF Step, Command, NoFault, Fault, IInv, TypeOK
        <5>2. told' = told \/ \E a : told' = [told EXCEPT ![run.of] = <<a>>]
          BY <4>2, <5>1 DEF Step, Report, Simple, Program, Read, Item, Cancel, Status, Sell,
                            Finish, Tell, Goto
        <5>3. told'[r] = told[r]
          BY <2>3, <3>1, <5>2 DEF IInv, Answering
        <5>4. QED BY <1>2, <2>3, <5>1, <5>3
      <4>3. CASE Open
        <5>1. kind' = kind /\ calm' \subseteq calm
          BY <4>3 DEF Open, NoFault, Fault
        <5>2. told' = told \/ \E a : told' = [told EXCEPT ![run.of] = <<a>>]
          BY <4>3 DEF Open, Unsupported, Finish, Tell, Goto
        <5>3. told'[r] = told[r]
          BY <2>3, <3>1, <5>2 DEF IInv, Answering
        <5>4. QED BY <1>2, <2>3, <5>1, <5>3
      <4>4. CASE (\E q \in Request : GiveUp(q)) \/ Restart
        BY <1>2, <4>4 DEF GiveUp, Fault, Restart
      <4>5. CASE Acquire \/ UNCHANGED vars
        BY <1>2, <2>3, <4>5 DEF Acquire, vars
      <4>6. QED BY <4>1, <4>2, <4>3, <4>4, <4>5 DEF Next
    <3>3. told[r][1].serial = "known"
      BY <2>1, <2>2, <2>5, <3>2 DEF Informed, InfoHasTheSerial, Answered, Answer
    <3>4. QED BY <3>2, <3>3 DEF Answer
  <2>6. QED BY <2>4, <2>5
<1>3. Informed'
  BY <1>2 DEF Informed, InfoHasTheSerial
<1>4. QED BY <1>1, <1>3

\* Until something goes wrong, a till that asks a PM printer for its
\* information while nobody prints is told the serial number.
THEOREM NoFaultNoMissingSerial == Spec => [](faults = 0 => InfoHasTheSerial)
<1>1. Init => CalmPosted /\ EmptyNeedsAFault /\ Informed
  BY DEF Init, CalmPosted, EmptyNeedsAFault, Informed, InfoHasTheSerial
<1>2. IInv /\ CalmPosted /\ [Next]_vars => CalmPosted'
  BY CalmStep
<1>3. IInv /\ IInv' /\ CalmPosted /\ EmptyNeedsAFault /\ Informed /\ [Next]_vars
        => EmptyNeedsAFault' /\ Informed'
  BY InformedStep
<1>4. Informed => (faults = 0 => InfoHasTheSerial)
  BY DEF Informed
<1>5. QED BY <1>1, <1>2, <1>3, <1>4, RoutesInvariant, PTL DEF Spec

\* And after a fault only the cache, which then holds an empty reading, keeps
\* the serial number from a request that found the printer free and met no
\* fault itself: the one way in which InfoHasTheSerial fails (_device_info).
THEOREM OnlyTheCacheMissesTheSerial == Spec => [][CalmAnswers]_vars
<1>1. Init => CalmPosted
  BY DEF Init, CalmPosted
<1>2. IInv /\ CalmPosted /\ [Next]_vars => CalmPosted'
  BY CalmStep
<1>3. IInv /\ CalmPosted /\ [Next]_vars => [CalmAnswers]_vars
  BY StepInforms DEF CalmAnswers
<1>4. QED BY <1>1, <1>2, <1>3, RoutesInvariant, PTL DEF Spec
==============================================================================
