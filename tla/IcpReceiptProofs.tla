--------------------------- MODULE IcpReceiptProofs ---------------------------
(***************************************************************************)
(* Theorems about IcpReceipt, for any receipts and invoices, retries,      *)
(* buffer of the device, runs and faults.  When a late answer does not     *)
(* reach the next connection (~SerialLine), then although no answer is     *)
(* compared with the command it is taken for, documents do not mix, a      *)
(* receipt is printed at most once (OnceOnly), and a reset is right about  *)
(* the device.  On any line the types hold, and a receipt that may be      *)
(* printed again came out, if it did, by the close of another sale.        *)
(***************************************************************************)
EXTENDS IcpReceipt, SequenceTheorems, TLAPS

-----------------------------------------------------------------------------
(* The inductive invariant.                                                *)

Early == {"open", "openInvoice", "abortInvoice"}
Late == {"comment", "item", "pay", "full", "close", "number", "abort"}
Closers == {"full", "close"}
Single == {"reset", "other"}

Heard(c) == \E i \in DOMAIN toHost : toHost[i] = c

\* The open document, if there is one, is of d.
Mine(d) == doc = NoDoc \/ doc.of = d

\* From here on the device works for the current run, on its document.
Settled == Mine(run.of) /\ \A k \in DOMAIN toDevice : toDevice[k].run = runs

\* The holder of the lock, its row, and the stage its row was marked with.
Running ==
    /\ run = Idle <=> run.step = "idle"
    /\ run # Idle => runs > 0
    /\ run.step \in Early \cup Late <=> run.of \in Document
    /\ run.of \in Sale =>
         /\ row[run.of] = "pending"
         /\ run.step \in Closers \cup {"number"} => run.stage = "closing"
         /\ run.stage = "closing" => run.step \in Closers \cup {"number", "abort"}

\* Requests reach the device in the order of the runs; those of the current
\* run are commands it has sent.
Queued ==
    /\ \A k \in DOMAIN toDevice :
         /\ toDevice[k].run <= runs
         /\ toDevice[k].cmd \in Early \cup Late => toDevice[k].of \in Document
         /\ run # Idle /\ toDevice[k].run = runs =>
              /\ toDevice[k].of = run.of
              /\ run.step \in Early => toDevice[k].cmd \in Early
              /\ run.step \in Single => toDevice[k].cmd = run.step
    /\ \A j, k \in DOMAIN toDevice : j <= k => toDevice[j].run <= toDevice[k].run

\* A command that follows an accepted open finds its own document, or none.
Opened ==
    \A k \in DOMAIN toDevice : toDevice[k].cmd \in Late =>
        /\ Mine(toDevice[k].of)
        /\ \A j \in DOMAIN toDevice : j <= k =>
              toDevice[j].run = toDevice[k].run /\ toDevice[j].of = toDevice[k].of

\* What the host believes to be open is so, whichever answer it believed.
Believed ==
    /\ run.step \in Late => Settled
    /\ run.step \in Early /\ Heard("ok") => Settled
    /\ last.to \in Request /\ last.to.cmd \in Early /\ last.code = "ok" => Mine(last.to.of)
    /\ last.code # "E101"

\* A receipt whose close is on its way, or done, is not printed again.
Sent(r) == \E k \in DOMAIN toDevice : toDevice[k].of = r /\ toDevice[k].cmd \in Closers
Rows ==
    \A r \in Sale : Copies(r) # {} \/ Sent(r) =>
        /\ row[r] \in {"pending", "done"}
        /\ run.of = r => run.stage = "closing"

\* Nor is it opened again.
NotReopened ==
    /\ \A j, k \in DOMAIN toDevice :
         /\ j <= k /\ toDevice[j].cmd \in Closers /\ toDevice[j].of \in Sale
         /\ toDevice[k].of = toDevice[j].of
         => toDevice[k].cmd \in Late
    /\ \A r \in Sale : Copies(r) # {} =>
         /\ doc = NoDoc \/ doc.of # r
         /\ \A k \in DOMAIN toDevice : toDevice[k].of = r => toDevice[k].cmd \in Late

\* Nothing that could be aborted is open once a reset has been answered.
NoneOpen == doc = NoDoc \/ doc.paid
OnlyResets == \A k \in DOMAIN toDevice : toDevice[k].cmd = "reset"
Resets ==
    /\ clean => run = Idle /\ NoneOpen /\ OnlyResets
    /\ run.step = "reset" /\ (Heard("ok") \/ Heard("E404")) => NoneOpen /\ OnlyResets
    /\ last.to \in Request /\ last.to.cmd = "reset" /\ last.code \in {"ok", "E404"} => NoneOpen

Pure(p) == \A k \in 1..Len(p.lines) : p.lines[k] = p.of
Papers == (doc # NoDoc => Pure(doc)) /\ \A k \in 1..Len(printed) : Pure(printed[k])

IInv == /\ TypeOK /\ Running /\ Queued /\ Opened /\ Believed
        /\ Rows /\ NotReopened /\ Resets /\ Papers /\ AtMostOnePrint

LEMMA IcpTypes ==
    ASSUME IInv
    PROVE  /\ MaxRuns \in Nat /\ MaxFaults \in Nat /\ Retries \in Nat \ {0} /\ MaxQueue \in Nat
           /\ NoDoc \notin Document /\ Document = Sale \cup Invoice /\ Sale \cap Invoice = {}
           /\ run \in Run /\ runs \in 0..MaxRuns /\ attempts \in 0..Retries
           /\ toDevice \in Seq(Request) /\ Len(toDevice) \in Nat
           /\ DOMAIN toDevice = 1..Len(toDevice)
           /\ \A k \in DOMAIN toDevice : toDevice[k] \in Request
           /\ toHost \in Seq((Code \ {"E101"}) \cup {"noise"}) /\ Len(toHost) \in Nat
           /\ DOMAIN toHost = 1..Len(toHost)
           /\ \A k \in DOMAIN toHost : toHost[k] \in (Code \ {"E101"}) \cup {"noise"}
           /\ printed \in Seq(Paper) /\ Len(printed) \in Nat
           /\ (doc # NoDoc => doc \in Paper)
<1>1. /\ MaxRuns \in Nat /\ MaxFaults \in Nat /\ Retries \in Nat \ {0} /\ MaxQueue \in Nat
      /\ NoDoc \notin Document /\ Document = Sale \cup Invoice /\ Sale \cap Invoice = {}
  BY IcpAssumption DEF Document
<1>2. /\ run \in Run /\ runs \in 0..MaxRuns /\ attempts \in 0..Retries
      /\ toDevice \in Seq(Request) /\ toHost \in Seq((Code \ {"E101"}) \cup {"noise"})
      /\ printed \in Seq(Paper) /\ (doc # NoDoc => doc \in Paper)
  BY DEF IInv, TypeOK
<1>3. /\ Len(toDevice) \in Nat /\ DOMAIN toDevice = 1..Len(toDevice)
      /\ \A k \in 1..Len(toDevice) : toDevice[k] \in Request
  BY <1>2, LenProperties, ElementOfSeq
<1>4. /\ Len(toHost) \in Nat /\ DOMAIN toHost = 1..Len(toHost)
      /\ \A k \in 1..Len(toHost) : toHost[k] \in (Code \ {"E101"}) \cup {"noise"}
  BY <1>2, LenProperties, ElementOfSeq
<1>5. Len(printed) \in Nat
  BY <1>2, LenProperties
<1> QED
  BY <1>1, <1>2, <1>3, <1>4, <1>5

-----------------------------------------------------------------------------
(* Parts of the invariant that a step of the host or of the wire keeps.    *)

\* Requests may only be lost, answers lost or spoilt, and the device is at
\* rest.
Lossy ==
    /\ UNCHANGED <<last, doc, printed>>
    /\ toDevice' \in Seq(Request)
    /\ \/ toDevice' = toDevice
       \/ toDevice # <<>> /\ toDevice' = Tail(toDevice)
    /\ toHost' \in Seq((Code \ {"E101"}) \cup {"noise"})
    /\ \A c \in Code : Heard(c)' => Heard(c)

\* The requests on the wire are some of those before, in their order.
LEMMA Shorter ==
    ASSUME IInv, toDevice # <<>>, toDevice' = Tail(toDevice)
    PROVE  /\ toDevice' \in Seq(Request) /\ Len(toDevice') \in Nat
           /\ DOMAIN toDevice' = 1..Len(toDevice')
           /\ \A k \in DOMAIN toDevice' :
                 k \in Nat /\ k + 1 \in DOMAIN toDevice /\ toDevice'[k] = toDevice[k + 1]
           /\ 1 \in DOMAIN toDevice /\ Head(toDevice) = toDevice[1]
           /\ \A k \in DOMAIN toDevice : 1 <= k
           /\ \A j, k \in DOMAIN toDevice' : j <= k => j + 1 <= k + 1
<1>0. toDevice \in Seq(Request) /\ Len(toDevice) \in Nat /\ DOMAIN toDevice = 1..Len(toDevice)
  BY IcpTypes
<1>1. /\ Len(toDevice') = Len(toDevice) - 1 /\ toDevice' \in Seq(Request)
      /\ \A i \in 1..Len(toDevice') : toDevice'[i] = toDevice[i + 1]
  BY <1>0, HeadTailProperties
<1>2. DOMAIN toDevice' = 1..Len(toDevice') /\ Head(toDevice) = toDevice[1] /\ Len(toDevice) > 0
  BY <1>0, <1>1, LenProperties, EmptySeq
<1> QED
  BY <1>0, <1>1, <1>2

\* The wire loses something: nothing that is claimed depends on its arrival.
LEMMA LossKeeps ==
    ASSUME IInv, Lossy, UNCHANGED <<run, runs, row, clean>>, attempts' \in 0..Retries,
           faults' \in 0..MaxFaults
    PROVE  IInv'
<1>0. /\ last' = last /\ doc' = doc /\ printed' = printed /\ run' = run /\ runs' = runs
      /\ row' = row /\ clean' = clean
      /\ toDevice' \in Seq(Request) /\ toHost' \in Seq((Code \ {"E101"}) \cup {"noise"})
      /\ \A c \in {"ok", "E404"} : Heard(c)' => Heard(c)
  BY DEF Lossy, Code
<1>1. \A k \in DOMAIN toDevice' : \E i \in DOMAIN toDevice : toDevice'[k] = toDevice[i]
  BY Shorter DEF Lossy
<1>2. \A j, k \in DOMAIN toDevice' : j <= k =>
         \E h, i \in DOMAIN toDevice :
            h <= i /\ toDevice'[j] = toDevice[h] /\ toDevice'[k] = toDevice[i]
  BY Shorter DEF Lossy
<1>3. TypeOK'
  BY <1>0 DEF IInv, TypeOK, Document, Paper, Run, Code, Request, Step
<1>4. Running'
  BY <1>0 DEF IInv, Running, Document
<1>5. Queued'
  BY <1>0, <1>1, <1>2 DEF IInv, Queued
<1>6. Opened'
  <2>1. \A k \in DOMAIN toDevice' : toDevice'[k].cmd \in Late => Mine(toDevice'[k].of)
    BY <1>1 DEF IInv, Opened
  <2>2. \A j, k \in DOMAIN toDevice' : toDevice'[k].cmd \in Late /\ j <= k =>
           toDevice'[j].run = toDevice'[k].run /\ toDevice'[j].of = toDevice'[k].of
    BY <1>2 DEF IInv, Opened
  <2> QED
    BY <1>0, <2>1, <2>2 DEF Opened, Mine
<1>7. Believed'
  <2>1. Settled => Settled'
    BY <1>0, <1>1 DEF Settled, Mine
  <2> QED
    BY <1>0, <2>1 DEF IInv, Believed, Mine, Request, Step
<1>8. Rows'
  <2>1. \A r \in Sale : Sent(r)' => Sent(r)
    BY <1>1 DEF Sent
  <2> QED
    BY <1>0, <2>1 DEF IInv, Rows, Copies
<1>9. NotReopened'
  <2>1. \A j, k \in DOMAIN toDevice' :
         /\ j <= k /\ toDevice'[j].cmd \in Closers /\ toDevice'[j].of \in Sale
         /\ toDevice'[k].of = toDevice'[j].of
         => toDevice'[k].cmd \in Late
    BY <1>2 DEF IInv, NotReopened
  <2>2. \A r \in Sale : Copies(r) # {} =>
         \A k \in DOMAIN toDevice' : toDevice'[k].of = r => toDevice'[k].cmd \in Late
    BY <1>1 DEF IInv, NotReopened
  <2> QED
    BY <1>0, <2>1, <2>2 DEF IInv, NotReopened, Copies
<1>10. Resets'
  <2>1. OnlyResets => OnlyResets'
    BY <1>1 DEF OnlyResets
  <2> QED
    BY <1>0, <2>1 DEF IInv, Resets, NoneOpen, Request, Step
<1>11. Papers' /\ AtMostOnePrint'
  BY <1>0 DEF IInv, Papers, AtMostOnePrint, Pure, Copies
<1> QED
  BY <1>3, <1>4, <1>5, <1>6, <1>7, <1>8, <1>9, <1>10, <1>11 DEF IInv

\* The command the run is at is written (again).
LEMMA WriteKeeps ==
    ASSUME IInv, run # Idle, attempts < Retries, Write,
           UNCHANGED <<run, runs, row, clean, faults, last, doc, printed>>,
           toHost' \in Seq((Code \ {"E101"}) \cup {"noise"}),
           \A c \in Code : Heard(c)' => Heard(c)
    PROVE  IInv'
<1> DEFINE q == [run |-> runs, cmd |-> run.step, of |-> run.of]
<1>0. /\ last' = last /\ doc' = doc /\ printed' = printed /\ run' = run /\ runs' = runs
      /\ row' = row /\ clean' = clean /\ faults' = faults
      /\ attempts' \in 0..Retries /\ faults' \in 0..MaxFaults
      /\ \A c \in {"ok", "E404"} : Heard(c)' => Heard(c)
  <2>1. attempts' \in 0..Retries
    BY IcpTypes DEF Write
  <2>2. faults' \in 0..MaxFaults
    BY DEF IInv, TypeOK
  <2> QED
    BY <2>1, <2>2 DEF Code
<1>1. CASE toDevice' = toDevice
  <2>1. Lossy
    BY <1>1, IcpTypes DEF Lossy
  <2> QED
    BY <1>0, <2>1, LossKeeps
<1>2. CASE toDevice' = Append(toDevice, q)
  <2>0. /\ toDevice \in Seq(Request) /\ Len(toDevice) \in Nat /\ DOMAIN toDevice = 1..Len(toDevice)
        /\ run \in Run /\ runs \in 1..MaxRuns
        /\ \A k \in DOMAIN toDevice : toDevice[k] \in Request
        /\ Sale \subseteq Document /\ NoDoc \notin Document
    BY IcpTypes DEF IInv, Running
  <2>q. q \in Request /\ q.run = runs /\ q.cmd = run.step /\ q.of = run.of
    BY <2>0 DEF Request, Run
  <2> HIDE DEF q
  <2> DEFINE n == Len(toDevice) + 1
  <2>1. /\ toDevice' \in Seq(Request) /\ DOMAIN toDevice' = DOMAIN toDevice \cup {n}
        /\ toDevice'[n] = q /\ \A k \in DOMAIN toDevice : toDevice'[k] = toDevice[k]
        /\ \A k \in DOMAIN toDevice : ~(n <= k)
    <3>1. /\ toDevice' \in Seq(Request) /\ Len(toDevice') = n /\ toDevice'[n] = q
          /\ \A k \in 1..Len(toDevice) : toDevice'[k] = toDevice[k]
      BY <1>2, <2>0, <2>q, AppendProperties
    <3>2. DOMAIN toDevice' = 1..n
      BY <3>1, LenProperties
    <3> QED
      BY <2>0, <3>1, <3>2
  <2> HIDE DEF n
  <2>2. TypeOK'
    BY <1>0, <2>1 DEF IInv, TypeOK, Document, Paper, Run, Code, Request, Step
  <2>3. Running'
    BY <1>0 DEF IInv, Running, Document
  <2>4. Queued'
    <3>1. \A k \in DOMAIN toDevice' :
         /\ toDevice'[k].run <= runs
         /\ toDevice'[k].cmd \in Early \cup Late => toDevice'[k].of \in Document
         /\ toDevice'[k].run = runs =>
              /\ toDevice'[k].of = run.of
              /\ run.step \in Early => toDevice'[k].cmd \in Early
              /\ run.step \in Single => toDevice'[k].cmd = run.step
      BY <2>0, <2>1, <2>q DEF IInv, Queued, Running
    <3>2. \A j, k \in DOMAIN toDevice' : j <= k => toDevice'[j].run <= toDevice'[k].run
      <4> SUFFICES ASSUME NEW j \in DOMAIN toDevice', NEW k \in DOMAIN toDevice', j <= k
                   PROVE  toDevice'[j].run <= toDevice'[k].run
        OBVIOUS
      <4>1. CASE k = n
        BY <2>1, <2>q, <3>1, <4>1
      <4>2. CASE k # n
        BY <2>1, <4>2 DEF IInv, Queued
      <4> QED
        BY <4>1, <4>2
    <3> QED
      BY <1>0, <3>1, <3>2 DEF Queued
  <2>5. Opened'
    <3> SUFFICES ASSUME NEW k \in DOMAIN toDevice', toDevice'[k].cmd \in Late
                 PROVE  /\ Mine(toDevice'[k].of)
                        /\ \A j \in DOMAIN toDevice' : j <= k =>
                             toDevice'[j].run = toDevice'[k].run /\ toDevice'[j].of = toDevice'[k].of
      BY <1>0 DEF Opened, Mine
    <3>1. CASE k = n
      <4>1. Settled
        BY <2>1, <2>q, <3>1 DEF IInv, Believed
      <4>2. \A j \in DOMAIN toDevice : toDevice[j].run = runs /\ toDevice[j].of = run.of
        BY <4>1 DEF Settled, IInv, Queued
      <4> QED
        BY <2>1, <2>q, <3>1, <4>1, <4>2 DEF Settled
    <3>2. CASE k # n
      BY <2>1, <3>2 DEF IInv, Opened
    <3> QED
      BY <3>1, <3>2
  <2>6. Believed'
    <3>1. Settled => Settled'
      BY <1>0, <2>1, <2>q DEF Settled, Mine
    <3> QED
      BY <1>0, <3>1 DEF IInv, Believed, Mine, Request, Step
  <2>7. \A r \in Sale : run.of = r /\ run.stage = "closing" => run.step \in Late
    BY DEF IInv, Running, Closers, Late
  <2>8. Rows'
    <3>1. ASSUME NEW r \in Sale, Sent(r)', ~Sent(r)
          PROVE  r = run.of /\ run.stage = "closing" /\ row[r] = "pending"
      <4>1. r = run.of /\ run.step \in Closers
        BY <2>1, <2>q, <3>1 DEF Sent
      <4> QED
        BY <4>1 DEF IInv, Running
    <3> QED
      BY <1>0, <3>1 DEF IInv, Rows, Copies
  <2>9. NotReopened'
    <3>1. ASSUME NEW j \in DOMAIN toDevice', NEW k \in DOMAIN toDevice', j <= k,
                 toDevice'[j].cmd \in Closers, toDevice'[j].of \in Sale,
                 toDevice'[k].of = toDevice'[j].of
          PROVE  toDevice'[k].cmd \in Late
      <4>1. CASE k # n
        BY <2>1, <3>1, <4>1 DEF IInv, NotReopened
      <4>2. CASE k = n /\ j # n
        <5>1. Sent(run.of) /\ run.of \in Sale
          BY <2>1, <2>q, <3>1, <4>2 DEF Sent
        <5>2. run.stage = "closing"
          BY <5>1 DEF IInv, Rows
        <5> QED
          BY <2>1, <2>7, <2>q, <4>2, <5>1, <5>2
      <4>3. CASE k = n /\ j = n
        BY <3>1, <4>3 DEF Closers, Late
      <4> QED
        BY <4>1, <4>2, <4>3
    <3>2. ASSUME NEW r \in Sale, Copies(r) # {}, NEW k \in DOMAIN toDevice', toDevice'[k].of = r
          PROVE  toDevice'[k].cmd \in Late
      <4>1. CASE k = n
        <5>1. run.of = r /\ run.stage = "closing"
          BY <2>1, <2>q, <3>2, <4>1 DEF IInv, Rows
        <5> QED
          BY <2>1, <2>7, <2>q, <4>1, <5>1
      <4>2. CASE k # n
        BY <2>1, <3>2, <4>2 DEF IInv, NotReopened
      <4> QED
        BY <4>1, <4>2
    <3> QED
      BY <1>0, <3>1, <3>2 DEF IInv, NotReopened, Copies
  <2>10. Resets'
    <3>1. OnlyResets /\ run.step = "reset" => OnlyResets'
      BY <2>1, <2>q DEF OnlyResets
    <3> QED
      BY <1>0, <3>1 DEF IInv, Resets, NoneOpen, Request, Step
  <2>11. Papers' /\ AtMostOnePrint'
    BY <1>0 DEF IInv, Papers, AtMostOnePrint, Pure, Copies
  <2> QED
    BY <2>2, <2>3, <2>4, <2>5, <2>6, <2>8, <2>9, <2>10, <2>11 DEF IInv
<1> QED
  BY <1>1, <1>2 DEF Write

-----------------------------------------------------------------------------
(* Parts of the invariant that a step of a route keeps.                    *)

\* The host goes on by itself: it may drop answers, and nothing else moves.
HostAlone ==
    /\ UNCHANGED <<last, doc, printed, toDevice, faults>>
    /\ toHost' \in Seq((Code \ {"E101"}) \cup {"noise"})
    /\ \A c \in Code : Heard(c)' => Heard(c)

\* What does not depend on the run.
LEMMA DeviceAtRest ==
    ASSUME IInv, HostAlone
    PROVE  /\ Opened' /\ NotReopened' /\ Papers' /\ AtMostOnePrint'
           /\ (last.to \in Request /\ last.to.cmd \in Early /\ last.code = "ok" => Mine(last.to.of))'
           /\ (last.code # "E101")'
           /\ (last.to \in Request /\ last.to.cmd = "reset" /\ last.code \in {"ok", "E404"} => NoneOpen)'
           /\ \A r : Copies(r)' = Copies(r) /\ (Sent(r)' <=> Sent(r))
           /\ \A d : Mine(d)' <=> Mine(d)
           /\ (NoneOpen' <=> NoneOpen) /\ (OnlyResets' <=> OnlyResets)
<1>0. last' = last /\ doc' = doc /\ printed' = printed /\ toDevice' = toDevice
  BY DEF HostAlone
<1>1. Opened' /\ Papers' /\ AtMostOnePrint'
  BY <1>0 DEF IInv, Opened, Mine, Papers, Pure, AtMostOnePrint, Copies
<1>2. NotReopened'
  BY <1>0 DEF IInv, NotReopened, Copies
<1>3. /\ (last.to \in Request /\ last.to.cmd \in Early /\ last.code = "ok" => Mine(last.to.of))'
      /\ (last.code # "E101")'
      /\ (last.to \in Request /\ last.to.cmd = "reset" /\ last.code \in {"ok", "E404"} => NoneOpen)'
  BY <1>0 DEF IInv, Believed, Resets, Mine, NoneOpen, Request, Step
<1>4. /\ \A r : Copies(r)' = Copies(r) /\ (Sent(r)' <=> Sent(r))
      /\ \A d : Mine(d)' <=> Mine(d)
      /\ (NoneOpen' <=> NoneOpen) /\ (OnlyResets' <=> OnlyResets)
  BY <1>0 DEF Copies, Sent, Mine, NoneOpen, OnlyResets
<1> QED
  BY <1>1, <1>2, <1>3, <1>4

\* A run ends, by its answer, an exception, or with the process.
LEMMA EndKeeps ==
    ASSUME IInv, run # Idle, HostAlone, run' = Idle, attempts' = 0, runs' = runs,
           \/ row' = row
           \/ \E ok \in BOOLEAN :
                row' = IF run.of \in Sale THEN [row EXCEPT ![run.of] = RowAfter(run, ok)] ELSE row,
           clean' \in BOOLEAN,
           clean' => run.step = "reset" /\ (Heard("ok") \/ Heard("E404"))
    PROVE  IInv'
<1>0. Idle \in Run /\ Idle.step = "idle" /\ Idle.of = NoDoc /\ 0 \in 0..Retries /\ NoDoc \notin Document
      /\ Sale \subseteq Document
  BY IcpTypes DEF Idle, Run, Step
<1>r. /\ row' \in [Sale -> {"none", "pending", "failed", "done"}]
      /\ \A r \in Sale : row[r] \in {"pending", "done"} /\ (run.of = r => run.stage = "closing") =>
            row'[r] \in {"pending", "done"}
  <2>1. row \in [Sale -> {"none", "pending", "failed", "done"}]
    BY DEF IInv, TypeOK
  <2> QED
    BY <2>1 DEF RowAfter, UnknownStages
<1>1. TypeOK'
  BY <1>0, <1>r DEF HostAlone, IInv, TypeOK, Document, Paper, Run, Code, Request, Step
<1>2. Running'
  BY <1>0 DEF Running, Early, Late
<1>3. Queued'
  BY DEF HostAlone, IInv, Queued
<1>4. Believed' /\ Resets'
  BY <1>0, DeviceAtRest DEF IInv, Believed, Resets, Early, Late
<1>5. Rows'
  BY <1>0, <1>r, DeviceAtRest DEF IInv, Rows
<1> QED
  BY <1>1, <1>2, <1>3, <1>4, <1>5, DeviceAtRest DEF IInv

\* The run goes on to its next command.
LEMMA GotoKeeps ==
    ASSUME IInv, run.step \in Early \cup Late, HostAlone, runs' = runs, clean' = FALSE,
           NEW s \in Early \cup Late, NEW g \in {"printing", "paying", "closing"}, Goto(s, g),
           s \in Late => Settled,
           s \in Early => run.step \in Early,
           run.of \in Sale =>
              /\ s \in Closers \cup {"number"} => g = "closing"
              /\ g = "closing" => s \in Closers \cup {"number", "abort"}
              /\ run.stage = "closing" => g = "closing"
    PROVE  IInv'
<1>0. /\ run' \in Run /\ run'.of = run.of /\ run'.step = s /\ run'.stage = g
      /\ attempts' = 0 /\ row' = row /\ 0 \in 0..Retries
      /\ s # "idle" /\ s # "reset" /\ s \notin Single /\ Idle.step = "idle" /\ run # Idle
      /\ Sale \subseteq Document
  <2>1. run \in Run /\ Sale \subseteq Document /\ 0 \in 0..Retries
    BY IcpTypes
  <2>2. s \in Step
    BY DEF Early, Late, Step
  <2>3. run' = [run EXCEPT !.step = s, !.stage = g] /\ attempts' = 0 /\ row' = row
    BY DEF Goto
  <2>4. /\ run' \in Run /\ run'.of = run.of /\ run'.step = s /\ run'.stage = g
    BY <2>1, <2>2, <2>3 DEF Run
  <2>5. s # "idle" /\ s # "reset" /\ s \notin Single
    BY DEF Early, Late, Single
  <2>6. Idle.step = "idle" /\ run # Idle
    BY DEF Early, Late, Idle
  <2> QED
    BY <2>1, <2>3, <2>4, <2>5, <2>6
<1>1. TypeOK'
  BY <1>0 DEF HostAlone, IInv, TypeOK
<1>2. Running'
  BY <1>0 DEF IInv, Running, Document
<1>3. Queued'
  BY <1>0 DEF HostAlone, IInv, Queued
<1>4. Believed'
  <2>1. Settled => Settled'
    BY <1>0, DeviceAtRest DEF Settled, HostAlone
  <2>2. Heard("ok")' => Heard("ok")
    BY DEF HostAlone, Code
  <2> QED
    BY <1>0, <2>1, <2>2, DeviceAtRest DEF IInv, Believed
<1>5. Rows'
  BY <1>0, DeviceAtRest DEF IInv, Rows
<1>6. Resets'
  BY <1>0, DeviceAtRest DEF Resets
<1> QED
  BY <1>1, <1>2, <1>3, <1>4, <1>5, <1>6, DeviceAtRest DEF IInv

\* The route reacts to what it took for the answer of its command.
LEMMA AdvanceKeeps ==
    ASSUME IInv, run # Idle, HostAlone, runs' = runs, NEW code \in Code,
           code = "E101" \/ Heard(code), Advance(code)
    PROVE  IInv'
<1>0. /\ run \in Run /\ run.step \in Early \cup Late \cup Single /\ clean' \in BOOLEAN
      /\ (clean' => run.step = "reset" /\ (Heard("ok") \/ Heard("E404")))
      /\ Document = Sale \cup Invoice /\ Sale \cap Invoice = {}
      /\ (run.step \in Early \cup Late => run.of \in Document)
  <2>1. run \in Run /\ Document = Sale \cup Invoice /\ Sale \cap Invoice = {}
    BY IcpTypes
  <2>2. run.step \in Step /\ run.step # "idle"
    BY <2>1 DEF IInv, Running, Run
  <2>3. run.step \in Early \cup Late \cup Single
    BY <2>2 DEF Step, Early, Late, Single
  <2>4. clean' \in BOOLEAN /\ (clean' => run.step = "reset" /\ (Heard("ok") \/ Heard("E404")))
    BY DEF Advance, CleanAnswer
  <2> QED
    BY <2>1, <2>3, <2>4 DEF IInv, Running
<1>1. CASE \E ok \in BOOLEAN : Release(ok)
  BY <1>0, <1>1, EndKeeps DEF Release
<1>2. CASE run.step \in Single
  <2>1. Release(TRUE)
    BY <1>2 DEF Advance, Single
  <2> QED
    BY <1>1, <2>1
<1>3. CASE run.step \in Early \cup Late /\ ~\E ok \in BOOLEAN : Release(ok)
  <2>c. clean' = FALSE
    BY <1>3 DEF Advance, Early, Late
  <2>s. run.step \in Late \/ (run.step \in Early /\ code = "ok") => Settled
    <3>1. code = "ok" => Heard("ok")
      OBVIOUS
    <3> QED
      BY <3>1 DEF IInv, Believed
  <2>r. run.of \in Sale =>
           /\ run.step \in Closers \cup {"number"} => run.stage = "closing"
           /\ run.stage = "closing" => run.step \in Closers \cup {"number", "abort"}
    BY DEF IInv, Running
  <2>g. run.stage \in {"printing", "paying", "closing"}
    BY <1>0 DEF Run
  <2>1. CASE run.step = "open"
    <3>1. code = "ok" /\ Goto(IF run.of \in Invoice THEN "comment" ELSE "item", "printing")
      BY <1>3, <2>1 DEF Advance, AfterOpen
    <3>2. (IF run.of \in Invoice THEN "comment" ELSE "item") \in Late \ (Early \cup Closers \cup {"number"})
      BY DEF Late, Early, Closers
    <3> QED
      BY <1>0, <1>3, <2>1, <2>c, <2>s, <2>r, <3>1, <3>2, GotoKeeps DEF Early, Closers
  <2>2. CASE run.step = "openInvoice"
    <3>1. \/ code = "ok" /\ Goto("item", "printing")
          \/ Goto("abortInvoice", "printing")
      BY <1>3, <2>2 DEF Advance, AfterOpenInvoice
    <3>2. /\ "item" \in Late \ (Early \cup Closers \cup {"number"})
          /\ "abortInvoice" \in Early \ (Late \cup Closers \cup {"number"})
      BY DEF Late, Early, Closers
    <3> QED
      BY <1>0, <1>3, <2>2, <2>c, <2>s, <2>r, <3>1, <3>2, GotoKeeps DEF Early, Closers
  <2>3. CASE run.step = "abortInvoice"
    <3>1. Goto("open", "printing")
      BY <1>3, <2>3 DEF Advance
    <3>2. "open" \in Early \ (Late \cup Closers \cup {"number"})
      BY DEF Late, Early, Closers
    <3> QED
      BY <1>0, <1>3, <2>3, <2>c, <2>r, <3>1, <3>2, GotoKeeps DEF Early, Closers
  <2>4. CASE run.step \in Late
    <3>1. CASE Goto("abort", run.stage)
      <4>1. "abort" \in Late \ (Early \cup Closers \cup {"number"})
        BY DEF Late, Early, Closers
      <4> QED
        BY <1>3, <2>4, <2>c, <2>s, <2>r, <2>g, <3>1, <4>1, GotoKeeps
    <3>2. CASE run.step = "comment" /\ Goto("item", "printing")
      <4>1. "item" \in Late \ (Early \cup Closers \cup {"number"})
        BY DEF Late, Early, Closers
      <4> QED
        BY <1>3, <2>4, <2>c, <2>s, <2>r, <3>2, <4>1, GotoKeeps DEF Closers
    <3>3. CASE run.step = "item" /\ AfterItems
      <4>1. \/ Goto("pay", IF run.of \in Sale THEN "paying" ELSE "printing")
            \/ Goto("full", IF run.of \in Sale THEN "closing" ELSE "printing")
        BY <3>3 DEF AfterItems
      <4>2. /\ "pay" \in Late \ (Early \cup Closers \cup {"number"})
            /\ "full" \in (Late \cap Closers) \ Early
        BY DEF Late, Early, Closers
      <4> QED
        BY <1>3, <2>4, <2>c, <2>s, <2>r, <3>3, <4>1, <4>2, GotoKeeps DEF Closers
    <3>4. CASE run.step = "pay" /\ Goto("close", IF run.of \in Sale THEN "closing" ELSE "printing")
      <4>1. "close" \in (Late \cap Closers) \ Early
        BY DEF Late, Early, Closers
      <4> QED
        BY <1>3, <2>4, <2>c, <2>s, <2>r, <3>4, <4>1, GotoKeeps DEF Closers
    <3>5. CASE run.step = "full" /\ Goto(IF run.of \in Sale THEN "number" ELSE "close", run.stage)
      <4>1. "close" \in (Late \cap Closers) \ Early /\ "number" \in Late \ Early /\ "full" \in Closers
        BY DEF Late, Early, Closers
      <4>2. CASE run.of \in Sale
        BY <1>3, <2>4, <2>c, <2>s, <2>r, <2>g, <3>5, <4>1, <4>2, GotoKeeps
      <4>3. CASE run.of \notin Sale
        BY <1>3, <2>4, <2>c, <2>s, <2>g, <3>5, <4>1, <4>3, GotoKeeps
      <4> QED
        BY <4>2, <4>3
    <3>6. CASE run.step = "close" /\ Goto("number", run.stage)
      <4>1. "close" \in Closers /\ "number" \in Late \ Early
        BY DEF Late, Early, Closers
      <4> QED
        BY <1>3, <2>4, <2>c, <2>s, <2>r, <2>g, <3>6, <4>1, GotoKeeps
    <3>7. \/ Goto("abort", run.stage)
          \/ run.step = "comment" /\ Goto("item", "printing")
          \/ run.step = "item" /\ AfterItems
          \/ run.step = "pay" /\ Goto("close", IF run.of \in Sale THEN "closing" ELSE "printing")
          \/ run.step = "full" /\ Goto(IF run.of \in Sale THEN "number" ELSE "close", run.stage)
          \/ run.step = "close" /\ Goto("number", run.stage)
      <4>1. run.step \notin {"number", "abort"}
        BY <1>3 DEF Advance
      <4> QED
        BY <2>4, <4>1 DEF Advance, Late
    <3> QED
      BY <3>1, <3>2, <3>3, <3>4, <3>5, <3>6, <3>7
  <2> QED
    BY <1>3, <2>1, <2>2, <2>3, <2>4 DEF Early
<1> QED
  BY <1>0, <1>1, <1>2, <1>3

\* A route takes the lock and a new connection.
LEMMA BeginKeeps ==
    ASSUME IInv, ~SerialLine, NEW r \in Run, Begin(r), r.stage = "printing",
           r.step \in Early \cup Single, r.step \in Early <=> r.of \in Document,
           IF r.of \in Sale
           THEN /\ r.step = "open" /\ row[r.of] \in {"none", "failed"}
                /\ row' = [row EXCEPT ![r.of] = "pending"]
           ELSE row' = row
    PROVE  IInv'
<1>0. /\ run' = r /\ runs' = runs + 1 /\ runs' \in 0..MaxRuns /\ attempts' = 0 /\ 0 \in 0..Retries
      /\ runs \in Nat /\ clean' = FALSE /\ toHost' = <<>>
      /\ UNCHANGED <<toDevice, last, doc, printed, faults>>
      /\ toDevice' = toDevice
      /\ r # Idle /\ r.step # "idle" /\ r.step \notin Late
      /\ (r.step \in Early \cup Late <=> r.of \in Document)
      /\ Document = Sale \cup Invoice /\ Sale \cap Invoice = {}
      /\ \A k \in DOMAIN toDevice : toDevice[k].run \in Nat
  <2>1. runs \in 0..MaxRuns /\ MaxRuns \in Nat /\ 0 \in 0..Retries /\ Document = Sale \cup Invoice
        /\ Sale \cap Invoice = {}
        /\ \A k \in DOMAIN toDevice : toDevice[k].run \in Nat
    BY IcpTypes DEF Request
  <2>2. r # Idle /\ r.step # "idle" /\ r.step \notin Late
    BY DEF Idle, Early, Late, Single
  <2> QED
    BY <2>1, <2>2 DEF Begin, Connect, device
<1>h. /\ HostAlone /\ \A c : ~Heard(c)'
  BY <1>0 DEF HostAlone, Heard
<1>r. /\ row \in [Sale -> {"none", "pending", "failed", "done"}]
      /\ row' \in [Sale -> {"none", "pending", "failed", "done"}]
      /\ \A x \in Sale : x # r.of => row'[x] = row[x]
      /\ r.of \in Sale => row'[r.of] = "pending"
  BY DEF IInv, TypeOK
<1>1. TypeOK'
  <2>1. /\ toHost' \in Seq((Code \ {"E101"}) \cup {"noise"}) /\ run' \in Run
        /\ clean' \in BOOLEAN
    BY <1>0, <1>h DEF HostAlone
  <2>2. /\ toDevice' \in Seq(Request) /\ last' \in [to : Request \cup {NoDoc}, code : Code]
        /\ doc' \in Paper \cup {NoDoc} /\ printed' \in Seq(Paper) /\ faults' \in 0..MaxFaults
    BY <1>0 DEF IInv, TypeOK
  <2> QED
    BY <1>0, <1>r, <2>1, <2>2 DEF TypeOK, Document, Paper, Run, Code, Request, Step
<1>2. Running'
  <2>1. Idle.step = "idle"
    BY DEF Idle
  <2> QED
    BY <1>0, <1>r, <2>1 DEF Running, Closers
<1>3. Queued'
  <2>1. \A k \in DOMAIN toDevice : toDevice[k].run <= runs + 1 /\ toDevice[k].run # runs + 1
    BY <1>0 DEF IInv, Queued
  <2> QED
    BY <1>0, <2>1 DEF IInv, Queued
<1>4. Believed' /\ Resets'
  BY <1>0, <1>h, DeviceAtRest DEF Believed, Resets
<1>5. Rows'
  <2>1. ASSUME NEW x \in Sale, Copies(x) # {} \/ Sent(x)
        PROVE  x # r.of
    BY <2>1 DEF IInv, Rows
  <2> QED
    BY <1>0, <1>h, <1>r, <2>1, DeviceAtRest DEF IInv, Rows
<1> QED
  BY <1>1, <1>2, <1>3, <1>4, <1>5, <1>h, DeviceAtRest DEF IInv

-----------------------------------------------------------------------------
(* The device.                                                             *)

MineNext(d) == doc' = NoDoc \/ doc'.of = d

\* What the device does for a request q with the answer c.
DeviceStep(q, c) ==
    /\ doc' \in Paper \cup {NoDoc} /\ printed' \in Seq(Paper) /\ Papers' /\ AtMostOnePrint'
    /\ Mine(q.of) => MineNext(q.of)
    /\ q.cmd \in Early /\ c = "ok" => MineNext(q.of)
    /\ q.cmd = "reset" /\ (NoneOpen \/ c \in {"ok", "E404"}) => NoneOpen'
    /\ doc' # NoDoc => \/ doc # NoDoc /\ doc'.of = doc.of
                       \/ q.cmd \in {"open", "openInvoice"} /\ doc'.of = q.of
    /\ \A r \in Sale : Copies(r)' # {} =>
          Copies(r) # {} \/ (q.cmd \in Closers /\ q.of = r /\ doc' = NoDoc)

\* A request that changes nothing, repeated or refused.
LEMMA NothingDone ==
    ASSUME IInv, UNCHANGED <<doc, printed>>, NEW q, NEW c,
           q.cmd \in Early /\ c = "ok" => Mine(q.of),
           q.cmd = "reset" /\ c \in {"ok", "E404"} => NoneOpen
    PROVE  DeviceStep(q, c)
<1>1. /\ doc' \in Paper \cup {NoDoc} /\ printed' \in Seq(Paper) /\ Papers' /\ AtMostOnePrint'
  BY DEF IInv, TypeOK, Papers, Pure, AtMostOnePrint, Copies
<1>2. /\ \A d : Mine(d)' <=> Mine(d)
      /\ (NoneOpen' <=> NoneOpen) /\ \A r : Copies(r)' = Copies(r)
  BY DEF Mine, NoneOpen, Copies
<1> QED
  BY <1>1, <1>2 DEF DeviceStep, Mine, MineNext

\* A document is printed: the one of the run that closes it.
LEMMA Prints ==
    ASSUME IInv, doc \in Paper, doc' = NoDoc, printed' = Append(printed, doc),
           NEW q, NEW c, q.cmd \in Closers, Mine(q.of), doc # NoDoc
    PROVE  DeviceStep(q, c)
<1>0. /\ printed \in Seq(Paper) /\ Len(printed) \in Nat /\ doc.of = q.of
      /\ q.cmd \notin Early /\ q.cmd # "reset"
  BY IcpTypes DEF Mine, Closers, Early
<1>1. /\ printed' \in Seq(Paper) /\ Len(printed') = Len(printed) + 1
      /\ printed'[Len(printed) + 1] = doc
      /\ \A k \in 1..Len(printed) : printed'[k] = printed[k]
  BY <1>0, AppendProperties
<1>2. \A k \in 1..Len(printed') : k \in 1..Len(printed) \/ k = Len(printed) + 1
  BY <1>0, <1>1
<1>3. Papers'
  BY <1>0, <1>1, <1>2 DEF IInv, Papers, Pure
<1>4. /\ \A r \in Sale : r # q.of => \A k \in 1..Len(printed') : printed'[k].of = r => k \in Copies(r)
      /\ q.of \in Sale => \A k \in 1..Len(printed') : printed'[k].of = q.of => k = Len(printed) + 1
  <2>1. q.of \in Sale => Copies(q.of) = {}
    BY <1>0 DEF IInv, NotReopened
  <2> QED
    BY <1>0, <1>1, <1>2, <2>1 DEF Copies
<1>5. AtMostOnePrint'
  BY <1>4 DEF IInv, AtMostOnePrint, Copies
<1>6. \A r \in Sale : Copies(r)' # {} => Copies(r) # {} \/ q.of = r
  BY <1>4 DEF Copies
<1> QED
  BY <1>0, <1>1, <1>3, <1>5, <1>6 DEF DeviceStep, Mine, MineNext

\* A command is executed.
LEMMA Executed ==
    ASSUME IInv, NEW q \in Request, NEW c, ~Forbidden(q.cmd), Execute(q),
           q.cmd \in Late => Mine(q.of),
           q.cmd \in Early \cup Late => q.of \in Document
    PROVE  DeviceStep(q, c)
<1>0. /\ doc # NoDoc => doc \in Paper
      /\ NoDoc \notin Document /\ printed \in Seq(Paper) /\ q.cmd \in Step
  BY IcpTypes DEF Request
<1>1. CASE q.cmd \in {"open", "openInvoice"}
  <2>1. doc' = [of |-> q.of, lines |-> <<>>, paid |-> FALSE] /\ printed' = printed
    BY <1>1 DEF Execute
  <2>2. doc' \in Paper /\ doc'.of = q.of /\ Len(doc'.lines) = 0
    BY <1>1, <2>1 DEF Paper, Early
  <2>3. Papers'
    BY <2>1, <2>2 DEF IInv, Papers, Pure
  <2>4. AtMostOnePrint' /\ \A r : Copies(r)' = Copies(r)
    BY <2>1 DEF IInv, AtMostOnePrint, Copies
  <2> QED
    BY <1>0, <1>1, <2>1, <2>2, <2>3, <2>4 DEF DeviceStep, Mine, MineNext
<1>2. CASE q.cmd = "item"
  <2>0. doc # NoDoc /\ doc \in Paper /\ doc.of = q.of
    BY <1>0, <1>2 DEF Forbidden, IsOpen, Late, Mine
  <2>1. doc' = [doc EXCEPT !.lines = Append(@, q.of)] /\ printed' = printed
    BY <1>2 DEF Execute
  <2>2. /\ doc' \in Paper /\ doc'.of = doc.of /\ doc'.lines = Append(doc.lines, q.of)
        /\ doc.lines \in Seq(Document) /\ q.of \in Document
    BY <2>0, <2>1, AppendProperties DEF Paper
  <2>3. Pure(doc')
    <3>1. Pure(doc) /\ Len(doc.lines) \in Nat
      BY <2>0, <2>2, LenProperties DEF IInv, Papers
    <3>2. /\ Len(doc'.lines) = Len(doc.lines) + 1 /\ doc'.lines[Len(doc.lines) + 1] = q.of
          /\ \A k \in 1..Len(doc.lines) : doc'.lines[k] = doc.lines[k]
      BY <2>2, AppendProperties
    <3> QED
      BY <2>0, <2>2, <3>1, <3>2 DEF Pure
  <2>4. Papers' /\ AtMostOnePrint' /\ \A r : Copies(r)' = Copies(r)
    BY <2>1, <2>3 DEF IInv, Papers, Pure, AtMostOnePrint, Copies
  <2> QED
    BY <1>0, <1>2, <2>0, <2>1, <2>2, <2>4 DEF DeviceStep, Mine, MineNext, Early
<1>3. CASE q.cmd = "pay"
  <2>0. doc # NoDoc /\ doc \in Paper /\ doc.of = q.of
    BY <1>0, <1>3 DEF Forbidden, IsOpen, Late, Mine
  <2>1. doc' = [doc EXCEPT !.paid = TRUE] /\ printed' = printed
    BY <1>3 DEF Execute
  <2>2. doc' \in Paper /\ doc'.of = doc.of /\ doc'.lines = doc.lines
    BY <2>0, <2>1 DEF Paper
  <2>4. Papers' /\ AtMostOnePrint' /\ \A r : Copies(r)' = Copies(r)
    BY <2>0, <2>1, <2>2 DEF IInv, Papers, Pure, AtMostOnePrint, Copies
  <2> QED
    BY <1>0, <1>3, <2>0, <2>1, <2>2, <2>4 DEF DeviceStep, Mine, MineNext, Early
<1>4. CASE q.cmd \in Closers
  <2>0. doc # NoDoc /\ doc \in Paper /\ Mine(q.of)
    BY <1>0, <1>4 DEF Forbidden, IsOpen, Late, Closers
  <2>1. doc' = NoDoc /\ printed' = Append(printed, doc)
    BY <1>4 DEF Execute, Closers
  <2> QED
    BY <1>4, <2>0, <2>1, Prints
<1>5. CASE q.cmd \in {"abort", "abortInvoice", "reset"}
  <2>1. doc' = NoDoc /\ printed' = printed
    BY <1>5 DEF Execute
  <2>2. Papers' /\ AtMostOnePrint' /\ \A r : Copies(r)' = Copies(r)
    BY <2>1 DEF IInv, Papers, Pure, AtMostOnePrint, Copies
  <2> QED
    BY <1>0, <2>1, <2>2 DEF DeviceStep, Mine, MineNext, NoneOpen
<1>6. CASE q.cmd \notin {"open", "openInvoice", "item", "pay", "full", "close", "abort",
                         "abortInvoice", "reset"}
  <2>1. UNCHANGED <<doc, printed>>
    BY <1>6 DEF Execute, device
  <2>2. q.cmd \notin Early /\ q.cmd # "reset"
    BY <1>6 DEF Early
  <2> QED
    BY <2>1, <2>2, NothingDone
<1> QED
  BY <1>1, <1>2, <1>3, <1>4, <1>5, <1>6 DEF Closers

\* What the device answers to its next request, and does.
LEMMA HandleDoes ==
    ASSUME IInv, toDevice # <<>>, NEW c \in Code, NEW q, q = Head(toDevice),
           \/ last.to = q /\ last.code = c /\ UNCHANGED <<last, doc, printed>>
           \/ /\ last.to # q /\ Answer(q, c)
              /\ last' = [to |-> q, code |-> c]
    PROVE  DeviceStep(q, c) /\ c # "E101" /\ last'.to = q /\ last'.code = c
<1>0. /\ q \in Request /\ q = toDevice[1] /\ 1 \in DOMAIN toDevice
      /\ q.cmd \in Late => Mine(q.of)
      /\ q.cmd \in Early \cup Late => q.of \in Document
  <2>1. Len(toDevice) \in Nat /\ toDevice \in Seq(Request) /\ DOMAIN toDevice = 1..Len(toDevice)
        /\ \A k \in DOMAIN toDevice : toDevice[k] \in Request
    BY IcpTypes
  <2>2. 1 \in DOMAIN toDevice /\ q = toDevice[1]
    BY <2>1, EmptySeq
  <2> QED
    BY <2>1, <2>2 DEF IInv, Opened, Queued
<1>1. CASE last.to = q /\ last.code = c /\ UNCHANGED <<last, doc, printed>>
  <2>1. /\ q.cmd \in Early /\ c = "ok" => Mine(q.of)
        /\ q.cmd = "reset" /\ c \in {"ok", "E404"} => NoneOpen
        /\ c # "E101"
    BY <1>0, <1>1 DEF IInv, Believed, Resets
  <2> QED
    BY <1>1, <2>1, NothingDone
<1>2. CASE Answer(q, c) /\ last' = [to |-> q, code |-> c]
  <2>1. \/ ~Forbidden(q.cmd) /\ Execute(q)
        \/ UNCHANGED device /\ c # "ok" /\ (c = "E404" => Forbidden(q.cmd))
    BY <1>2 DEF Answer, Forbidden
  <2>2. c # "E101" /\ last'.to = q /\ last'.code = c
    BY <1>2 DEF Answer
  <2>3. CASE ~Forbidden(q.cmd) /\ Execute(q)
    BY <1>0, <2>2, <2>3, Executed
  <2>4. CASE UNCHANGED device /\ c # "ok" /\ (c = "E404" => Forbidden(q.cmd))
    <3>1. q.cmd = "reset" /\ Forbidden(q.cmd) => NoneOpen
      BY DEF Forbidden, IsOpen, NoneOpen
    <3> QED
      BY <2>2, <2>4, <3>1, NothingDone DEF device
  <2> QED
    BY <2>1, <2>3, <2>4
<1> QED
  BY <1>1, <1>2

\* The device handles its next request: the answer it may give the host is
\* true of the device from then on.
LEMMA HandleKeeps ==
    ASSUME IInv, ~SerialLine, Handle
    PROVE  IInv'
<1>p. PICK q : q = Head(toDevice)
  OBVIOUS
<1>0. /\ toDevice # <<>> /\ toDevice' = Tail(toDevice)
      /\ UNCHANGED <<run, runs, attempts, row, clean, faults>>
      /\ run' = run /\ runs' = runs /\ row' = row /\ clean' = clean
  BY DEF Handle
<1>c. PICK c \in Code :
         /\ Reply(q, c)
         /\ \/ last.to = q /\ last.code = c /\ UNCHANGED <<last, doc, printed>>
            \/ last.to # q /\ Answer(q, c) /\ last' = [to |-> q, code |-> c]
  BY <1>p DEF Handle
<1>d. DeviceStep(q, c) /\ c # "E101" /\ last'.to = q /\ last'.code = c
  BY <1>0, <1>c, <1>p, HandleDoes
<1>q. /\ toDevice' \in Seq(Request) /\ 1 \in DOMAIN toDevice /\ q = toDevice[1] /\ q \in Request
      /\ \A k \in DOMAIN toDevice' : k + 1 \in DOMAIN toDevice /\ toDevice'[k] = toDevice[k + 1]
      /\ \A k \in DOMAIN toDevice : 1 <= k
      /\ \A j, k \in DOMAIN toDevice' : j <= k => j + 1 <= k + 1
  BY <1>0, <1>p, Shorter, IcpTypes
<1>1. \A k \in DOMAIN toDevice' : \E i \in DOMAIN toDevice : 1 <= i /\ toDevice'[k] = toDevice[i]
  BY <1>q
<1>2. \A j, k \in DOMAIN toDevice' : j <= k =>
         \E h, i \in DOMAIN toDevice :
            h <= i /\ 1 <= h /\ 1 <= i /\ toDevice'[j] = toDevice[h] /\ toDevice'[k] = toDevice[i]
  BY <1>q
<1>h. /\ toHost' \in Seq((Code \ {"E101"}) \cup {"noise"})
      /\ \A x : Heard(x)' => Heard(x) \/ (x = c /\ run # Idle /\ q.run = runs)
  <2>1. toHost \in Seq((Code \ {"E101"}) \cup {"noise"}) /\ Len(toHost) \in Nat
        /\ DOMAIN toHost = 1..Len(toHost)
    BY IcpTypes
  <2>2. CASE toHost' = toHost
    BY <2>1, <2>2 DEF Heard
  <2>3. CASE toHost' = Append(toHost, c) /\ run # Idle /\ q.run = runs
    <3>1. /\ toHost' \in Seq((Code \ {"E101"}) \cup {"noise"}) /\ Len(toHost') = Len(toHost) + 1
          /\ toHost'[Len(toHost) + 1] = c
          /\ \A k \in 1..Len(toHost) : toHost'[k] = toHost[k]
      BY <1>d, <2>1, <2>3, AppendProperties
    <3>2. DOMAIN toHost' = 1..(Len(toHost) + 1)
      BY <3>1, LenProperties
    <3>3. \A k \in DOMAIN toHost' : k \in DOMAIN toHost \/ k = Len(toHost) + 1
      BY <2>1, <3>2
    <3> QED
      BY <2>1, <2>3, <3>1, <3>3 DEF Heard
  <2> QED
    BY <1>c, <2>2, <2>3 DEF Reply
<1>m. run # Idle /\ q.run = runs =>
         /\ q.of = run.of
         /\ \A k \in DOMAIN toDevice : toDevice[k].run = runs
         /\ run.step \in Early => q.cmd \in Early
         /\ run.step \in Single => q.cmd = run.step
  <2>1. \A k \in DOMAIN toDevice : toDevice[k].run <= runs /\ q.run <= toDevice[k].run
    BY <1>q DEF IInv, Queued
  <2>2. runs \in Nat /\ \A k \in DOMAIN toDevice : toDevice[k].run \in Nat
    BY IcpTypes DEF Request
  <2> QED
    BY <1>q, <2>1, <2>2 DEF IInv, Queued
<1>3. TypeOK'
  <2>1. last' \in [to : Request \cup {NoDoc}, code : Code]
    BY <1>c, <1>q DEF IInv, TypeOK
  <2> QED
    BY <1>0, <1>d, <1>h, <1>q, <2>1 DEF DeviceStep, IInv, TypeOK, Document, Paper, Run, Code, Request, Step
<1>4. Running'
  BY <1>0 DEF IInv, Running, Document
<1>5. Queued'
  BY <1>0, <1>1, <1>2 DEF IInv, Queued
<1>6. Opened'
  <2>1. \A k \in DOMAIN toDevice' : toDevice'[k].cmd \in Late => MineNext(toDevice'[k].of)
    <3> SUFFICES ASSUME NEW k \in DOMAIN toDevice', toDevice'[k].cmd \in Late
                 PROVE  MineNext(toDevice'[k].of)
      OBVIOUS
    <3>1. q.of = toDevice'[k].of /\ Mine(q.of)
      BY <1>q DEF IInv, Opened
    <3> QED
      BY <1>d, <3>1 DEF DeviceStep, Mine, MineNext
  <2>2. \A j, k \in DOMAIN toDevice' : toDevice'[k].cmd \in Late /\ j <= k =>
           toDevice'[j].run = toDevice'[k].run /\ toDevice'[j].of = toDevice'[k].of
    BY <1>2 DEF IInv, Opened
  <2> QED
    BY <2>1, <2>2 DEF Opened, Mine, MineNext
<1>7. Believed'
  <2>1. Settled /\ run # Idle => Settled'
    <3>1. Settled => q.run = runs /\ \A k \in DOMAIN toDevice' : toDevice'[k].run = runs
      BY <1>1, <1>q DEF Settled
    <3> QED
      BY <1>0, <1>d, <1>m, <3>1 DEF Settled, DeviceStep, Mine, MineNext
  <2>2. run.step \in Early \cup Late => run # Idle
    BY DEF Early, Late, Idle
  <2>3. run.step \in Early /\ c = "ok" /\ run # Idle /\ q.run = runs => Settled'
    <3>1. q.run = runs /\ run # Idle => \A k \in DOMAIN toDevice' : toDevice'[k].run = runs
      BY <1>1, <1>m
    <3> QED
      BY <1>0, <1>d, <1>m, <3>1 DEF Settled, DeviceStep, Mine, MineNext
  <2>4. run.step \in Early /\ Heard("ok")' => Settled'
    BY <1>h, <2>1, <2>2, <2>3 DEF IInv, Believed
  <2>5. run.step \in Late => Settled'
    BY <2>1, <2>2 DEF IInv, Believed
  <2>6. q.cmd \in Early /\ c = "ok" => MineNext(q.of)
    BY <1>d DEF DeviceStep
  <2> QED
    BY <1>0, <1>d, <2>4, <2>5, <2>6 DEF Believed, Mine, MineNext, Request, Step
<1>8. Rows'
  <2>1. \A r \in Sale : Sent(r)' => Sent(r)
    BY <1>1 DEF Sent
  <2>2. \A r \in Sale : Copies(r)' # {} => Copies(r) # {} \/ Sent(r)
    BY <1>d, <1>q DEF DeviceStep, Sent
  <2> QED
    BY <1>0, <2>1, <2>2 DEF IInv, Rows
<1>9. NotReopened'
  <2>1. \A j, k \in DOMAIN toDevice' :
         /\ j <= k /\ toDevice'[j].cmd \in Closers /\ toDevice'[j].of \in Sale
         /\ toDevice'[k].of = toDevice'[j].of
         => toDevice'[k].cmd \in Late
    BY <1>2 DEF IInv, NotReopened
  <2>2. ASSUME NEW r \in Sale, Copies(r)' # {}
        PROVE  /\ doc' = NoDoc \/ doc'.of # r
               /\ \A k \in DOMAIN toDevice' : toDevice'[k].of = r => toDevice'[k].cmd \in Late
    <3>1. CASE Copies(r) # {}
      <4>1. /\ doc = NoDoc \/ doc.of # r
            /\ \A k \in DOMAIN toDevice : toDevice[k].of = r => toDevice[k].cmd \in Late
        BY <3>1 DEF IInv, NotReopened
      <4>2. q.cmd \in {"open", "openInvoice"} => q.of # r
        BY <1>q, <4>1 DEF Late
      <4> QED
        BY <1>1, <1>d, <4>1, <4>2 DEF DeviceStep
    <3>2. CASE q.cmd \in Closers /\ q.of = r /\ doc' = NoDoc
      <4>1. \A k \in DOMAIN toDevice : toDevice[k].of = r => toDevice[k].cmd \in Late
        BY <1>q, <3>2 DEF IInv, NotReopened
      <4> QED
        BY <1>1, <3>2, <4>1
    <3> QED
      BY <1>d, <2>2, <3>1, <3>2 DEF DeviceStep
  <2> QED
    BY <2>1, <2>2 DEF NotReopened, Copies
<1>10. Resets'
  <2>1. OnlyResets => OnlyResets' /\ q.cmd = "reset"
    BY <1>1, <1>q DEF OnlyResets
  <2>2. q.cmd = "reset" /\ (NoneOpen \/ c \in {"ok", "E404"}) => NoneOpen'
    BY <1>d DEF DeviceStep
  <2>3. run.step = "reset" /\ run # Idle /\ q.run = runs => OnlyResets' /\ q.cmd = "reset"
    <3> SUFFICES ASSUME run.step = "reset", run # Idle, q.run = runs
                 PROVE  OnlyResets' /\ q.cmd = "reset"
      OBVIOUS
    <3>1. \A k \in DOMAIN toDevice : toDevice[k].cmd = "reset"
      BY <1>m DEF IInv, Queued, Single
    <3> QED
      BY <1>1, <1>q, <3>1 DEF OnlyResets
  <2>4. clean => run = Idle /\ NoneOpen' /\ OnlyResets'
    BY <2>1, <2>2 DEF IInv, Resets
  <2>5. run.step = "reset" /\ (Heard("ok")' \/ Heard("E404")') => NoneOpen' /\ OnlyResets'
    BY <1>h, <2>1, <2>2, <2>3 DEF IInv, Resets
  <2> QED
    BY <1>0, <1>d, <2>2, <2>4, <2>5 DEF Resets
<1>11. Papers' /\ AtMostOnePrint'
  BY <1>d DEF DeviceStep
<1> QED
  BY <1>3, <1>4, <1>5, <1>6, <1>7, <1>8, <1>9, <1>10, <1>11 DEF IInv

-----------------------------------------------------------------------------
(* The theorems.                                                           *)

LEMMA IcpInit ==
    ASSUME Init
    PROVE  IInv
<1>0. /\ runs = 0 /\ attempts = 0 /\ faults = 0 /\ run = Idle /\ toDevice = <<>> /\ toHost = <<>>
      /\ last = [to |-> NoDoc, code |-> "ok"] /\ doc = NoDoc /\ printed = <<>>
      /\ row = [r \in Sale |-> "none"] /\ clean = FALSE
      /\ MaxRuns \in Nat /\ MaxFaults \in Nat /\ Retries \in Nat
      /\ NoDoc \notin Document /\ Sale \subseteq Document
  BY IcpAssumption DEF Init, Document
<1>i. /\ Idle \in Run /\ Idle.step = "idle" /\ Idle.of = NoDoc
  BY DEF Idle, Run, Step
<1>1. TypeOK
  <2>1. runs \in 0..MaxRuns /\ attempts \in 0..Retries /\ faults \in 0..MaxFaults
    BY <1>0
  <2>2. /\ toDevice \in Seq(Request) /\ toHost \in Seq((Code \ {"E101"}) \cup {"noise"})
        /\ printed \in Seq(Paper)
    BY <1>0
  <2>3. /\ last \in [to : Request \cup {NoDoc}, code : Code] /\ clean \in BOOLEAN
        /\ row \in [Sale -> {"none", "pending", "failed", "done"}]
    BY <1>0 DEF Code
  <2> QED
    BY <1>0, <1>i, <2>1, <2>2, <2>3 DEF TypeOK
<1>2. Running
  BY <1>0, <1>i DEF Running, Early, Late
<1>3. Queued /\ Opened /\ OnlyResets /\ NoneOpen /\ Mine(last.to.of)
  BY <1>0 DEF Queued, Opened, OnlyResets, NoneOpen, Mine
<1>4. Believed /\ Resets
  <2>1. /\ run.step = "idle" /\ run.step \notin Early \cup Late /\ run.step # "reset"
        /\ last.code # "E101" /\ ~clean
    BY <1>0, <1>i DEF Early, Late
  <2>2. Believed
    BY <1>3, <2>1 DEF Believed
  <2>3. Resets
    BY <1>3, <2>1 DEF Resets
  <2> QED
    BY <2>2, <2>3
<1>5. \A r : Copies(r) = {} /\ ~Sent(r)
  <2>1. 1..Len(printed) = {} /\ DOMAIN toDevice = {}
    BY <1>0
  <2> QED
    BY <2>1 DEF Copies, Sent
<1>6. Rows /\ NotReopened /\ Papers /\ AtMostOnePrint
  BY <1>0, <1>5 DEF Rows, NotReopened, Papers, AtMostOnePrint
<1> QED
  BY <1>1, <1>2, <1>3, <1>4, <1>6 DEF IInv

\* The host tries the command again or takes E101 for its answer.
LEMMA TryAgainKeeps ==
    ASSUME IInv, run # Idle, UNCHANGED <<runs, last, doc, printed, faults>>,
           toHost' \in Seq((Code \ {"E101"}) \cup {"noise"}),
           \A c \in Code : Heard(c)' => Heard(c),
           TryAgain(TRUE)
    PROVE  IInv'
<1>1. CASE attempts < Retries
  <2>1. Write /\ UNCHANGED <<run, row, clean>>
    BY <1>1 DEF TryAgain
  <2> QED
    BY <1>1, <2>1, WriteKeeps
<1>2. CASE ~(attempts < Retries)
  <2>1. Advance("E101") /\ UNCHANGED toDevice
    BY <1>2 DEF TryAgain
  <2>2. HostAlone /\ "E101" \in Code
    BY <2>1 DEF HostAlone, Code
  <2> QED
    BY <2>1, <2>2, AdvanceKeeps
<1> QED
  BY <1>1, <1>2

\* The host reads: what it leaves unread is some of what was there.
LEMMA ReadKeeps ==
    ASSUME IInv, run # Idle, Timeout \/ Receive
    PROVE  IInv'
<1>0. /\ toHost \in Seq((Code \ {"E101"}) \cup {"noise"}) /\ Len(toHost) \in Nat
      /\ DOMAIN toHost = 1..Len(toHost)
      /\ \A k \in DOMAIN toHost : toHost[k] \in (Code \ {"E101"}) \cup {"noise"}
      /\ UNCHANGED <<runs, last, doc, printed, faults>>
  BY IcpTypes DEF Timeout, Receive, device
<1>1. CASE Timeout
  <2>1. toHost' = toHost /\ TryAgain(TRUE)
    BY <1>1 DEF Timeout, TryAgain
  <2> QED
    BY <1>0, <2>1, TryAgainKeeps DEF Heard
<1>2. CASE Receive
  <2>1. PICK n \in 1..Len(toHost) :
           LET rest == toHost' = SubSeq(toHost, n + 1, Len(toHost)) IN
           IF Head(toHost) = "noise" THEN TryAgain(rest)
           ELSE Advance(Head(toHost)) /\ rest /\ UNCHANGED toDevice
    BY <1>2 DEF Receive
  <2>2. toHost' = SubSeq(toHost, n + 1, Len(toHost))
    BY <2>1 DEF TryAgain
  <2>3. /\ toHost' \in Seq((Code \ {"E101"}) \cup {"noise"})
        /\ \A k \in DOMAIN toHost' : \E i \in DOMAIN toHost : toHost'[k] = toHost[i]
    <3>1. n \in Nat /\ n >= 1 /\ n <= Len(toHost) /\ n + 1 \in Int /\ Len(toHost) \in Int
      BY <1>0
    <3>2. \A i \in (n + 1)..Len(toHost) : toHost[i] \in (Code \ {"E101"}) \cup {"noise"}
      BY <1>0, <3>1
    <3>3. /\ toHost' \in Seq((Code \ {"E101"}) \cup {"noise"})
          /\ Len(toHost') = IF n + 1 <= Len(toHost) THEN Len(toHost) - (n + 1) + 1 ELSE 0
          /\ \A i \in 1..Len(toHost) - (n + 1) + 1 : toHost'[i] = toHost[n + 1 + i - 1]
      BY <2>2, <3>1, <3>2, SubSeqProperties
    <3>4. DOMAIN toHost' = 1..Len(toHost')
      BY <3>3, LenProperties
    <3>5. ASSUME NEW i \in DOMAIN toHost'
          PROVE  i \in 1..Len(toHost) - (n + 1) + 1 /\ n + 1 + i - 1 \in DOMAIN toHost
      <4>1. CASE n + 1 <= Len(toHost)
        <5>1. i \in 1..(Len(toHost) - (n + 1) + 1)
          BY <3>3, <3>4, <4>1
        <5> QED
          BY <1>0, <3>1, <5>1
      <4>2. CASE ~(n + 1 <= Len(toHost))
        <5>1. i \in 1..0
          BY <3>3, <3>4, <4>2
        <5> QED
          BY <5>1
      <4> QED
        BY <4>1, <4>2
    <3> QED
      BY <3>3, <3>5
  <2>4. \A c \in Code : Heard(c)' => Heard(c)
    BY <2>3 DEF Heard
  <2>5. CASE Head(toHost) = "noise"
    <3>1. TryAgain(TRUE)
      BY <2>1, <2>5 DEF TryAgain
    <3> QED
      BY <1>0, <2>3, <2>4, <3>1, TryAgainKeeps
  <2>6. CASE Head(toHost) # "noise"
    <3>1. Advance(Head(toHost)) /\ UNCHANGED toDevice
      BY <2>1, <2>6
    <3>2. 1 \in DOMAIN toHost /\ Head(toHost) = toHost[1] /\ Head(toHost) \in Code
      <4>1. 1 \in DOMAIN toHost /\ Head(toHost) = toHost[1]
        BY <1>0, <1>2, EmptySeq DEF Receive
      <4> QED
        BY <1>0, <2>6, <4>1
    <3>3. HostAlone /\ Heard(Head(toHost))
      BY <1>0, <2>3, <2>4, <3>1, <3>2 DEF HostAlone, Heard
    <3>4. PICK c \in Code : c = Head(toHost)
      BY <3>2
    <3> QED
      BY <1>0, <3>1, <3>3, <3>4, AdvanceKeeps
  <2> QED
    BY <2>5, <2>6
<1> QED
  BY <1>1, <1>2

\* A frame is lost or damaged.
LEMMA LoseKeeps ==
    ASSUME IInv, LoseRequest \/ LoseAnswer
    PROVE  IInv'
<1>0. /\ toHost \in Seq((Code \ {"E101"}) \cup {"noise"}) /\ Len(toHost) \in Nat
      /\ DOMAIN toHost = 1..Len(toHost) /\ toDevice \in Seq(Request)
      /\ UNCHANGED <<last, doc, printed>> /\ UNCHANGED <<run, runs, row, clean>>
      /\ attempts' \in 0..Retries
  <2>1. attempts' = attempts /\ UNCHANGED <<last, doc, printed>> /\ UNCHANGED <<run, runs, row, clean>>
    BY DEF LoseRequest, LoseAnswer, device
  <2> QED
    BY <2>1, IcpTypes
<1>f. faults' \in 0..MaxFaults
  <2>1. faults \in 0..MaxFaults /\ MaxFaults \in Nat
    BY IcpTypes DEF IInv, TypeOK
  <2> QED
    BY <2>1 DEF LoseRequest, LoseAnswer
<1>n. "noise" \notin Code
  BY DEF Code
<1>1. CASE LoseRequest
  <2>1. toDevice # <<>> /\ toDevice' = Tail(toDevice) /\ toDevice' \in Seq(Request)
    BY <1>1, Shorter DEF LoseRequest
  <2>2. toHost' = toHost \/ toHost' = Append(toHost, "noise")
    BY <1>1 DEF LoseRequest, Reply
  <2>3. /\ toHost' \in Seq((Code \ {"E101"}) \cup {"noise"})
        /\ \A c \in Code : Heard(c)' => Heard(c)
    <3>1. CASE toHost' = toHost
      BY <1>0, <3>1 DEF Heard
    <3>2. CASE toHost' = Append(toHost, "noise")
      <4>1. /\ toHost' \in Seq((Code \ {"E101"}) \cup {"noise"}) /\ Len(toHost') = Len(toHost) + 1
            /\ toHost'[Len(toHost) + 1] = "noise"
            /\ \A k \in 1..Len(toHost) : toHost'[k] = toHost[k]
        BY <1>0, <3>2, AppendProperties
      <4>2. DOMAIN toHost' = 1..(Len(toHost) + 1)
        BY <4>1, LenProperties
      <4>3. \A k \in DOMAIN toHost' : k \in DOMAIN toHost \/ k = Len(toHost) + 1
        BY <1>0, <4>2
      <4> QED
        BY <1>0, <1>n, <4>1, <4>3 DEF Heard
    <3> QED
      BY <2>2, <3>1, <3>2
  <2> QED
    BY <1>0, <1>f, <2>1, <2>3, LossKeeps DEF Lossy
<1>2. CASE LoseAnswer
  <2>1. /\ toHost # <<>> /\ toDevice' = toDevice
        /\ toHost' = Tail(toHost) \/ toHost' = <<"noise">> \o Tail(toHost)
    BY <1>2 DEF LoseAnswer
  <2>2. /\ Tail(toHost) \in Seq((Code \ {"E101"}) \cup {"noise"})
        /\ Len(Tail(toHost)) = Len(toHost) - 1 /\ DOMAIN Tail(toHost) = 1..(Len(toHost) - 1)
        /\ \A i \in 1..(Len(toHost) - 1) : Tail(toHost)[i] = toHost[i + 1]
    <3>1. /\ Tail(toHost) \in Seq((Code \ {"E101"}) \cup {"noise"})
          /\ Len(Tail(toHost)) = Len(toHost) - 1
          /\ \A i \in 1..Len(Tail(toHost)) : Tail(toHost)[i] = toHost[i + 1]
      BY <1>0, <2>1, HeadTailProperties
    <3> QED
      BY <3>1, LenProperties
  <2>3. \A i \in 1..(Len(toHost) - 1) : i + 1 \in DOMAIN toHost
    BY <1>0
  <2>4. /\ toHost' \in Seq((Code \ {"E101"}) \cup {"noise"})
        /\ \A c \in Code : Heard(c)' => Heard(c)
    <3>1. CASE toHost' = Tail(toHost)
      BY <2>2, <2>3, <3>1 DEF Heard
    <3>2. CASE toHost' = <<"noise">> \o Tail(toHost)
      <4>1. <<"noise">> \in Seq((Code \ {"E101"}) \cup {"noise"}) /\ Len(<<"noise">>) = 1
            /\ <<"noise">>[1] = "noise"
        OBVIOUS
      <4>2. /\ toHost' \in Seq((Code \ {"E101"}) \cup {"noise"})
            /\ Len(toHost') = 1 + (Len(toHost) - 1)
            /\ \A i \in 1..1 + (Len(toHost) - 1) : toHost'[i] =
                   IF i <= 1 THEN <<"noise">>[i] ELSE Tail(toHost)[i - 1]
        BY <2>2, <3>2, <4>1, ConcatProperties
      <4>3. DOMAIN toHost' = 1..(1 + (Len(toHost) - 1))
        BY <4>2, LenProperties
      <4>4. \A i \in DOMAIN toHost' : toHost'[i] = "noise" \/ (i \in DOMAIN toHost /\ toHost'[i] = toHost[i])
        <5> SUFFICES ASSUME NEW i \in DOMAIN toHost'
                     PROVE  toHost'[i] = "noise" \/ (i \in DOMAIN toHost /\ toHost'[i] = toHost[i])
          OBVIOUS
        <5>1. CASE i = 1
          BY <4>1, <4>2, <4>3, <5>1
        <5>2. CASE i # 1
          <6>1. i - 1 \in 1..(Len(toHost) - 1) /\ ~(i <= 1) /\ (i - 1) + 1 = i /\ i \in DOMAIN toHost
            BY <1>0, <4>3, <5>2
          <6> QED
            BY <2>2, <4>2, <4>3, <6>1
        <5> QED
          BY <5>1, <5>2
      <4> QED
        BY <1>n, <4>2, <4>4 DEF Heard
    <3> QED
      BY <2>1, <3>1, <3>2
  <2> QED
    BY <1>0, <1>f, <2>1, <2>4, LossKeeps DEF Lossy
<1> QED
  BY <1>1, <1>2

\* A route begins.
LEMMA StartKeeps ==
    ASSUME IInv, ~SerialLine,
           \/ \E r \in Sale : StartSale(r)
           \/ \E i \in Invoice : StartInvoice(i)
           \/ \E s \in {"reset", "other"} : StartCommand(s)
    PROVE  IInv'
<1>0. /\ Document = Sale \cup Invoice /\ Sale \cap Invoice = {} /\ NoDoc \notin Document
      /\ Idle \in Run /\ Idle.of = NoDoc /\ Idle.stage = "printing"
  BY IcpTypes DEF Idle, Run, Step
<1>1. ASSUME NEW r \in Sale, StartSale(r)
      PROVE  IInv'
  <2>1. PICK p \in BOOLEAN : Begin([Idle EXCEPT !.step = "open", !.of = r, !.pays = p])
    BY <1>1 DEF StartSale
  <2>2. PICK x : x = [Idle EXCEPT !.step = "open", !.of = r, !.pays = p]
    OBVIOUS
  <2>3. /\ x \in Run /\ x.step = "open" /\ x.of = r /\ x.stage = "printing" /\ r \in Document
        /\ "open" \in Early
    BY <1>0, <2>2 DEF Idle, Run, Step, Early
  <2> QED
    BY <1>1, <2>1, <2>2, <2>3, BeginKeeps DEF StartSale
<1>2. ASSUME NEW i \in Invoice, StartInvoice(i)
      PROVE  IInv'
  <2>1. PICK p \in BOOLEAN, s \in {"openInvoice", "open"} :
            Begin([Idle EXCEPT !.step = s, !.of = i, !.pays = p])
    BY <1>2 DEF StartInvoice
  <2>2. PICK x : x = [Idle EXCEPT !.step = s, !.of = i, !.pays = p]
    OBVIOUS
  <2>3. /\ x \in Run /\ x.step = s /\ x.of = i /\ x.stage = "printing" /\ i \in Document \ Sale
        /\ s \in Early
    BY <1>0, <2>2 DEF Idle, Run, Step, Early
  <2> QED
    BY <1>2, <2>1, <2>2, <2>3, BeginKeeps DEF StartInvoice
<1>3. ASSUME NEW s \in {"reset", "other"}, StartCommand(s)
      PROVE  IInv'
  <2>1. PICK x : x = [Idle EXCEPT !.step = s]
    OBVIOUS
  <2>2. /\ x \in Run /\ x.step = s /\ x.of = NoDoc /\ x.stage = "printing" /\ NoDoc \notin Sale
        /\ s \in Single \ Early
    BY <1>0, <2>1 DEF Idle, Run, Step, Early, Single
  <2> QED
    BY <1>0, <1>3, <2>1, <2>2, BeginKeeps DEF StartCommand
<1> QED
  BY <1>1, <1>2, <1>3

\* The connection breaks, or the process dies.
LEMMA BreakKeeps ==
    ASSUME IInv, LinkBreaks \/ Crash
    PROVE  IInv'
<1>1. /\ run # Idle /\ run' = Idle /\ attempts' = 0 /\ runs' = runs /\ clean' = FALSE
      /\ toHost' = <<>> /\ UNCHANGED <<last, doc, printed, toDevice, faults>>
      /\ (row' = row \/ row' = IF run.of \in Sale
                               THEN [row EXCEPT ![run.of] = RowAfter(run, FALSE)] ELSE row)
  BY DEF LinkBreaks, Crash, Release, device
<1>2. HostAlone
  BY <1>1 DEF HostAlone, Heard
<1> QED
  BY <1>1, <1>2, EndKeeps

LEMMA IcpStep ==
    ASSUME IInv, ~SerialLine, [Next]_vars
    PROVE  IInv'
<1>1. CASE \/ \E r \in Sale : StartSale(r)
           \/ \E i \in Invoice : StartInvoice(i)
           \/ \E s \in {"reset", "other"} : StartCommand(s)
  BY <1>1, StartKeeps
<1>2. CASE Send
  <2>1. /\ run # Idle /\ attempts < Retries /\ Write /\ toHost' = toHost
        /\ UNCHANGED <<run, runs, row, clean, faults, last, doc, printed>>
    BY <1>2, IcpTypes DEF Send, device
  <2> QED
    BY <2>1, WriteKeeps, IcpTypes DEF Heard
<1>3. CASE Timeout \/ Receive
  BY <1>3, ReadKeeps DEF Timeout, Receive
<1>4. CASE LinkBreaks \/ Crash
  BY <1>4, BreakKeeps
<1>5. CASE Handle
  BY <1>5, HandleKeeps
<1>6. CASE LoseRequest \/ LoseAnswer
  BY <1>6, LoseKeeps
<1>7. CASE UNCHANGED vars
  <2>1. /\ UNCHANGED <<run, runs, row, clean>> /\ attempts' = attempts /\ faults' = faults
        /\ UNCHANGED <<last, doc, printed>> /\ toDevice' = toDevice /\ toHost' = toHost
    BY <1>7 DEF vars, device
  <2>2. attempts' \in 0..Retries /\ faults' \in 0..MaxFaults
    BY <2>1 DEF IInv, TypeOK
  <2>3. Lossy
    BY <2>1, IcpTypes DEF Lossy, Heard
  <2> QED
    BY <2>1, <2>2, <2>3, LossKeeps
<1> QED
  BY <1>1, <1>2, <1>3, <1>4, <1>5, <1>6, <1>7 DEF Next, HostStep

\* The invariant holds when a late answer does not reach the next connection:
\* a command that follows an accepted open finds its own document or none,
\* whichever answers the host took for those of its commands.
THEOREM IcpInvariant ==
    ASSUME ~SerialLine
    PROVE  Spec => []IInv
<1>1. Init => IInv
  BY IcpInit
<1>2. IInv /\ [Next]_vars => IInv'
  BY IcpStep
<1> QED
  BY <1>1, <1>2, PTL DEF Spec

\* AtMostOnePrint: a receipt that goes through the journal is printed once at
\* most, though any answer may be taken for that of its close.
THEOREM PrintedOnce ==
    ASSUME ~SerialLine
    PROVE  Spec => []AtMostOnePrint
<1>1. IInv => AtMostOnePrint
  BY DEF IInv
<1> QED
  BY <1>1, IcpInvariant, PTL

\* FailedMeansNotPrinted: a row that lets the next POST print belongs to a
\* receipt that was not printed.
THEOREM FailedNotPrinted ==
    ASSUME ~SerialLine
    PROVE  Spec => []FailedMeansNotPrinted
<1>1. IInv => FailedMeansNotPrinted
  BY DEF IInv, Rows, FailedMeansNotPrinted
<1> QED
  BY <1>1, IcpInvariant, PTL

\* OneSaleADocument: no document holds lines of two sales.
THEOREM DocumentsDoNotMix ==
    ASSUME ~SerialLine
    PROVE  Spec => []OneSaleADocument
<1>1. IInv => OneSaleADocument
  BY DEF IInv, Papers, Pure, OneSaleADocument
<1> QED
  BY <1>1, IcpInvariant, PTL

\* ResetMeansClean: after a reset that reports a clean device no receipt that
\* could be aborted is open.
THEOREM ResetIsRight ==
    ASSUME ~SerialLine
    PROVE  Spec => []ResetMeansClean
<1>1. IInv => ResetMeansClean
  BY DEF IInv, Resets, NoneOpen, ResetMeansClean
<1> QED
  BY <1>1, IcpInvariant, PTL

-----------------------------------------------------------------------------
(* Whatever the line is.  With SerialLine a late answer may be taken for   *)
(* that of a later run, and the invariant above is lost.  What the host    *)
(* does by itself still holds: a run that has sent a close has marked its  *)
(* row before, and nobody repeats it.                                      *)

Answers == (Code \ {"E101"}) \cup {"noise"}
Stages == {"printing", "paying", "closing"}

\* Commands about a document are of one.
OwnCommands ==
    \A k \in DOMAIN toDevice : toDevice[k].cmd \in Early \cup Late => toDevice[k].of \in Document

\* A close is on its way only for a row that forbids another run.
ClosesForbid ==
    \A r \in Sale : Sent(r) =>
        /\ row[r] \in {"pending", "done"}
        /\ run.of = r => run.stage = "closing"

HostInv == TypeOK /\ Running /\ OwnCommands /\ ClosesForbid /\ last.code # "E101"

LEMMA HostTypes ==
    ASSUME HostInv
    PROVE  /\ MaxRuns \in Nat /\ MaxFaults \in Nat /\ Retries \in Nat \ {0}
           /\ NoDoc \notin Document /\ Document = Sale \cup Invoice /\ Sale \cap Invoice = {}
           /\ run \in Run /\ runs \in 0..MaxRuns /\ attempts \in 0..Retries
           /\ toDevice \in Seq(Request) /\ toHost \in Seq(Answers)
           /\ last \in [to : Request \cup {NoDoc}, code : Code]
           /\ printed \in Seq(Paper) /\ doc \in Paper \cup {NoDoc}
           /\ row \in [Sale -> {"none", "pending", "failed", "done"}]
           /\ clean \in BOOLEAN /\ faults \in 0..MaxFaults
  BY IcpAssumption DEF HostInv, TypeOK, Answers, Document

LEMMA TypesAgain ==
    ASSUME run' \in Run, runs' \in 0..MaxRuns, attempts' \in 0..Retries,
           toDevice' \in Seq(Request), toHost' \in Seq(Answers),
           last' \in [to : Request \cup {NoDoc}, code : Code],
           printed' \in Seq(Paper), doc' \in Paper \cup {NoDoc},
           row' \in [Sale -> {"none", "pending", "failed", "done"}],
           clean' \in BOOLEAN, faults' \in 0..MaxFaults
    PROVE  TypeOK'
  BY DEF TypeOK, Answers, Document, Paper, Run, Code, Request, Step

\* Requests on the wire are those of before, or the command the run is at.
OldOrOwn ==
    /\ toDevice' \in Seq(Request)
    /\ \A k \in DOMAIN toDevice' :
          \/ \E i \in DOMAIN toDevice : toDevice'[k] = toDevice[i]
          \/ run # Idle /\ toDevice'[k].cmd = run.step /\ toDevice'[k].of = run.of

LEMMA TailIsOld ==
    ASSUME HostInv, toDevice # <<>>, toDevice' = Tail(toDevice)
    PROVE  /\ OldOrOwn /\ 1 \in DOMAIN toDevice /\ Head(toDevice) = toDevice[1]
           /\ toDevice[1] \in Request
           /\ \A k \in DOMAIN toDevice' : \E i \in DOMAIN toDevice : toDevice'[k] = toDevice[i]
<1>0. toDevice \in Seq(Request)
  BY HostTypes
<1>1. /\ Len(toDevice) \in Nat /\ DOMAIN toDevice = 1..Len(toDevice) /\ Len(toDevice) > 0
      /\ Head(toDevice) = toDevice[1]
  BY <1>0, LenProperties, EmptySeq
<1>2. /\ Len(toDevice') = Len(toDevice) - 1 /\ toDevice' \in Seq(Request)
      /\ \A i \in 1..Len(toDevice') : toDevice'[i] = toDevice[i + 1]
  BY <1>0, HeadTailProperties
<1>3. DOMAIN toDevice' = 1..Len(toDevice')
  BY <1>2, LenProperties
<1>4. \A k \in DOMAIN toDevice' : k + 1 \in DOMAIN toDevice /\ toDevice'[k] = toDevice[k + 1]
  BY <1>1, <1>2, <1>3
<1>5. 1 \in DOMAIN toDevice /\ toDevice[1] \in Request
  BY <1>0, <1>1, ElementOfSeq
<1> QED
  BY <1>1, <1>2, <1>4, <1>5 DEF OldOrOwn

LEMMA WriteIsOwn ==
    ASSUME HostInv, run # Idle, Write
    PROVE  OldOrOwn
<1> DEFINE q == [run |-> runs, cmd |-> run.step, of |-> run.of]
<1>0. toDevice \in Seq(Request) /\ run \in Run /\ runs \in 1..MaxRuns
  BY HostTypes DEF HostInv, Running
<1>1. q \in Request /\ q.cmd = run.step /\ q.of = run.of
  BY <1>0 DEF Request, Run
<1> HIDE DEF q
<1>2. CASE toDevice' = toDevice
  BY <1>0, <1>2 DEF OldOrOwn
<1>3. CASE toDevice' = Append(toDevice, q)
  <2>1. /\ toDevice' \in Seq(Request) /\ Len(toDevice') = Len(toDevice) + 1
        /\ toDevice'[Len(toDevice) + 1] = q
        /\ \A k \in 1..Len(toDevice) : toDevice'[k] = toDevice[k]
    BY <1>0, <1>1, <1>3, AppendProperties
  <2>2. /\ DOMAIN toDevice' = 1..(Len(toDevice) + 1) /\ DOMAIN toDevice = 1..Len(toDevice)
        /\ Len(toDevice) \in Nat
    BY <1>0, <2>1, LenProperties
  <2>3. \A k \in DOMAIN toDevice' : k \in DOMAIN toDevice \/ k = Len(toDevice) + 1
    BY <2>2
  <2> QED
    BY <1>1, <2>1, <2>2, <2>3 DEF OldOrOwn
<1> QED
  BY <1>2, <1>3 DEF Write, q

\* Old requests, and the command of the run, keep the promise about closes.
LEMMA RequestsKeep ==
    ASSUME HostInv, OldOrOwn, run' = run, runs' = runs, row' = row
    PROVE  Running' /\ OwnCommands' /\ ClosesForbid'
<1>0. Sale \subseteq Document
  BY HostTypes
<1>r. Running'
  BY DEF HostInv, Running, Document
<1>1. OwnCommands'
  BY <1>0 DEF OldOrOwn, HostInv, OwnCommands, Running, Document
<1>2. ClosesForbid'
  <2>1. ASSUME NEW r \in Sale, Sent(r)', ~Sent(r)
        PROVE  run.of = r /\ run.step \in Closers
    BY <2>1 DEF Sent, OldOrOwn
  <2>2. ASSUME NEW r \in Sale, run.of = r, run.step \in Closers
        PROVE  row[r] = "pending" /\ run.stage = "closing"
    BY <2>2 DEF HostInv, Running
  <2> QED
    BY <2>1, <2>2 DEF HostInv, ClosesForbid
<1> QED
  BY <1>r, <1>1, <1>2

\* What a route may do after an answer: end, or go on to its next command.
NextCommand(s, g) ==
    /\ Goto(s, g) /\ run.step \in Early \cup Late
    /\ run.of \in Sale =>
          /\ s \in Closers \cup {"number"} => g = "closing"
          /\ g = "closing" => s \in Closers \cup {"number", "abort"}
          /\ run.stage = "closing" => g = "closing"

LEMMA AdvanceGoesOnOrEnds ==
    ASSUME HostInv, run # Idle, NEW code \in Code, Advance(code)
    PROVE  \/ \E ok \in BOOLEAN : Release(ok)
           \/ \E s \in Early \cup Late, g \in Stages : NextCommand(s, g)
<1>0. /\ run.step \in Early \cup Late \cup Single /\ run.stage \in Stages
      /\ run.of \in Sale =>
           /\ run.step \in Closers \cup {"number"} => run.stage = "closing"
           /\ run.stage = "closing" => run.step \in Closers \cup {"number", "abort"}
  <2>1. run \in Run
    BY HostTypes
  <2>2. run.step \in Step /\ run.step # "idle" /\ run.stage \in Stages
    BY <2>1 DEF HostInv, Running, Run, Stages
  <2>3. run.step \in Early \cup Late \cup Single
    BY <2>2 DEF Step, Early, Late, Single
  <2> QED
    BY <2>2, <2>3 DEF HostInv, Running
<1>1. /\ {"open", "abortInvoice"} \subseteq Early
      /\ {"comment", "item", "pay", "full", "close", "number", "abort"} \subseteq Late
      /\ Closers = {"full", "close"} /\ {"printing", "paying", "closing"} \subseteq Stages
  BY DEF Early, Late, Closers, Stages
<1>2. CASE \E ok \in BOOLEAN : Release(ok)
  BY <1>2
<1>3. CASE ~\E ok \in BOOLEAN : Release(ok)
  <2>1. run.step \notin Single \cup {"number", "abort"}
    BY <1>3 DEF Advance, Single
  <2>2. run.step \in Early \cup Late
    BY <1>0, <2>1
  <2>3. CASE Goto("abort", run.stage)
    BY <1>0, <1>1, <2>2, <2>3 DEF NextCommand
  <2>4. CASE run.step = "open" /\ ~Goto("abort", run.stage)
    <3>1. Goto(IF run.of \in Invoice THEN "comment" ELSE "item", "printing")
      BY <1>3, <2>4 DEF Advance, AfterOpen
    <3> QED
      BY <1>0, <1>1, <2>2, <2>4, <3>1 DEF NextCommand
  <2>5. CASE run.step = "openInvoice" /\ ~Goto("abort", run.stage)
    <3>1. Goto("item", "printing") \/ Goto("abortInvoice", "printing")
      BY <1>3, <2>5 DEF Advance, AfterOpenInvoice
    <3> QED
      BY <1>0, <1>1, <2>2, <2>5, <3>1 DEF NextCommand
  <2>6. CASE run.step = "abortInvoice" /\ ~Goto("abort", run.stage)
    <3>1. Goto("open", "printing")
      BY <1>3, <2>6 DEF Advance
    <3> QED
      BY <1>0, <1>1, <2>2, <2>6, <3>1 DEF NextCommand
  <2>7. CASE run.step = "comment" /\ ~Goto("abort", run.stage)
    <3>1. Goto("item", "printing")
      BY <1>3, <2>7 DEF Advance
    <3> QED
      BY <1>0, <1>1, <2>2, <2>7, <3>1 DEF NextCommand
  <2>8. CASE run.step = "item" /\ ~Goto("abort", run.stage)
    <3>1. \/ Goto("pay", IF run.of \in Sale THEN "paying" ELSE "printing")
          \/ Goto("full", IF run.of \in Sale THEN "closing" ELSE "printing")
      BY <2>8 DEF Advance, AfterItems
    <3> QED
      BY <1>0, <1>1, <2>2, <2>8, <3>1 DEF NextCommand
  <2>9. CASE run.step = "pay" /\ ~Goto("abort", run.stage)
    <3>1. Goto("close", IF run.of \in Sale THEN "closing" ELSE "printing")
      BY <2>9 DEF Advance
    <3> QED
      BY <1>0, <1>1, <2>2, <2>9, <3>1 DEF NextCommand
  <2>10. CASE run.step = "full" /\ ~Goto("abort", run.stage)
    <3>1. Goto(IF run.of \in Sale THEN "number" ELSE "close", run.stage)
      BY <2>10 DEF Advance
    <3> QED
      BY <1>0, <1>1, <2>2, <2>10, <3>1 DEF NextCommand
  <2>11. CASE run.step = "close" /\ ~Goto("abort", run.stage)
    <3>1. Goto("number", run.stage)
      BY <2>11 DEF Advance
    <3> QED
      BY <1>0, <1>1, <2>2, <2>11, <3>1 DEF NextCommand
  <2> QED
    BY <2>1, <2>2, <2>3, <2>4, <2>5, <2>6, <2>7, <2>8, <2>9, <2>10, <2>11 DEF Early, Late
<1> QED
  BY <1>2, <1>3

\* The end of a run, or its next command.
LEMMA HostMoves ==
    ASSUME HostInv, run # Idle,
           \/ \E ok \in BOOLEAN : Release(ok)
           \/ \E s \in Early \cup Late, g \in Stages : NextCommand(s, g)
           \/ run' = Idle /\ attempts' = 0 /\ row' = row,
           runs' = runs, toDevice' = toDevice, toHost' \in Seq(Answers), clean' \in BOOLEAN,
           UNCHANGED <<last, doc, printed, faults>>
    PROVE  HostInv'
<1>0. /\ run \in Run /\ runs \in 0..MaxRuns /\ toDevice \in Seq(Request) /\ Retries \in Nat
      /\ last \in [to : Request \cup {NoDoc}, code : Code]
      /\ printed \in Seq(Paper) /\ doc \in Paper \cup {NoDoc} /\ faults \in 0..MaxFaults
      /\ row \in [Sale -> {"none", "pending", "failed", "done"}]
      /\ NoDoc \notin Document /\ Document = Sale \cup Invoice
  BY HostTypes
<1>1. /\ Idle \in Run /\ Idle.step = "idle" /\ Idle.of = NoDoc /\ "idle" \notin Early \cup Late
  BY DEF Idle, Run, Step, Early, Late
<1>2. CASE (run' = Idle /\ attempts' = 0 /\ row' = row) \/ \E ok \in BOOLEAN : Release(ok)
  <2>1. /\ run' = Idle /\ attempts' = 0
        /\ row' \in [Sale -> {"none", "pending", "failed", "done"}]
        /\ \A r \in Sale : \/ row'[r] = row[r]
                           \/ r = run.of /\ row'[r] \in {"done", "pending", "failed"}
                                         /\ (run.stage = "closing" => row'[r] # "failed")
    <3>1. CASE row' = row
      BY <1>0, <1>2, <3>1 DEF Release
    <3>2. CASE row' # row
      <4>1. PICK ok \in BOOLEAN : Release(ok)
        BY <1>2, <3>2
      <4>2. run' = Idle /\ attempts' = 0 /\ run.of \in Sale
            /\ row' = [row EXCEPT ![run.of] = RowAfter(run, ok)]
        BY <3>2, <4>1 DEF Release
      <4>3. /\ RowAfter(run, ok) \in {"done", "pending", "failed"}
            /\ run.stage = "closing" => RowAfter(run, ok) # "failed"
        BY DEF RowAfter, UnknownStages
      <4> QED
        BY <1>0, <4>2, <4>3
    <3> QED
      BY <3>1, <3>2
  <2>2. TypeOK'
    BY <1>0, <1>1, <2>1, TypesAgain
  <2>3. Running'
    BY <1>0, <1>1, <2>1 DEF Running, Closers
  <2>4. OwnCommands'
    BY DEF HostInv, OwnCommands, Document
  <2>5. ClosesForbid'
    <3>1. ASSUME NEW r \in Sale, Sent(r)
          PROVE  row'[r] \in {"pending", "done"} /\ run'.of # r
      BY <1>0, <1>1, <2>1, <3>1 DEF HostInv, ClosesForbid
    <3> QED
      BY <3>1 DEF ClosesForbid, Sent
  <2> QED
    BY <2>2, <2>3, <2>4, <2>5 DEF HostInv
<1>3. CASE \E s \in Early \cup Late, g \in Stages : NextCommand(s, g)
  <2>1. PICK s \in Early \cup Late, g \in Stages : NextCommand(s, g)
    BY <1>3
  <2>2. /\ run' = [run EXCEPT !.step = s, !.stage = g] /\ attempts' = 0 /\ row' = row
        /\ s \in Step /\ s # "idle"
    BY <2>1 DEF NextCommand, Goto, Early, Late, Step
  <2>3. /\ run' \in Run /\ run'.step = s /\ run'.stage = g /\ run'.of = run.of
    BY <1>0, <2>1, <2>2 DEF Run, Stages
  <2>4. TypeOK'
    BY <1>0, <2>2, <2>3, TypesAgain
  <2>5. Running'
    BY <1>1, <2>1, <2>2, <2>3 DEF HostInv, Running, NextCommand, Document
  <2>6. OwnCommands'
    BY DEF HostInv, OwnCommands, Document
  <2>7. ClosesForbid'
    BY <2>1, <2>2, <2>3 DEF HostInv, ClosesForbid, NextCommand, Sent
  <2> QED
    BY <2>4, <2>5, <2>6, <2>7 DEF HostInv
<1> QED
  BY <1>2, <1>3

\* A route begins: its receipt has no close on its way.
LEMMA HostBegins ==
    ASSUME HostInv, NEW r \in Run, Begin(r), r.stage = "printing",
           r.step \in Early \cup Single, r.step \in Early <=> r.of \in Document,
           IF r.of \in Sale
           THEN /\ r.step = "open" /\ row[r.of] \in {"none", "failed"}
                /\ row' = [row EXCEPT ![r.of] = "pending"]
           ELSE row' = row
    PROVE  HostInv'
<1>0. /\ run' = r /\ runs' = runs + 1 /\ runs \in Nat /\ runs' \in 0..MaxRuns /\ attempts' = 0
      /\ 0 \in 0..Retries /\ clean' = FALSE /\ toHost' = <<>> /\ toDevice' = toDevice
      /\ UNCHANGED <<last, doc, printed, faults>>
      /\ row \in [Sale -> {"none", "pending", "failed", "done"}]
      /\ r # Idle /\ r.step # "idle" /\ r.step \notin Late
      /\ Sale \subseteq Document
  <2>1. /\ runs \in 0..MaxRuns /\ MaxRuns \in Nat /\ Retries \in Nat /\ Sale \subseteq Document
        /\ row \in [Sale -> {"none", "pending", "failed", "done"}]
    BY HostTypes
  <2>2. r # Idle /\ r.step # "idle" /\ r.step \notin Late
    BY DEF Idle, Early, Late, Single
  <2> QED
    BY <2>1, <2>2 DEF Begin, Connect, device
<1>1. /\ row' \in [Sale -> {"none", "pending", "failed", "done"}]
      /\ \A x \in Sale : x # r.of => row'[x] = row[x]
      /\ r.of \in Sale => row'[r.of] = "pending"
  BY <1>0
<1>2. TypeOK'
  <2>1. /\ toHost' \in Seq(Answers) /\ toDevice' \in Seq(Request)
        /\ last' \in [to : Request \cup {NoDoc}, code : Code]
        /\ printed' \in Seq(Paper) /\ doc' \in Paper \cup {NoDoc} /\ faults' \in 0..MaxFaults
    BY <1>0, HostTypes
  <2> QED
    BY <1>0, <1>1, <2>1, TypesAgain
<1>3. Running'
  <2>1. Idle.step = "idle"
    BY DEF Idle
  <2> QED
    BY <1>0, <1>1, <2>1 DEF Running, Closers, Document
<1>4. OwnCommands'
  BY <1>0 DEF HostInv, OwnCommands, Document
<1>5. ClosesForbid'
  <2>1. \A x \in Sale : Sent(x) => x # r.of
    BY DEF HostInv, ClosesForbid
  <2> QED
    BY <1>0, <1>1, <2>1 DEF HostInv, ClosesForbid, Sent
<1> QED
  BY <1>0, <1>2, <1>3, <1>4, <1>5 DEF HostInv

LEMMA HostStarts ==
    ASSUME HostInv,
           \/ \E r \in Sale : StartSale(r)
           \/ \E i \in Invoice : StartInvoice(i)
           \/ \E s \in {"reset", "other"} : StartCommand(s)
    PROVE  HostInv'
<1>0. /\ Document = Sale \cup Invoice /\ Sale \cap Invoice = {} /\ NoDoc \notin Document
      /\ Idle \in Run /\ Idle.of = NoDoc /\ Idle.stage = "printing"
  BY HostTypes DEF Idle, Run, Step
<1>1. ASSUME NEW r \in Sale, StartSale(r)
      PROVE  HostInv'
  <2>1. PICK p \in BOOLEAN : Begin([Idle EXCEPT !.step = "open", !.of = r, !.pays = p])
    BY <1>1 DEF StartSale
  <2>2. PICK x : x = [Idle EXCEPT !.step = "open", !.of = r, !.pays = p]
    OBVIOUS
  <2>3. /\ x \in Run /\ x.step = "open" /\ x.of = r /\ x.stage = "printing" /\ r \in Document
        /\ "open" \in Early
    BY <1>0, <2>2 DEF Idle, Run, Step, Early
  <2> QED
    BY <1>1, <2>1, <2>2, <2>3, HostBegins DEF StartSale
<1>2. ASSUME NEW i \in Invoice, StartInvoice(i)
      PROVE  HostInv'
  <2>1. PICK p \in BOOLEAN, s \in {"openInvoice", "open"} :
            Begin([Idle EXCEPT !.step = s, !.of = i, !.pays = p])
    BY <1>2 DEF StartInvoice
  <2>2. PICK x : x = [Idle EXCEPT !.step = s, !.of = i, !.pays = p]
    OBVIOUS
  <2>3. /\ x \in Run /\ x.step = s /\ x.of = i /\ x.stage = "printing" /\ i \in Document \ Sale
        /\ s \in Early
    BY <1>0, <2>2 DEF Idle, Run, Step, Early
  <2> QED
    BY <1>2, <2>1, <2>2, <2>3, HostBegins DEF StartInvoice
<1>3. ASSUME NEW s \in {"reset", "other"}, StartCommand(s)
      PROVE  HostInv'
  <2>1. PICK x : x = [Idle EXCEPT !.step = s]
    OBVIOUS
  <2>2. /\ x \in Run /\ x.step = s /\ x.of = NoDoc /\ x.stage = "printing" /\ NoDoc \notin Sale
        /\ s \in Single \ Early
    BY <1>0, <2>1 DEF Idle, Run, Step, Early, Single
  <2> QED
    BY <1>0, <1>3, <2>1, <2>2, HostBegins DEF StartCommand
<1> QED
  BY <1>1, <1>2, <1>3

\* The host reads, and goes on or writes its command once more.
LEMMA HostReads ==
    ASSUME HostInv, run # Idle, Send \/ Timeout \/ Receive
    PROVE  HostInv'
<1>0. /\ run \in Run /\ runs \in 0..MaxRuns /\ attempts \in 0..Retries /\ Retries \in Nat \ {0}
      /\ last \in [to : Request \cup {NoDoc}, code : Code]
      /\ printed \in Seq(Paper) /\ doc \in Paper \cup {NoDoc} /\ faults \in 0..MaxFaults
      /\ row \in [Sale -> {"none", "pending", "failed", "done"}] /\ clean \in BOOLEAN
      /\ toHost \in Seq(Answers) /\ toDevice \in Seq(Request)
  BY HostTypes
<1>1. /\ UNCHANGED <<runs, last, doc, printed, faults>> /\ runs' = runs
      /\ toHost' \in Seq(Answers)
  <2>1. UNCHANGED <<runs, last, doc, printed, faults>>
    BY DEF Send, Timeout, Receive, device
  <2>2. CASE toHost' = toHost
    BY <1>0, <2>1, <2>2
  <2>3. CASE Receive
    <3>1. PICK n \in 1..Len(toHost) : toHost' = SubSeq(toHost, n + 1, Len(toHost))
      BY <2>3 DEF Receive, TryAgain
    <3>2. /\ Len(toHost) \in Nat /\ n \in Nat
          /\ \A i \in 1..Len(toHost) : toHost[i] \in Answers
      BY <1>0, <3>1, LenProperties, ElementOfSeq
    <3>3. /\ n + 1 \in Int /\ Len(toHost) \in Int
          /\ \A i \in (n + 1)..Len(toHost) : toHost[i] \in Answers
      BY <3>2
    <3> QED
      BY <2>1, <3>1, <3>3, SubSeqProperties
  <2> QED
    BY <2>1, <2>2, <2>3 DEF Send, Timeout, TryAgain
<1>2. \/ Write /\ attempts < Retries /\ UNCHANGED <<run, row, clean>>
      \/ \E code \in Code : Advance(code) /\ UNCHANGED toDevice
  <2>1. CASE Send
    BY <1>0, <2>1 DEF Send
  <2>2. CASE Timeout
    BY <1>0, <2>2 DEF Timeout, TryAgain, Code
  <2>3. CASE Receive
    <3>1. toHost # <<>> /\ Head(toHost) \in Answers
      <4>1. toHost # <<>>
        BY <2>3 DEF Receive
      <4> QED
        BY <1>0, <4>1, HeadTailProperties
    <3>2. CASE Head(toHost) = "noise"
      BY <1>0, <2>3, <3>2 DEF Receive, TryAgain, Code
    <3>3. CASE Head(toHost) # "noise"
      <4>1. Head(toHost) \in Code /\ Advance(Head(toHost)) /\ UNCHANGED toDevice
        BY <2>3, <3>1, <3>3 DEF Receive, Answers
      <4> QED
        BY <4>1
    <3> QED
      BY <3>2, <3>3
  <2> QED
    BY <2>1, <2>2, <2>3
<1>3. CASE Write /\ attempts < Retries /\ UNCHANGED <<run, row, clean>>
  <2>1. OldOrOwn
    BY <1>3, WriteIsOwn
  <2>2. Running' /\ OwnCommands' /\ ClosesForbid'
    BY <1>1, <1>3, <2>1, RequestsKeep
  <2>3. attempts' \in 0..Retries /\ toDevice' \in Seq(Request)
    BY <1>0, <1>3, <2>1 DEF Write, OldOrOwn
  <2>4. TypeOK'
    BY <1>0, <1>1, <1>3, <2>3, TypesAgain
  <2> QED
    BY <1>1, <2>2, <2>4 DEF HostInv
<1>4. CASE \E code \in Code : Advance(code) /\ UNCHANGED toDevice
  <2>1. PICK code \in Code : Advance(code) /\ toDevice' = toDevice
    BY <1>4
  <2>2. clean' \in BOOLEAN
    BY <2>1 DEF Advance, CleanAnswer
  <2> QED
    BY <1>1, <2>1, <2>2, AdvanceGoesOnOrEnds, HostMoves
<1> QED
  BY <1>2, <1>3, <1>4

LEMMA HostBreaks ==
    ASSUME HostInv, LinkBreaks \/ Crash
    PROVE  HostInv'
<1>1. /\ run # Idle /\ runs' = runs /\ toDevice' = toDevice /\ toHost' = <<>> /\ clean' = FALSE
      /\ UNCHANGED <<last, doc, printed, faults>>
      /\ \/ Release(FALSE)
         \/ run' = Idle /\ attempts' = 0 /\ row' = row
  BY DEF LinkBreaks, Crash, device
<1>2. toHost' \in Seq(Answers)
  BY <1>1
<1> QED
  BY <1>1, <1>2, HostMoves

\* The device's papers keep their type, whoever's command it executes, and
\* only a close prints.
LEMMA DeviceTypes ==
    ASSUME HostInv, NEW q \in Request, NEW c \in Code, Answer(q, c),
           q.cmd \in Early \cup Late => q.of \in Document
    PROVE  /\ doc' \in Paper \cup {NoDoc} /\ printed' \in Seq(Paper) /\ c # "E101"
           /\ printed' = printed \/ q.cmd \in Closers
<1>0. /\ printed \in Seq(Paper) /\ doc \in Paper \cup {NoDoc} /\ NoDoc \notin Document
  BY HostTypes
<1>1. c # "E101" /\ ((~Forbidden(q.cmd) /\ Execute(q)) \/ UNCHANGED device)
  BY DEF Answer, Forbidden
<1>2. CASE UNCHANGED device
  BY <1>0, <1>1, <1>2 DEF device
<1>3. CASE ~Forbidden(q.cmd) /\ Execute(q)
  <2>1. CASE q.cmd \in {"open", "openInvoice"}
    <3>1. doc' = [of |-> q.of, lines |-> <<>>, paid |-> FALSE] /\ printed' = printed
      BY <1>3, <2>1 DEF Execute
    <3>2. q.of \in Document
      BY <2>1 DEF Early
    <3>3. <<>> \in Seq(Document)
      OBVIOUS
    <3> QED
      BY <1>0, <1>1, <3>1, <3>2, <3>3 DEF Paper
  <2>2. CASE q.cmd \in {"item", "pay"}
    <3>1. doc \in Paper /\ q.of \in Document
      BY <1>0, <1>3, <2>2 DEF Forbidden, IsOpen, Late
    <3>2. /\ printed' = printed
          /\ \/ doc' = [doc EXCEPT !.lines = Append(@, q.of)]
             \/ doc' = [doc EXCEPT !.paid = TRUE]
      BY <1>3, <2>2 DEF Execute
    <3>3. Append(doc.lines, q.of) \in Seq(Document)
      BY <3>1, AppendProperties DEF Paper
    <3> QED
      BY <1>0, <1>1, <3>1, <3>2, <3>3 DEF Paper
  <2>3. CASE q.cmd \in Closers
    <3>1. doc \in Paper /\ doc' = NoDoc /\ printed' = Append(printed, doc)
      BY <1>0, <1>3, <2>3 DEF Forbidden, IsOpen, Closers, Execute
    <3> QED
      BY <1>0, <1>1, <2>3, <3>1, AppendProperties
  <2>4. CASE q.cmd \notin {"open", "openInvoice", "item", "pay"} \cup Closers
    <3>1. printed' = printed /\ (doc' = doc \/ doc' = NoDoc)
      BY <1>3, <2>4 DEF Execute, device, Closers
    <3> QED
      BY <1>0, <1>1, <3>1
  <2> QED
    BY <2>1, <2>2, <2>3, <2>4
<1> QED
  BY <1>1, <1>2, <1>3

\* What the next request is, whoever sent it.
LEMMA NextRequest ==
    ASSUME HostInv, toDevice # <<>>
    PROVE  /\ Head(toDevice) \in Request /\ \E k \in DOMAIN toDevice : toDevice[k] = Head(toDevice)
           /\ Head(toDevice).cmd \in Early \cup Late => Head(toDevice).of \in Document
<1>1. toDevice \in Seq(Request) /\ Len(toDevice) \in Nat /\ DOMAIN toDevice = 1..Len(toDevice)
  BY HostTypes, LenProperties
<1>2. 1 \in DOMAIN toDevice /\ Head(toDevice) = toDevice[1] /\ Head(toDevice) \in Request
  BY <1>1, EmptySeq, HeadTailProperties
<1> QED
  BY <1>2 DEF HostInv, OwnCommands

LEMMA HostServed ==
    ASSUME HostInv, Handle
    PROVE  HostInv'
<1>0. /\ toDevice # <<>> /\ toDevice' = Tail(toDevice)
      /\ run' = run /\ runs' = runs /\ attempts' = attempts /\ row' = row /\ clean' = clean
      /\ faults' = faults
  BY DEF Handle
<1>1. PICK q \in Request : q = Head(toDevice) /\ (q.cmd \in Early \cup Late => q.of \in Document)
  BY <1>0, NextRequest
<1>2. PICK c \in Code :
         /\ Reply(q, c)
         /\ \/ last.to = q /\ last.code = c /\ UNCHANGED <<last, doc, printed>>
            \/ last.to # q /\ Answer(q, c) /\ last' = [to |-> q, code |-> c]
  BY <1>1 DEF Handle
<1>3. /\ doc' \in Paper \cup {NoDoc} /\ printed' \in Seq(Paper) /\ c # "E101"
      /\ last' \in [to : Request \cup {NoDoc}, code : Code] /\ last'.code # "E101"
  <2>1. CASE last.to = q /\ last.code = c /\ UNCHANGED <<last, doc, printed>>
    <3>1. last.code # "E101"
      BY DEF HostInv
    <3> QED
      BY <2>1, <3>1, HostTypes
  <2>2. CASE Answer(q, c) /\ last' = [to |-> q, code |-> c]
    BY <1>1, <2>2, DeviceTypes
  <2> QED
    BY <1>2, <2>1, <2>2
<1>4. toHost' \in Seq(Answers)
  <2>1. toHost \in Seq(Answers) /\ c \in Answers
    BY <1>3, HostTypes DEF Answers
  <2>2. toHost' = toHost \/ toHost' = Append(toHost, c)
    BY <1>2 DEF Reply
  <2> QED
    BY <2>1, <2>2, AppendProperties
<1>5. OldOrOwn
  BY <1>0, TailIsOld
<1>6. Running' /\ OwnCommands' /\ ClosesForbid'
  BY <1>0, <1>5, RequestsKeep
<1>7. TypeOK'
  <2>1. /\ run \in Run /\ runs \in 0..MaxRuns /\ attempts \in 0..Retries
        /\ row \in [Sale -> {"none", "pending", "failed", "done"}] /\ clean \in BOOLEAN
        /\ faults \in 0..MaxFaults
    BY HostTypes
  <2> QED
    BY <1>0, <1>3, <1>4, <1>5, <2>1, TypesAgain DEF OldOrOwn
<1> QED
  BY <1>3, <1>6, <1>7 DEF HostInv

LEMMA HostLoses ==
    ASSUME HostInv, LoseRequest \/ LoseAnswer
    PROVE  HostInv'
<1>0. /\ run \in Run /\ runs \in 0..MaxRuns /\ attempts \in 0..Retries /\ faults \in 0..MaxFaults
      /\ last \in [to : Request \cup {NoDoc}, code : Code] /\ MaxFaults \in Nat
      /\ printed \in Seq(Paper) /\ doc \in Paper \cup {NoDoc} /\ clean \in BOOLEAN
      /\ row \in [Sale -> {"none", "pending", "failed", "done"}]
      /\ toHost \in Seq(Answers) /\ toDevice \in Seq(Request)
  BY HostTypes
<1>1. /\ run' = run /\ runs' = runs /\ attempts' = attempts /\ row' = row /\ clean' = clean
      /\ last' = last /\ doc' = doc /\ printed' = printed /\ faults' = faults + 1
      /\ faults < MaxFaults
  BY DEF LoseRequest, LoseAnswer, device
<1>2. faults' \in 0..MaxFaults
  BY <1>0, <1>1
<1>3. OldOrOwn
  <2>1. CASE LoseRequest
    BY <2>1, TailIsOld DEF LoseRequest
  <2>2. CASE LoseAnswer
    <3>1. toDevice' = toDevice
      BY <2>2 DEF LoseAnswer
    <3> QED
      BY <1>0, <3>1 DEF OldOrOwn
  <2> QED
    BY <2>1, <2>2
<1>4. toHost' \in Seq(Answers)
  <2>0. "noise" \in Answers
    BY DEF Answers
  <2>1. CASE LoseRequest
    <3>1. toHost' = toHost \/ toHost' = Append(toHost, "noise")
      BY <2>1 DEF LoseRequest, Reply
    <3>2. Append(toHost, "noise") \in Seq(Answers)
      BY <1>0, <2>0, AppendProperties
    <3> QED
      BY <1>0, <3>1, <3>2
  <2>2. CASE LoseAnswer
    <3>1. toHost # <<>> /\ (toHost' = Tail(toHost) \/ toHost' = <<"noise">> \o Tail(toHost))
      BY <2>2 DEF LoseAnswer
    <3>2. Tail(toHost) \in Seq(Answers) /\ <<"noise">> \in Seq(Answers)
      BY <1>0, <2>0, <3>1, HeadTailProperties
    <3> QED
      BY <3>1, <3>2, ConcatProperties
  <2> QED
    BY <2>1, <2>2
<1>5. Running' /\ OwnCommands' /\ ClosesForbid'
  BY <1>1, <1>3, RequestsKeep
<1>6. TypeOK'
  BY <1>0, <1>1, <1>2, <1>3, <1>4, TypesAgain DEF OldOrOwn
<1> QED
  BY <1>1, <1>5, <1>6 DEF HostInv

LEMMA HostStepKeeps ==
    ASSUME HostInv, [Next]_vars
    PROVE  HostInv'
<1>1. CASE \/ \E r \in Sale : StartSale(r)
           \/ \E i \in Invoice : StartInvoice(i)
           \/ \E s \in {"reset", "other"} : StartCommand(s)
  BY <1>1, HostStarts
<1>2. CASE Send \/ Timeout \/ Receive
  BY <1>2, HostReads DEF Send, Timeout, Receive
<1>3. CASE LinkBreaks \/ Crash
  BY <1>3, HostBreaks
<1>4. CASE Handle
  BY <1>4, HostServed
<1>5. CASE LoseRequest \/ LoseAnswer
  BY <1>5, HostLoses
<1>6. CASE UNCHANGED vars
  <2>1. /\ run' = run /\ runs' = runs /\ row' = row /\ toDevice' = toDevice /\ last' = last
    BY <1>6 DEF vars
  <2>2. OldOrOwn
    BY <2>1, HostTypes DEF OldOrOwn
  <2>3. Running' /\ OwnCommands' /\ ClosesForbid'
    BY <2>1, <2>2, RequestsKeep
  <2>4. TypeOK'
    BY <1>6, HostTypes, TypesAgain DEF vars, device
  <2> QED
    BY <2>1, <2>3, <2>4 DEF HostInv
<1> QED
  BY <1>1, <1>2, <1>3, <1>4, <1>5, <1>6 DEF Next, HostStep

LEMMA HostInit ==
    ASSUME Init
    PROVE  HostInv
<1>1. TypeOK /\ Running /\ last.code # "E101"
  BY IcpInit DEF IInv, Believed
<1>2. DOMAIN toDevice = {}
  BY DEF Init
<1> QED
  BY <1>1, <1>2 DEF HostInv, OwnCommands, ClosesForbid, Sent

\* TypeOK, whatever the line: every variable keeps its type, the attempts
\* among them: a command is written MAX_WRITE_RETRIES times at most.
THEOREM IcpTypeCorrect == Spec => []TypeOK
<1>1. HostInv /\ [Next]_vars => HostInv'
  BY HostStepKeeps
<1>2. Init => HostInv
  BY HostInit
<1>3. HostInv => TypeOK
  BY DEF HostInv
<1> QED
  BY <1>1, <1>2, <1>3, PTL DEF Spec

\* A receipt whose row lets the next POST print comes out of the device only
\* by the close of another sale, whose run took a late answer for that of its
\* refused open.  Its own close marks the row before it is sent, so nothing
\* else makes FailedMeansNotPrinted fail on a serial line.
THEOREM OnlyAnotherSaleClosesIt ==
    Spec => [][\A r \in Sale :
                 row[r] \in {"none", "failed"} /\ Copies(r)' # Copies(r) =>
                   /\ Handle /\ Head(toDevice).cmd \in Closers
                   /\ Head(toDevice).of # r]_vars
<1>1. ASSUME HostInv, [Next]_vars, NEW r \in Sale, row[r] \in {"none", "failed"},
             Copies(r)' # Copies(r)
      PROVE  Handle /\ Head(toDevice).cmd \in Closers /\ Head(toDevice).of # r
  <2>0. printed' # printed
    BY <1>1 DEF Copies
  <2>1. Handle
    BY <1>1, <2>0 DEF Next, HostStep, StartSale, StartInvoice, StartCommand, Begin, Send,
                      Timeout, Receive, LinkBreaks, Crash, LoseRequest, LoseAnswer, vars, device
  <2>2. PICK q \in Request : /\ q = Head(toDevice) /\ (q.cmd \in Early \cup Late => q.of \in Document)
                             /\ \E k \in DOMAIN toDevice : toDevice[k] = q
    BY <1>1, <2>1, NextRequest DEF Handle
  <2>3. PICK c \in Code :
           \/ last.to = q /\ last.code = c /\ UNCHANGED <<last, doc, printed>>
           \/ last.to # q /\ Answer(q, c) /\ last' = [to |-> q, code |-> c]
    BY <2>1, <2>2 DEF Handle
  <2>4. Answer(q, c)
    BY <2>0, <2>3
  <2>5. q.cmd \in Closers
    BY <1>1, <2>0, <2>2, <2>4, DeviceTypes
  <2>6. q.of # r
    <3>1. Sent(q.of)
      BY <2>2, <2>5 DEF Sent
    <3> QED
      BY <1>1, <3>1 DEF HostInv, ClosesForbid
  <2> QED
    BY <2>1, <2>2, <2>5, <2>6
<1>2. HostInv /\ [Next]_vars =>
         [\A r \in Sale :
            row[r] \in {"none", "failed"} /\ Copies(r)' # Copies(r) =>
              /\ Handle /\ Head(toDevice).cmd \in Closers
              /\ Head(toDevice).of # r]_vars
  BY <1>1
<1>3. HostInv /\ [Next]_vars => HostInv'
  BY HostStepKeeps
<1>4. Init => HostInv
  BY HostInit
<1> QED
  BY <1>2, <1>3, <1>4, PTL DEF Spec

-----------------------------------------------------------------------------
(* The promise of OnceOnly, which the PM receipt path keeps too.  A row    *)
(* "done" is no more here than a row that nobody prints again: the answer  *)
(* it stands for may have been another command's.                          *)

Verdict == [r \in Sale |-> IF row[r] \in {"none", "failed"} THEN "may" ELSE "unknown"]

\* The documents printed, an invoice being in no journal.
OfSale(paper) == IF paper.of \in Sale THEN paper.of ELSE NoDoc
Journal == [k \in 1..Len(printed) |-> OfSale(printed[k])]

Once == INSTANCE OnceOnly
          WITH Receipt <- Sale, Plain <- NoDoc, verdict <- Verdict, journal <- Journal

LEMMA WithoutSerialLine == ASSUME IInv PROVE HostInv
  BY DEF IInv, HostInv, Queued, OwnCommands, Rows, ClosesForbid, Believed

JournalTyped ==
    /\ Journal \in Seq(Sale \cup {NoDoc}) /\ Len(Journal) = Len(printed)
    /\ DOMAIN Journal = 1..Len(printed) /\ Len(printed) \in Nat

LEMMA JournalIs == TypeOK => JournalTyped
<1> SUFFICES ASSUME TypeOK PROVE JournalTyped
  OBVIOUS
<1>1. Len(printed) \in Nat
  BY LenProperties DEF TypeOK
<1>2. Journal \in [1..Len(printed) -> Sale \cup {NoDoc}]
  BY DEF Journal, OfSale
<1>3. Journal \in Seq(Sale \cup {NoDoc})
  BY <1>1, <1>2, SeqDef
<1>4. Len(Journal) = Len(printed)
  BY <1>1, <1>2, <1>3, LenProperties
<1> QED
  BY <1>1, <1>2, <1>3, <1>4 DEF JournalTyped

LEMMA NotInJournal ==
    ASSUME TypeOK, NEW r \in Sale, Copies(r) = {}
    PROVE  r \notin Once!Documents
<1>1. DOMAIN Journal = 1..Len(printed) /\ NoDoc \notin Sale
  BY JournalIs, IcpAssumption DEF JournalTyped, Document
<1> QED
  BY <1>1 DEF Once!Documents, Journal, OfSale, Copies

\* A row changes, and nothing is printed.
LEMMA RowRefines ==
    ASSUME IInv, IInv', printed' = printed,
           row' = row \/ \E r \in Sale, v \in {"none", "pending", "failed", "done"} :
                            row' = [row EXCEPT ![r] = v]
    PROVE  [Once!Next]_(Once!vars)
<1>0. /\ row \in [Sale -> {"none", "pending", "failed", "done"}]
      /\ Journal' = Journal
  BY DEF IInv, TypeOK, Journal, OfSale
<1>1. CASE row' = row
  BY <1>0, <1>1 DEF Once!vars, Verdict
<1>2. CASE row' # row
  <2>1. PICK r \in Sale, v \in {"none", "pending", "failed", "done"} :
           row' = [row EXCEPT ![r] = v]
    BY <1>2
  <2>2. Verdict' = [Verdict EXCEPT ![r] = IF v \in {"none", "failed"} THEN "may" ELSE "unknown"]
    BY <1>0, <2>1 DEF Verdict
  <2>3. CASE v \in {"none", "failed"}
    <3>1. Copies(r)' = {} /\ Copies(r)' = Copies(r)
      BY <1>0, <2>1, <2>3 DEF IInv, Rows, Copies
    <3>2. r \notin Once!Documents
      BY <3>1, NotInJournal DEF IInv
    <3>3. Once!Release(r)
      BY <1>0, <2>2, <2>3, <3>2 DEF Once!Release
    <3> QED
      BY <3>3 DEF Once!Next
  <2>4. CASE v \notin {"none", "failed"} /\ row[r] \in {"none", "failed"}
    <3>1. Once!Claim(r)
      BY <1>0, <2>2, <2>4 DEF Once!Claim, Verdict
    <3> QED
      BY <3>1 DEF Once!Next
  <2>5. CASE v \notin {"none", "failed"} /\ row[r] \notin {"none", "failed"}
    <3>1. Verdict' = Verdict
      BY <2>2, <2>5 DEF Verdict
    <3> QED
      BY <1>0, <3>1 DEF Once!vars
  <2> QED
    BY <2>3, <2>4, <2>5
<1> QED
  BY <1>1, <1>2

\* A document comes out of the device.
LEMMA PrintRefines ==
    ASSUME IInv, IInv', Handle, printed' # printed
    PROVE  [Once!Next]_(Once!vars)
<1>1. row' = row /\ toDevice # <<>>
  BY DEF Handle
<1>2. PICK k \in DOMAIN toDevice : toDevice[k] = Head(toDevice) /\ Head(toDevice) \in Request
  BY <1>1, NextRequest, WithoutSerialLine
<1>3. PICK q \in Request : q = Head(toDevice) /\ q = toDevice[k]
  BY <1>2
<1>4. PICK c \in Code :
         \/ last.to = q /\ last.code = c /\ UNCHANGED <<last, doc, printed>>
         \/ last.to # q /\ Answer(q, c) /\ last' = [to |-> q, code |-> c]
  BY <1>3 DEF Handle
<1>5. ~Forbidden(q.cmd) /\ Execute(q)
  BY <1>4 DEF Answer, Forbidden, device
<1>6. q.cmd \in Closers /\ doc # NoDoc /\ printed' = Append(printed, doc)
  <2>1. q.cmd \in Closers
    BY <1>5 DEF Execute, device, Closers
  <2> QED
    BY <1>5, <2>1 DEF Execute, Closers, Forbidden, IsOpen
<1>7. /\ printed \in Seq(Paper) /\ doc \in Paper /\ doc.of = q.of /\ Len(printed) \in Nat
      /\ Len(printed') = Len(printed) + 1 /\ printed'[Len(printed) + 1] = doc
      /\ \A i \in 1..Len(printed) : printed'[i] = printed[i]
  <2>1. printed \in Seq(Paper) /\ doc \in Paper /\ Len(printed) \in Nat
    BY <1>6, IcpTypes
  <2>2. doc.of = q.of
    BY <1>3, <1>6 DEF IInv, Opened, Mine, Closers, Late
  <2> QED
    BY <1>6, <2>1, <2>2, AppendProperties
<1>8. Journal' = Append(Journal, OfSale(doc))
  <2>1. /\ Journal \in Seq(Sale \cup {NoDoc}) /\ Len(Journal) = Len(printed)
        /\ OfSale(doc) \in Sale \cup {NoDoc}
    BY JournalIs DEF IInv, OfSale, JournalTyped
  <2>2. Journal' \in Seq(Sale \cup {NoDoc}) /\ Len(Journal') = Len(printed) + 1
    <3>1. TypeOK' => JournalTyped'
      BY JournalIs, PTL
    <3> QED
      BY <1>7, <3>1 DEF IInv, JournalTyped
  <2>3. /\ Append(Journal, OfSale(doc)) \in Seq(Sale \cup {NoDoc})
        /\ Len(Append(Journal, OfSale(doc))) = Len(printed) + 1
        /\ Append(Journal, OfSale(doc))[Len(printed) + 1] = OfSale(doc)
        /\ \A i \in 1..Len(printed) : Append(Journal, OfSale(doc))[i] = Journal[i]
    BY <2>1, AppendProperties
  <2>4. ASSUME NEW i \in 1..(Len(printed) + 1)
        PROVE  Journal'[i] = Append(Journal, OfSale(doc))[i]
    <3>0. Journal'[i] = OfSale(printed'[i])
      BY <1>7 DEF Journal, OfSale
    <3>1. CASE i = Len(printed) + 1
      BY <1>7, <2>3, <3>0, <3>1
    <3>2. CASE i # Len(printed) + 1
      <4>1. i \in 1..Len(printed)
        BY <1>7, <3>2
      <4> QED
        BY <1>7, <2>3, <3>0, <4>1 DEF Journal
    <3> QED
      BY <3>1, <3>2
  <2> QED
    BY <2>2, <2>3, <2>4, SeqEqual
<1>9. Verdict' = Verdict
  BY <1>1 DEF Verdict
<1>10. CASE q.of \in Sale
  <2>1. Sent(q.of) /\ row[q.of] \in {"pending", "done"}
    BY <1>3, <1>6, <1>10 DEF Sent, IInv, Rows
  <2>2. q.of \notin Once!Documents
    <3>1. Copies(q.of) = {}
      BY <1>6, <1>7, <1>10 DEF IInv, NotReopened
    <3> QED
      BY <1>10, <3>1, NotInJournal DEF IInv
  <2>3. Once!Issue(q.of)
    BY <1>7, <1>8, <1>9, <1>10, <2>1, <2>2 DEF Once!Issue, Verdict, OfSale
  <2> QED
    BY <1>10, <2>3 DEF Once!Next
<1>11. CASE q.of \notin Sale
  <2>1. Once!IssuePlain
    BY <1>7, <1>8, <1>9, <1>11 DEF Once!IssuePlain, OfSale
  <2> QED
    BY <2>1 DEF Once!Next
<1> QED
  BY <1>10, <1>11

LEMMA IcpStepRefines ==
    ASSUME IInv, IInv', [Next]_vars
    PROVE  [Once!Next]_(Once!vars)
<1> DEFINE OneRow ==
        row' = row \/ \E r \in Sale, v \in {"none", "pending", "failed", "done"} :
                         row' = [row EXCEPT ![r] = v]
<1>0. HostInv
  BY WithoutSerialLine
<1>r. ASSUME NEW ok \in BOOLEAN, Release(ok) PROVE OneRow
  BY <1>r DEF Release, RowAfter
<1>a. ASSUME NEW code \in Code, run # Idle, Advance(code) PROVE OneRow
  <2>1. \/ \E ok \in BOOLEAN : Release(ok)
        \/ \E s \in Early \cup Late, g \in Stages : NextCommand(s, g)
    BY <1>0, <1>a, AdvanceGoesOnOrEnds
  <2> QED
    BY <1>r, <2>1 DEF NextCommand, Goto
<1>1. CASE \/ \E r \in Sale : StartSale(r)
           \/ \E i \in Invoice : StartInvoice(i)
           \/ \E s \in {"reset", "other"} : StartCommand(s)
  <2>1. OneRow /\ printed' = printed
    BY <1>1 DEF StartSale, StartInvoice, StartCommand, Begin, device
  <2> QED
    BY <2>1, RowRefines
<1>2. CASE Send \/ Timeout \/ Receive
  <2>1. run # Idle /\ printed' = printed
    BY <1>2 DEF Send, Timeout, Receive, device
  <2>2. row' = row \/ \E code \in Code : Advance(code)
    <3>1. CASE Send \/ Timeout
      BY <3>1 DEF Send, Timeout, TryAgain, Code
    <3>2. CASE Receive
      <4>1. toHost # <<>> /\ toHost \in Seq(Answers) /\ Head(toHost) \in Answers
        <5>1. toHost # <<>> /\ toHost \in Seq(Answers)
          BY <1>0, <3>2, HostTypes DEF Receive
        <5> QED
          BY <5>1, HeadTailProperties
      <4> QED
        BY <3>2, <4>1 DEF Receive, TryAgain, Answers, Code
    <3> QED
      BY <1>2, <3>1, <3>2
  <2>3. OneRow
    BY <1>a, <2>1, <2>2
  <2> QED
    BY <2>1, <2>3, RowRefines
<1>3. CASE LinkBreaks \/ Crash
  <2>1. OneRow /\ printed' = printed
    BY <1>3, <1>r DEF LinkBreaks, Crash, device
  <2> QED
    BY <2>1, RowRefines
<1>4. CASE Handle
  <2>1. row' = row
    BY <1>4 DEF Handle
  <2> QED
    BY <1>4, <2>1, RowRefines, PrintRefines
<1>5. CASE LoseRequest \/ LoseAnswer \/ UNCHANGED vars
  <2>1. row' = row /\ printed' = printed
    BY <1>5 DEF LoseRequest, LoseAnswer, vars, device
  <2> QED
    BY <2>1, RowRefines
<1> QED
  BY <1>1, <1>2, <1>3, <1>4, <1>5 DEF Next, HostStep

\* The ICP family keeps the promise that a receipt is printed at most once
\* (OnceOnly), as the PM receipt path does, without matching answers.
THEOREM IcpRefinesOnceOnly ==
    ASSUME ~SerialLine
    PROVE  Spec => Once!Spec
<1>1. Init => Once!Init
  <2> SUFFICES ASSUME Init PROVE Once!Init
    OBVIOUS
  <2>1. TypeOK /\ printed = <<>> /\ row = [r \in Sale |-> "none"]
    BY IcpInit DEF IInv, Init
  <2>2. Journal = <<>>
    BY <2>1, JournalIs, EmptySeq DEF JournalTyped
  <2>3. Verdict = [r \in Sale |-> "may"]
    BY <2>1 DEF Verdict
  <2> QED
    BY <2>2, <2>3 DEF Once!Init
<1>2. IInv /\ IInv' /\ [Next]_vars => [Once!Next]_(Once!vars)
  BY IcpStepRefines
<1> QED
  BY <1>1, <1>2, IcpInvariant, PTL DEF Spec, Once!Spec
==============================================================================
