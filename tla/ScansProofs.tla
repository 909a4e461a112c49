----------------------------- MODULE ScansProofs -----------------------------
(***************************************************************************)
(* Theorems about Scans, for any devices, streams, clients and bounds: a   *)
(* barcode is one scan, streams are complete unless their own queue was    *)
(* full, the answers of a client's polls move forward, and only what a     *)
(* cancelled wait leaves behind takes a scan from the next poll.           *)
(***************************************************************************)
EXTENDS Scans, FiniteSetTheorems, SequenceTheorems, TLAPS

-----------------------------------------------------------------------------
(* The inductive invariant.                                                *)

Event == [scan : Scan, parts : SUBSET Scan, dev : Device, bus : Nat]
Subscription == {NoBus} \cup [dev : Device, bus : Nat]

PlugTyped ==
    /\ kind \in [Device -> Kind] /\ present \in [Device -> BOOLEAN]
    /\ udev \in Seq(Device \X {"add", "remove"}) /\ plugs \in 0..MaxPlugs
    /\ bus \in [Device -> Nat]

DriverTyped ==
    /\ thread \in [Device -> {"off", "read", "reopen", "ended"}]
    /\ conn \in [Device -> BOOLEAN] /\ force \in [Device -> BOOLEAN]
    /\ half \in [Device -> 0..MaxScans] /\ buf \in [Device -> SUBSET Scan]
    /\ made \in 0..MaxScans /\ ready \in Seq(Event)

StreamsTyped ==
    /\ sub \in [Stream -> Subscription]
    /\ queue \in [Stream -> Seq(Scan)] /\ \A s \in Stream : Len(queue[s]) <= QueueSize
    /\ due \in [Stream -> Seq(Scan)] /\ full \in [Stream -> BOOLEAN]

IotTyped ==
    /\ poll \in [Client -> SUBSET Ident]
    /\ waiters \in [Ident -> SUBSET (Client \cup {Cancelled})]
    /\ pending \in [Ident -> 0..MaxScans]
    /\ held \in [Client -> [Ident -> 0..MaxScans]]
    /\ told \in [Client -> [Ident -> 0..MaxScans]]

\* A thread that is not reading has an empty buffer; one that reads has no
\* more in it than the part of the scan that its device has sent.
Lines ==
    \A d \in Device :
        /\ thread[d] # "read" => buf[d] = {}
        /\ thread[d] = "read" /\ conn[d] /\ force[d] => buf[d] = {}
        /\ Reads(d) => buf[d] \subseteq {half[d]}

\* What waits for the event loop was one scan each.
Whole == \A k \in 1..Len(ready) : ready[k].parts = {ready[k].scan}

\* Scan n is older than every scan of d that was not published yet: one in
\* sequence r, the unfinished one in h, those after number m.
Older(d, n, m, h, r) ==
    /\ n <= m
    /\ h[d] # 0 => n < h[d]
    /\ \A k \in 1..Len(r) : r[k].dev = d => n < r[k].scan

Past(d, n) == Older(d, n, made, half, ready)
WillBePast(d, n) == Older(d, n, made', half', ready')

\* The scans of a device wait for the event loop in their order, the
\* unfinished one is the last.
InOrder ==
    /\ \A d \in Device : half[d] <= made /\ (half[d] # 0 => InProcess(d))
    /\ \A k \in 1..Len(ready) :
          /\ ready[k].scan <= made
          /\ half[ready[k].dev] # 0 => ready[k].scan < half[ready[k].dev]
    /\ \A j, k \in 1..Len(ready) :
          j < k /\ ready[j].dev = ready[k].dev => ready[j].scan < ready[k].scan

\* What clients were told, hold or will find is older than what is to come.
Later ==
    \A i \in Ident :
        /\ Past(i[1], pending[i])
        /\ \A c \in Client : Past(i[1], held[c][i]) /\ Past(i[1], told[c][i])

\* Nothing is buffered while somebody waits, and what is buffered or held is
\* newer than what a client was told.
Waits ==
    \A i \in Ident :
        /\ pending[i] # 0 => waiters[i] = {}
        /\ \A c \in Client :
              /\ pending[i] # 0 => held[c][i] < pending[i] /\ told[c][i] < pending[i]
              /\ held[c][i] # 0 => told[c][i] < held[c][i]

IInv ==
    /\ TypeOK /\ Lines /\ Whole /\ InOrder
    /\ StreamsAreComplete /\ Later /\ Waits

LEMMA TypeParts == TypeOK <=> PlugTyped /\ DriverTyped /\ StreamsTyped /\ IotTyped
  BY DEF TypeOK, PlugTyped, DriverTyped, StreamsTyped, IotTyped, Event, Subscription

LEMMA PrimedTypeParts ==
    TypeOK' <=> PlugTyped' /\ DriverTyped' /\ StreamsTyped' /\ IotTyped'
  BY DEF TypeOK, PlugTyped, DriverTyped, StreamsTyped, IotTyped, Event, Subscription

-----------------------------------------------------------------------------
(* What the steps of the devices do to the scans under way.                *)

\* No scan reaches the event loop: one may begin, others may be cut off.
LEMMA NothingSent ==
    ASSUME IInv, UNCHANGED <<kind, ready>>, made' \in 0..MaxScans, made <= made',
           half' \in [Device -> 0..MaxScans],
           \A d \in Device :
              half'[d] \in {0, half[d]} \/ (half'[d] = made + 1 /\ made' = made + 1 /\ InProcess(d))
    PROVE  /\ Whole' /\ InOrder'
           /\ \A d \in Device, n \in 0..MaxScans : Past(d, n) => WillBePast(d, n)
<1>0. /\ made \in 0..MaxScans /\ ready \in Seq(Event) /\ half \in [Device -> 0..MaxScans]
      /\ MaxScans \in Nat
  BY ScansAssumption, TypeParts DEF IInv, DriverTyped
<1>1. \A k \in 1..Len(ready) : ready[k] \in Event
  BY <1>0, ElementOfSeq
<1>2. Whole'
  BY DEF IInv, Whole
<1>3. InOrder'
  <2>1. \A d \in Device : half'[d] <= made' /\ (half'[d] # 0 => InProcess(d)')
    BY <1>0 DEF IInv, InOrder, InProcess
  <2>2. ASSUME NEW k \in 1..Len(ready)
        PROVE  /\ ready[k].scan <= made'
               /\ half'[ready[k].dev] # 0 => ready[k].scan < half'[ready[k].dev]
    <3>1. ready[k].dev \in Device /\ ready[k].scan \in 1..MaxScans
      BY <1>1 DEF Event, Scan
    <3>2. /\ ready[k].scan <= made
          /\ half[ready[k].dev] # 0 => ready[k].scan < half[ready[k].dev]
      BY DEF IInv, InOrder
    <3> QED
      BY <1>0, <3>1, <3>2
  <2> QED
    BY <2>1, <2>2 DEF IInv, InOrder
<1>4. ASSUME NEW d \in Device, NEW n \in 0..MaxScans, Past(d, n)
      PROVE  WillBePast(d, n)
  BY <1>0, <1>4 DEF Past, WillBePast, Older
<1> QED
  BY <1>2, <1>3, <1>4

\* A scan that is newer than those of its device under way is sent.
LEMMA OneSent ==
    ASSUME IInv, UNCHANGED kind, made' \in 0..MaxScans, made <= made',
           NEW e \in Event, ready' = Append(ready, e),
           e.parts = {e.scan}, e.scan <= made',
           \A k \in 1..Len(ready) : ready[k].dev = e.dev => ready[k].scan < e.scan,
           half' \in [Device -> 0..MaxScans], half'[e.dev] = 0,
           \A d \in Device : half'[d] \in {0, half[d]}
    PROVE  /\ Whole' /\ InOrder' /\ ready' \in Seq(Event)
           /\ \A d \in Device, n \in 0..MaxScans :
                Past(d, n) /\ (d = e.dev => n < e.scan) => WillBePast(d, n)
<1>0. /\ made \in 0..MaxScans /\ ready \in Seq(Event) /\ half \in [Device -> 0..MaxScans]
      /\ MaxScans \in Nat
  BY ScansAssumption, TypeParts DEF IInv, DriverTyped
<1>1. /\ ready' \in Seq(Event) /\ Len(ready') = Len(ready) + 1 /\ Len(ready) \in Nat
      /\ \A k \in 1..Len(ready) : ready'[k] = ready[k]
      /\ ready'[Len(ready) + 1] = e
  BY <1>0, AppendProperties, LenProperties
<1>2. \A k \in 1..Len(ready') : k \in 1..Len(ready) \/ k = Len(ready) + 1
  BY <1>1
<1>3. \A k \in 1..Len(ready) : ready[k].dev \in Device /\ ready[k].scan \in 1..MaxScans
  <2>1. \A k \in 1..Len(ready) : ready[k] \in Event
    BY <1>0, ElementOfSeq
  <2> QED
    BY <2>1 DEF Event, Scan
<1>4. e.dev \in Device /\ e.scan \in 1..MaxScans
  BY DEF Event, Scan
<1>5. Whole'
  BY <1>1, <1>2 DEF IInv, Whole
<1>6. InOrder'
  <2>1. \A d \in Device : half'[d] <= made' /\ (half'[d] # 0 => InProcess(d)')
    BY <1>0 DEF IInv, InOrder, InProcess
  <2>2. ASSUME NEW k \in 1..Len(ready')
        PROVE  /\ ready'[k].scan <= made'
               /\ half'[ready'[k].dev] # 0 => ready'[k].scan < half'[ready'[k].dev]
    <3>1. CASE k \in 1..Len(ready)
      <4>1. /\ ready[k].scan <= made
            /\ half[ready[k].dev] # 0 => ready[k].scan < half[ready[k].dev]
        BY <3>1 DEF IInv, InOrder
      <4> QED
        BY <1>0, <1>1, <1>3, <3>1, <4>1
    <3>2. CASE k = Len(ready) + 1
      BY <1>1, <3>2
    <3> QED
      BY <1>2, <3>1, <3>2
  <2>3. ASSUME NEW j \in 1..Len(ready'), NEW k \in 1..Len(ready'), j < k,
               ready'[j].dev = ready'[k].dev
        PROVE  ready'[j].scan < ready'[k].scan
    <3>1. j \in 1..Len(ready)
      BY <1>1, <1>2, <2>3
    <3>2. CASE k \in 1..Len(ready)
      BY <1>1, <2>3, <3>1, <3>2 DEF IInv, InOrder
    <3>3. CASE k = Len(ready) + 1
      BY <1>1, <2>3, <3>1, <3>3
    <3> QED
      BY <1>2, <3>2, <3>3
  <2> QED
    BY <2>1, <2>2, <2>3 DEF InOrder
<1>7. ASSUME NEW d \in Device, NEW n \in 0..MaxScans, Past(d, n), d = e.dev => n < e.scan
      PROVE  WillBePast(d, n)
  <2>1. n <= made' /\ (half'[d] # 0 => n < half'[d])
    BY <1>0, <1>7 DEF Past, WillBePast, Older
  <2>2. \A k \in 1..Len(ready') : ready'[k].dev = d => n < ready'[k].scan
    BY <1>1, <1>2, <1>7 DEF Past, WillBePast, Older
  <2> QED
    BY <2>1, <2>2 DEF Past, WillBePast, Older
<1> QED
  BY <1>1, <1>5, <1>6, <1>7

\* What is left to show of a step that streams and polls do not see.
LEMMA DeviceStep ==
    ASSUME IInv, UNCHANGED <<streams, iot>>, PlugTyped', DriverTyped', Lines', Whole', InOrder',
           \A d \in Device, n \in 0..MaxScans : Past(d, n) => WillBePast(d, n)
    PROVE  IInv'
<1>1. StreamsTyped /\ IotTyped
  BY TypeParts DEF IInv
<1>2. StreamsTyped' /\ IotTyped'
  BY <1>1 DEF StreamsTyped, IotTyped, streams, iot
<1>3. StreamsAreComplete'
  BY DEF IInv, StreamsAreComplete, streams
<1>4. Waits'
  BY DEF IInv, Waits, iot
<1>5. Later'
  <2> SUFFICES ASSUME NEW i \in Ident
               PROVE  /\ WillBePast(i[1], pending[i])
                      /\ \A c \in Client : WillBePast(i[1], held[c][i]) /\ WillBePast(i[1], told[c][i])
    BY DEF Later, iot, Past, WillBePast
  <2>1. i[1] \in Device
    BY DEF Ident
  <2>2. /\ pending[i] \in 0..MaxScans
        /\ \A c \in Client : held[c][i] \in 0..MaxScans /\ told[c][i] \in 0..MaxScans
    BY <1>1 DEF IotTyped
  <2> QED
    BY <2>1, <2>2 DEF IInv, Later
<1> QED
  BY <1>2, <1>3, <1>4, <1>5, PrimedTypeParts DEF IInv

-----------------------------------------------------------------------------
(* The device and its thread.                                              *)

LEMMA DeviceTypes ==
    ASSUME IInv
    PROVE  /\ PlugTyped /\ DriverTyped /\ StreamsTyped /\ IotTyped
           /\ MaxScans \in Nat /\ MaxPlugs \in Nat
           /\ \A k \in 1..Len(ready) : ready[k] \in Event
  BY TypeParts, ScansAssumption, ElementOfSeq DEF IInv, DriverTyped

LEMMA EmitPreserves ==
    ASSUME IInv, NEW d \in Device, ~InProcess(d), Emit(d)
    PROVE  IInv'
<1> DEFINE e == [scan |-> made + 1, parts |-> {made + 1}, dev |-> d, bus |-> bus[d]]
<1>1. /\ made < MaxScans /\ made' = made + 1 /\ ready' = Append(ready, e)
      /\ UNCHANGED <<kind, present, udev, plugs, bus, thread, conn, force, half, buf>>
      /\ UNCHANGED <<streams, iot>>
  BY DEF Emit, plug
<1>2. e \in Event /\ made' \in 0..MaxScans
  BY <1>1, DeviceTypes DEF PlugTyped, DriverTyped, Event, Scan
<1>3. half[d] = 0
  BY DEF IInv, InOrder
<1>4. \A k \in 1..Len(ready) : ready[k].scan < made + 1
  BY DeviceTypes DEF IInv, InOrder, DriverTyped, Event, Scan
<1>5. \A c \in Device, n \in 0..MaxScans : Past(c, n) => n < made + 1
  BY DeviceTypes DEF Past, Older, DriverTyped
<1>6. /\ Whole' /\ InOrder' /\ ready' \in Seq(Event)
      /\ \A c \in Device, n \in 0..MaxScans : Past(c, n) => WillBePast(c, n)
  <2>1. e.scan = made + 1 /\ e.parts = {e.scan} /\ e.dev = d
    OBVIOUS
  <2>2. made <= made' /\ half' \in [Device -> 0..MaxScans]
    BY <1>1, DeviceTypes DEF DriverTyped
  <2> HIDE DEF e
  <2> QED
    BY <1>1, <1>2, <1>3, <1>4, <1>5, <2>1, <2>2, OneSent
<1>7. PlugTyped' /\ DriverTyped'
  BY <1>1, <1>2, <1>6, DeviceTypes DEF PlugTyped, DriverTyped
<1>8. Lines'
  BY <1>1 DEF IInv, Lines, Reads
<1> QED
  BY <1>1, <1>6, <1>7, <1>8, DeviceStep

LEMMA ScanBeginsPreserves ==
    ASSUME IInv, NEW d \in Device, ScanBegins(d)
    PROVE  IInv'
<1>1. /\ InProcess(d) /\ half[d] = 0 /\ made < MaxScans
      /\ made' = made + 1 /\ half' = [half EXCEPT ![d] = made + 1]
      /\ buf' = IF Reads(d) THEN [buf EXCEPT ![d] = @ \cup {made + 1}] ELSE buf
      /\ UNCHANGED <<kind, present, udev, plugs, bus, thread, conn, force, ready>>
      /\ UNCHANGED <<streams, iot>>
  BY DEF ScanBegins, plug
<1>2. made' \in 0..MaxScans /\ made <= made' /\ made + 1 \in 1..MaxScans
  BY <1>1, DeviceTypes DEF DriverTyped
<1>3. half' \in [Device -> 0..MaxScans] /\ buf' \in [Device -> SUBSET Scan]
  BY <1>1, <1>2, DeviceTypes DEF DriverTyped, Scan
<1>4. /\ Whole' /\ InOrder'
      /\ \A c \in Device, n \in 0..MaxScans : Past(c, n) => WillBePast(c, n)
  <2>1. \A c \in Device :
          half'[c] \in {0, half[c]} \/ (half'[c] = made + 1 /\ made' = made + 1 /\ InProcess(c))
    BY <1>1, DeviceTypes DEF DriverTyped
  <2> QED
    BY <1>1, <1>2, <1>3, <2>1, NothingSent
<1>5. PlugTyped' /\ DriverTyped'
  BY <1>1, <1>2, <1>3, DeviceTypes DEF PlugTyped, DriverTyped
<1>6. Lines'
  <2> SUFFICES ASSUME NEW c \in Device
               PROVE  /\ thread[c] # "read" => buf'[c] = {}
                      /\ thread[c] = "read" /\ conn[c] /\ force[c] => buf'[c] = {}
                      /\ Reads(c) => buf'[c] \subseteq {half'[c]}
    BY <1>1 DEF Lines, Reads
  <2>1. /\ thread[c] # "read" => buf[c] = {}
        /\ thread[c] = "read" /\ conn[c] /\ force[c] => buf[c] = {}
        /\ Reads(c) => buf[c] \subseteq {half[c]}
    BY DEF IInv, Lines
  <2>2. CASE c # d
    <3>1. buf'[c] = buf[c] /\ half'[c] = half[c]
      BY <1>1, <2>2, DeviceTypes DEF DriverTyped
    <3> QED
      BY <2>1, <3>1
  <2>3. CASE c = d /\ Reads(d)
    <3>1. buf[c] = {}
      BY <1>1, <2>1, <2>3, DeviceTypes DEF DriverTyped, Scan
    <3>2. buf'[c] = {made + 1} /\ half'[c] = made + 1
      BY <1>1, <2>3, <3>1, DeviceTypes DEF DriverTyped
    <3> QED
      BY <2>3, <3>2 DEF Reads
  <2>4. CASE c = d /\ ~Reads(d)
    BY <1>1, <2>1, <2>4
  <2> QED
    BY <2>2, <2>3, <2>4
<1> QED
  BY <1>1, <1>4, <1>5, <1>6, DeviceStep

LEMMA ScanEndsPreserves ==
    ASSUME IInv, NEW d \in Device, ScanEnds(d)
    PROVE  IInv'
<1>1. /\ half[d] # 0 /\ half' = [half EXCEPT ![d] = 0]
      /\ UNCHANGED <<kind, present, udev, plugs, bus, thread, conn, force, made>>
      /\ UNCHANGED <<streams, iot>>
  BY DEF ScanEnds, plug
<1>2. /\ half' \in [Device -> 0..MaxScans] /\ half'[d] = 0
      /\ \A c \in Device : half'[c] \in {0, half[c]}
      /\ made' \in 0..MaxScans /\ made <= made' /\ made' = made
  BY <1>1, DeviceTypes DEF DriverTyped
<1>3. PlugTyped'
  BY <1>1, DeviceTypes DEF PlugTyped
<1>4. CASE Reads(d)
  <2>1. buf' = [buf EXCEPT ![d] = {}] /\ ready' = Append(ready, Barcode(d))
    BY <1>4 DEF ScanEnds
  <2>2. buf[d] \subseteq {half[d]}
    BY <1>4 DEF IInv, Lines
  <2>3. /\ Barcode(d) \in Event /\ Barcode(d).scan = half[d] /\ Barcode(d).dev = d
        /\ Barcode(d).parts = {half[d]}
    BY <1>1, <2>2, DeviceTypes DEF Barcode, Event, PlugTyped, DriverTyped, Scan
  <2>4. /\ half[d] <= made
        /\ \A k \in 1..Len(ready) : ready[k].dev = d => ready[k].scan < half[d]
    BY <1>1 DEF IInv, InOrder
  <2>5. /\ Whole' /\ InOrder' /\ ready' \in Seq(Event)
        /\ \A c \in Device, n \in 0..MaxScans : Past(c, n) => WillBePast(c, n)
    <3>1. \A n \in 0..MaxScans : Past(d, n) => n < half[d]
      BY <1>1 DEF Past, Older
    <3> QED
      BY <1>1, <1>2, <2>1, <2>3, <2>4, <3>1, OneSent
  <2>6. DriverTyped'
    BY <1>1, <1>2, <2>1, <2>5, DeviceTypes DEF DriverTyped
  <2>7. Lines'
    BY <1>1, <2>1, DeviceTypes DEF IInv, Lines, Reads, DriverTyped
  <2> QED
    BY <1>1, <1>3, <2>5, <2>6, <2>7, DeviceStep
<1>5. CASE ~Reads(d)
  <2>1. buf' = buf /\ ready' = ready
    BY <1>5 DEF ScanEnds
  <2>2. /\ Whole' /\ InOrder'
        /\ \A c \in Device, n \in 0..MaxScans : Past(c, n) => WillBePast(c, n)
    BY <1>1, <1>2, <2>1, NothingSent
  <2>3. DriverTyped'
    BY <1>1, <1>2, <2>1, DeviceTypes DEF DriverTyped
  <2>4. Lines'
    BY <1>1, <1>5, <2>1, DeviceTypes DEF IInv, Lines, Reads, DriverTyped
  <2> QED
    BY <1>1, <1>3, <2>2, <2>3, <2>4, DeviceStep
<1> QED
  BY <1>4, <1>5

\* Steps that move no scan: the thread, the line, the plug.
LEMMA QuietStep ==
    ASSUME IInv, UNCHANGED <<kind, made, ready, streams, iot>>,
           half' \in [Device -> 0..MaxScans], \A d \in Device : half'[d] \in {0, half[d]},
           PlugTyped', Lines',
           thread' \in [Device -> {"off", "read", "reopen", "ended"}],
           conn' \in [Device -> BOOLEAN], force' \in [Device -> BOOLEAN],
           buf' \in [Device -> SUBSET Scan]
    PROVE  IInv'
<1>1. DriverTyped'
  BY DeviceTypes DEF DriverTyped
<1>2. made' \in 0..MaxScans /\ made <= made'
  BY DeviceTypes DEF DriverTyped
<1>3. /\ Whole' /\ InOrder'
      /\ \A c \in Device, n \in 0..MaxScans : Past(c, n) => WillBePast(c, n)
  BY <1>2, NothingSent
<1> QED
  BY <1>1, <1>3, DeviceStep

LEMMA ThreadPreserves ==
    ASSUME IInv, NEW d \in Device, Thread(d) \/ LineDrops(d) \/ Reset(d)
    PROVE  IInv'
<1>1. /\ UNCHANGED <<kind, present, udev, plugs, bus, half, made, ready>>
      /\ UNCHANGED <<streams, iot>>
  BY DEF Thread, ReadFails, ForcedReopen, Reopen, LineDrops, Reset, plug
<1>2. PlugTyped' /\ half' \in [Device -> 0..MaxScans] /\ \A c \in Device : half'[c] \in {0, half[c]}
  BY <1>1, DeviceTypes DEF PlugTyped, DriverTyped
<1>3. /\ thread' \in [Device -> {"off", "read", "reopen", "ended"}]
      /\ conn' \in [Device -> BOOLEAN] /\ force' \in [Device -> BOOLEAN]
      /\ buf' \in [Device -> SUBSET Scan]
  BY DeviceTypes
  DEF Thread, ReadFails, ForcedReopen, Reopen, LineDrops, Reset, DriverTyped, AfterError, ClearedBuffer
<1>4. Lines'
  <2>1. CASE ReadFails(d) \/ ForcedReopen(d)
    BY <2>1, DeviceTypes
    DEF IInv, Lines, Reads, ReadFails, ForcedReopen, DriverTyped, AfterError, ClearedBuffer
  <2>2. CASE Reopen(d)
    BY <2>2, DeviceTypes DEF IInv, Lines, Reads, Reopen, DriverTyped
  <2>3. CASE LineDrops(d) \/ Reset(d)
    BY <2>3, DeviceTypes DEF IInv, Lines, Reads, LineDrops, Reset, DriverTyped
  <2> QED
    BY <2>1, <2>2, <2>3 DEF Thread
<1> QED
  BY <1>1, <1>2, <1>3, <1>4, QuietStep

LEMMA UdevTail ==
    ASSUME PlugTyped, udev # <<>>
    PROVE  Tail(udev) \in Seq(Device \X {"add", "remove"})
  BY HeadTailProperties DEF PlugTyped

LEMMA UdevAppend ==
    ASSUME PlugTyped, NEW x \in Device \X {"add", "remove"}
    PROVE  Append(udev, x) \in Seq(Device \X {"add", "remove"})
  BY AppendProperties DEF PlugTyped

LEMMA PlugPreserves ==
    ASSUME IInv, NEW d \in Device,
           Unplug(d) \/ PlugIn(d) \/ HandleRemove(d) \/ HandleAdd(d)
    PROVE  IInv'
<1>1. UNCHANGED <<kind, made, ready, streams, iot>>
  BY DEF Unplug, PlugIn, HandleRemove, HandleAdd, driver
<1>2. half' \in [Device -> 0..MaxScans] /\ \A c \in Device : half'[c] \in {0, half[c]}
  <2>1. half' = half \/ half' = [half EXCEPT ![d] = 0]
    BY DEF Unplug, PlugIn, HandleRemove, HandleAdd, driver
  <2> QED
    BY <2>1, DeviceTypes DEF DriverTyped
<1>3. /\ thread' \in [Device -> {"off", "read", "reopen", "ended"}]
      /\ conn' \in [Device -> BOOLEAN] /\ force' \in [Device -> BOOLEAN]
      /\ buf' \in [Device -> SUBSET Scan]
  <2>1. CASE Unplug(d) \/ PlugIn(d)
    BY <2>1, DeviceTypes DEF Unplug, PlugIn, driver, DriverTyped
  <2>2. CASE HandleRemove(d)
    <3>1. \/ UNCHANGED <<thread, conn, force, buf>>
          \/ Removed(d)
      BY <2>2 DEF HandleRemove
    <3> QED
      BY <3>1, DeviceTypes DEF Removed, DriverTyped
  <2>3. CASE HandleAdd(d)
    <3>1. UNCHANGED <<force, buf>> /\ (Added(d) \/ UNCHANGED <<thread, conn>>)
      BY <2>3 DEF HandleAdd
    <3> QED
      BY <3>1, DeviceTypes DEF Added, DriverTyped
  <2> QED
    BY <2>1, <2>2, <2>3
<1>4. PlugTyped'
  <2>1. CASE Unplug(d) \/ PlugIn(d)
    <3>1. /\ UNCHANGED <<kind, bus>> /\ present' \in [Device -> BOOLEAN]
          /\ plugs' = plugs + 1 /\ plugs < MaxPlugs
      BY <2>1, DeviceTypes DEF Unplug, PlugIn, PlugTyped
    <3>2. udev' = Append(udev, <<d, "remove">>) \/ udev' = Append(udev, <<d, "add">>)
      BY <2>1 DEF Unplug, PlugIn
    <3>3. udev' \in Seq(Device \X {"add", "remove"})
      <4>1. <<d, "remove">> \in Device \X {"add", "remove"} /\ <<d, "add">> \in Device \X {"add", "remove"}
        OBVIOUS
      <4> QED
        BY <3>2, <4>1, DeviceTypes, UdevAppend
    <3> QED
      BY <3>1, <3>3, DeviceTypes DEF PlugTyped
  <2>2. CASE HandleRemove(d) \/ HandleAdd(d)
    <3>1. UNCHANGED <<kind, present, plugs>> /\ bus' \in [Device -> Nat]
      BY <2>2, DeviceTypes DEF HandleRemove, HandleAdd, Added, PlugTyped
    <3>2. udev' \in Seq(Device \X {"add", "remove"})
      BY <2>2, DeviceTypes, UdevTail DEF HandleRemove, HandleAdd
    <3> QED
      BY <3>1, <3>2, DeviceTypes DEF PlugTyped
  <2> QED
    BY <2>1, <2>2
<1>5. Lines'
  <2>1. CASE Unplug(d)
    BY <2>1, DeviceTypes DEF IInv, Lines, Reads, Unplug, DriverTyped
  <2>2. CASE PlugIn(d)
    BY <2>2 DEF IInv, Lines, Reads, PlugIn, driver
  <2>3. CASE HandleRemove(d)
    BY <2>3, DeviceTypes DEF IInv, Lines, Reads, HandleRemove, Removed, DriverTyped
  <2>4. CASE HandleAdd(d)
    BY <2>4, DeviceTypes DEF IInv, Lines, Reads, HandleAdd, Added, DriverTyped
  <2> QED
    BY <2>1, <2>2, <2>3, <2>4
<1> QED
  BY <1>1, <1>2, <1>3, <1>4, <1>5, QuietStep

-----------------------------------------------------------------------------
(* The bus.                                                                *)

LEMMA IdentsOfDevice ==
    ASSUME PlugTyped, NEW d \in Device
    PROVE  Idents(d) \subseteq Ident /\ \A i \in Idents(d) : i[1] = d
<1>1. \E T \in SUBSET {"reader", "hac.card", "camera"} : Idents(d) = {d} \X T
  BY DEF Idents, PlugTyped, Kind
<1> QED
  BY <1>1 DEF Ident

LEMMA PublishPreserves ==
    ASSUME IInv, Publish
    PROVE  IInv'
<1> DEFINE e == Head(ready)
           n == e.scan
           I == Idents(e.dev)
           b == [dev |-> e.dev, bus |-> e.bus]
<1>1. /\ ready # <<>> /\ ready' = Tail(ready) /\ FanOut(b, n) /\ Push(I, n)
      /\ UNCHANGED <<kind, present, udev, plugs, bus, thread, conn, force, half, buf, made>>
  BY DEF Publish, plug, driver
<1>2. /\ e = ready[1] /\ e \in Event /\ 1 \in 1..Len(ready)
      /\ ready' \in Seq(Event) /\ Len(ready') = Len(ready) - 1 /\ Len(ready) \in Nat
      /\ \A k \in 1..Len(ready') : ready'[k] = ready[k + 1] /\ k + 1 \in 1..Len(ready)
  <2>1. ready \in Seq(Event) /\ ready # <<>>
    BY <1>1, DeviceTypes DEF DriverTyped
  <2>2. Len(ready) \in Nat /\ Len(ready) # 0
    BY <2>1, LenProperties, EmptySeq
  <2>3. /\ e \in Event /\ Tail(ready) \in Seq(Event) /\ Len(Tail(ready)) = Len(ready) - 1
        /\ \A k \in 1..Len(Tail(ready)) : Tail(ready)[k] = ready[k + 1]
    BY <2>1, HeadTailProperties
  <2>4. e = ready[1]
    BY <2>1
  <2> QED
    BY <1>1, <2>2, <2>3, <2>4
<1>3. e.dev \in Device /\ n \in 1..MaxScans /\ b \in Subscription /\ I \subseteq Ident
      /\ \A i \in I : i[1] = e.dev
  BY <1>2, DeviceTypes, IdentsOfDevice DEF Event, Scan, Subscription
<1>4. Whole' /\ InOrder' /\ Lines' /\ PlugTyped' /\ DriverTyped'
  <2>1. Whole'
    BY <1>2 DEF IInv, Whole
  <2>2. Lines' /\ PlugTyped' /\ DriverTyped'
    BY <1>1, <1>2, DeviceTypes DEF IInv, Lines, Reads, PlugTyped, DriverTyped
  <2>3. ASSUME NEW j \in 1..Len(ready'), NEW k \in 1..Len(ready'), j < k,
               ready'[j].dev = ready'[k].dev
        PROVE  ready'[j].scan < ready'[k].scan
    <3>1. j + 1 < k + 1 /\ ready[j + 1].dev = ready[k + 1].dev
      BY <1>2, <2>3
    <3> QED
      BY <1>2, <3>1 DEF IInv, InOrder
  <2>4. InOrder'
    BY <1>1, <1>2, <2>3 DEF IInv, InOrder, InProcess
  <2> QED
    BY <2>1, <2>2, <2>4
<1>5. \A d \in Device, m \in 0..MaxScans : Past(d, m) => WillBePast(d, m)
  BY <1>1, <1>2 DEF Past, WillBePast, Older
<1>6. WillBePast(e.dev, n)
  <2>1. n <= made /\ (half[e.dev] # 0 => n < half[e.dev])
    BY <1>2 DEF IInv, InOrder
  <2>2. ASSUME NEW k \in 1..Len(ready'), ready'[k].dev = e.dev
        PROVE  n < ready'[k].scan
    BY <1>2, <2>2 DEF IInv, InOrder
  <2> QED
    BY <1>1, <2>1, <2>2 DEF WillBePast, Older
<1>7. \A m \in 0..MaxScans : Past(e.dev, m) => m < n
  BY <1>2 DEF Past, Older
<1> HIDE DEF e, n, I, b
<1>8. StreamsTyped' /\ StreamsAreComplete'
  <2>1. n \in Scan
    BY <1>3 DEF Scan
  <2>2. /\ sub' = sub
        /\ queue' = [s \in Stream |-> IF sub[s] = b /\ Len(queue[s]) < QueueSize
                                      THEN Append(queue[s], n) ELSE queue[s]]
        /\ full' = [s \in Stream |-> full[s] \/ (sub[s] = b /\ Len(queue[s]) = QueueSize)]
        /\ due' = [s \in Stream |-> IF sub[s] = b THEN Append(due[s], n) ELSE due[s]]
    BY <1>1 DEF FanOut, Takers
  <2>3. ASSUME NEW s \in Stream
        PROVE  /\ queue'[s] \in Seq(Scan) /\ Len(queue'[s]) <= QueueSize
               /\ due'[s] \in Seq(Scan) /\ full'[s] \in BOOLEAN
               /\ full'[s] \/ queue'[s] = due'[s]
    <3>1. /\ queue[s] \in Seq(Scan) /\ Len(queue[s]) <= QueueSize /\ Len(queue[s]) \in Nat
          /\ due[s] \in Seq(Scan) /\ full[s] \in BOOLEAN /\ QueueSize \in Nat
      BY DeviceTypes, LenProperties, ScansAssumption DEF StreamsTyped
    <3>2. full[s] \/ queue[s] = due[s]
      BY DEF IInv, StreamsAreComplete
    <3>3. /\ Append(queue[s], n) \in Seq(Scan) /\ Len(Append(queue[s], n)) = Len(queue[s]) + 1
          /\ Append(due[s], n) \in Seq(Scan)
      BY <2>1, <3>1, AppendProperties
    <3>4. /\ queue'[s] \in Seq(Scan) /\ Len(queue'[s]) <= QueueSize
          /\ due'[s] \in Seq(Scan)
      BY <2>2, <3>1, <3>3
    <3>5. full'[s] = (full[s] \/ (sub[s] = b /\ Len(queue[s]) = QueueSize))
      BY <2>2
    <3>6. full'[s] \in BOOLEAN
      BY <3>5, Zenon
    <3>7. full'[s] \/ queue'[s] = due'[s]
      <4>1. CASE full[s] \/ (sub[s] = b /\ Len(queue[s]) = QueueSize)
        BY <3>5, <4>1, Zenon
      <4>2. CASE sub[s] # b /\ queue[s] = due[s]
        BY <2>2, <4>2
      <4>3. CASE sub[s] = b /\ Len(queue[s]) # QueueSize /\ queue[s] = due[s]
        <5>1. Len(queue[s]) < QueueSize
          BY <3>1, <4>3
        <5> QED
          BY <2>2, <4>3, <5>1
      <4> QED
        BY <3>2, <4>1, <4>2, <4>3
    <3> QED
      BY <3>4, <3>6, <3>7
  <2>4. /\ queue' = [s \in Stream |-> queue'[s]] /\ due' = [s \in Stream |-> due'[s]]
        /\ full' = [s \in Stream |-> full'[s]]
    BY <2>2
  <2>5. /\ queue' \in [Stream -> Seq(Scan)] /\ due' \in [Stream -> Seq(Scan)]
        /\ full' \in [Stream -> BOOLEAN]
    BY <2>3, <2>4
  <2> QED
    BY <2>2, <2>3, <2>5, DeviceTypes DEF StreamsTyped, StreamsAreComplete
<1>9. /\ held' = [c \in Client |-> [i \in Ident |->
                     IF i \in I /\ c \in waiters[i] THEN n ELSE held[c][i]]]
      /\ pending' = [i \in Ident |-> IF i \in I /\ waiters[i] = {} THEN n ELSE pending[i]]
      /\ waiters' = [i \in Ident |-> IF i \in I THEN {} ELSE waiters[i]]
      /\ poll' = poll /\ told' = told
  BY <1>1 DEF Push, Buffered
<1>10. IotTyped'
  BY <1>3, <1>9, DeviceTypes DEF IotTyped
<1>11. Later'
  <2> SUFFICES ASSUME NEW i \in Ident
               PROVE  /\ WillBePast(i[1], pending'[i])
                      /\ \A c \in Client : WillBePast(i[1], held'[c][i]) /\ WillBePast(i[1], told'[c][i])
    BY DEF Later, Past, WillBePast
  <2>1. i[1] \in Device
    BY DEF Ident
  <2>2. /\ pending[i] \in 0..MaxScans
        /\ \A c \in Client : held[c][i] \in 0..MaxScans /\ told[c][i] \in 0..MaxScans
    BY DeviceTypes DEF IotTyped
  <2>3. /\ WillBePast(i[1], pending[i])
        /\ \A c \in Client : WillBePast(i[1], held[c][i]) /\ WillBePast(i[1], told[c][i])
    BY <1>5, <2>1, <2>2 DEF IInv, Later
  <2>4. i \in I => WillBePast(i[1], n)
    BY <1>3, <1>6
  <2> QED
    BY <1>9, <2>3, <2>4
<1>12. Waits'
  <2> SUFFICES ASSUME NEW i \in Ident
               PROVE  /\ pending'[i] # 0 => waiters'[i] = {}
                      /\ \A c \in Client :
                            /\ pending'[i] # 0 => held'[c][i] < pending'[i] /\ told'[c][i] < pending'[i]
                            /\ held'[c][i] # 0 => told'[c][i] < held'[c][i]
    BY DEF Waits
  <2>1. /\ pending[i] # 0 => waiters[i] = {}
        /\ \A c \in Client :
              /\ pending[i] # 0 => held[c][i] < pending[i] /\ told[c][i] < pending[i]
              /\ held[c][i] # 0 => told[c][i] < held[c][i]
    BY DEF IInv, Waits
  <2>2. /\ pending[i] \in 0..MaxScans
        /\ \A c \in Client : held[c][i] \in 0..MaxScans /\ told[c][i] \in 0..MaxScans
    BY DeviceTypes DEF IotTyped
  <2>3. CASE i \in I
    <3>1. \A c \in Client : held[c][i] < n /\ told[c][i] < n
      BY <1>3, <1>7, <2>2, <2>3 DEF IInv, Later
    <3> QED
      BY <1>9, <2>1, <2>2, <2>3, <3>1
  <2>4. CASE i \notin I
    BY <1>9, <2>1, <2>4
  <2> QED
    BY <2>3, <2>4
<1> QED
  BY <1>4, <1>8, <1>10, <1>11, <1>12, PrimedTypeParts DEF IInv

-----------------------------------------------------------------------------
(* Streams.                                                                *)

\* A step that only streams see.
LEMMA StreamStep ==
    ASSUME IInv, UNCHANGED <<plug, bus, driver, ready, iot>>, StreamsTyped', StreamsAreComplete'
    PROVE  IInv'
<1>1. UNCHANGED <<kind, present, udev, plugs, bus, thread, conn, force, half, buf, made, ready>>
  BY DEF plug, driver
<1>2. PlugTyped' /\ DriverTyped' /\ IotTyped'
  BY <1>1, DeviceTypes DEF PlugTyped, DriverTyped, IotTyped, iot
<1>3. Lines' /\ Whole' /\ InOrder'
  BY <1>1 DEF IInv, Lines, Reads, Whole, InOrder, InProcess
<1>4. Later' /\ Waits'
  BY <1>1 DEF IInv, Later, Waits, Past, iot
<1> QED
  BY <1>2, <1>3, <1>4, PrimedTypeParts DEF IInv

LEMMA StreamsPreserve ==
    ASSUME IInv, NEW s \in Stream,
           Send(s) \/ Unsubscribe(s) \/ \E d \in Device : Subscribe(s, d)
    PROVE  IInv'
<1>1. UNCHANGED <<plug, bus, driver, ready, iot>>
  BY DEF Send, Unsubscribe, Subscribe
<1>2. CASE Send(s)
  <2>1. /\ queue[s] # <<>> /\ queue' = [queue EXCEPT ![s] = Tail(queue[s])]
        /\ due' = [due EXCEPT ![s] = IF due[s] # <<>> /\ Head(due[s]) = Head(queue[s])
                                     THEN Tail(due[s]) ELSE due[s]]
        /\ UNCHANGED <<sub, full>>
    BY <1>2 DEF Send
  <2>2. /\ queue[s] \in Seq(Scan) /\ due[s] \in Seq(Scan) /\ Len(queue[s]) <= QueueSize
        /\ QueueSize \in Nat
    BY DeviceTypes, ScansAssumption DEF StreamsTyped
  <2>3. Tail(queue[s]) \in Seq(Scan) /\ Len(Tail(queue[s])) <= QueueSize
    BY <2>1, <2>2, HeadTailProperties, LenProperties
  <2>4. due[s] # <<>> => Tail(due[s]) \in Seq(Scan)
    BY <2>2, HeadTailProperties
  <2>5. StreamsTyped'
    BY <2>1, <2>2, <2>3, <2>4, DeviceTypes DEF StreamsTyped
  <2>6. StreamsAreComplete'
    BY <2>1, DeviceTypes DEF IInv, StreamsAreComplete, StreamsTyped
  <2> QED
    BY <1>1, <2>5, <2>6, StreamStep
<1>3. CASE Unsubscribe(s)
  <2>1. <<>> \in Seq(Scan) /\ Len(<<>>) <= QueueSize
    BY EmptySeq, ScansAssumption
  <2>2. /\ sub' = [sub EXCEPT ![s] = NoBus] /\ queue' = [queue EXCEPT ![s] = <<>>]
        /\ due' = [due EXCEPT ![s] = <<>>] /\ full' = [full EXCEPT ![s] = FALSE]
    BY <1>3 DEF Unsubscribe
  <2>3. StreamsTyped'
    BY <2>1, <2>2, DeviceTypes DEF StreamsTyped, Subscription
  <2>4. StreamsAreComplete'
    BY <2>2, DeviceTypes DEF IInv, StreamsAreComplete, StreamsTyped
  <2> QED
    BY <1>1, <2>3, <2>4, StreamStep
<1>4. CASE \E d \in Device : Subscribe(s, d)
  <2>1. PICK d \in Device : Subscribe(s, d)
    BY <1>4
  <2>2. /\ sub' = [sub EXCEPT ![s] = [dev |-> d, bus |-> bus[d]]] /\ UNCHANGED <<queue, due, full>>
    BY <2>1 DEF Subscribe
  <2>3. [dev |-> d, bus |-> bus[d]] \in Subscription
    BY DeviceTypes DEF PlugTyped, Subscription
  <2>4. StreamsTyped' /\ StreamsAreComplete'
    BY <2>2, <2>3, DeviceTypes DEF IInv, StreamsTyped, StreamsAreComplete
  <2> QED
    BY <1>1, <2>4, StreamStep
<1> QED
  BY <1>2, <1>3, <1>4

-----------------------------------------------------------------------------
(* Long polls.                                                             *)

\* A step that only polls see, and that hands on scans that are past.
LEMMA PollStep ==
    ASSUME IInv, UNCHANGED <<plug, bus, driver, ready, streams>>, IotTyped', Waits',
           \A i \in Ident :
              /\ pending'[i] \in {0, pending[i]}
              /\ \A c \in Client : /\ held'[c][i] \in {0, pending[i], held[c][i]}
                                   /\ told'[c][i] \in {told[c][i], held[c][i]}
    PROVE  IInv'
<1>1. UNCHANGED <<kind, present, udev, plugs, bus, thread, conn, force, half, buf, made, ready>>
  BY DEF plug, driver
<1>2. PlugTyped' /\ DriverTyped' /\ StreamsTyped'
  BY <1>1, DeviceTypes DEF PlugTyped, DriverTyped, StreamsTyped, streams
<1>3. Lines' /\ Whole' /\ InOrder' /\ StreamsAreComplete'
  BY <1>1 DEF IInv, Lines, Reads, Whole, InOrder, InProcess, StreamsAreComplete, streams
<1>4. Later'
  <2>1. \A d \in Device : Past(d, 0)
    BY DeviceTypes DEF Past, Older, DriverTyped, Event, Scan
  <2> SUFFICES ASSUME NEW i \in Ident
               PROVE  /\ Past(i[1], pending'[i])
                      /\ \A c \in Client : Past(i[1], held'[c][i]) /\ Past(i[1], told'[c][i])
    BY <1>1 DEF Later, Past
  <2>2. i[1] \in Device
    BY DEF Ident
  <2>3. /\ Past(i[1], pending[i])
        /\ \A c \in Client : Past(i[1], held[c][i]) /\ Past(i[1], told[c][i])
    BY DEF IInv, Later
  <2> QED
    BY <2>1, <2>2, <2>3
<1> QED
  BY <1>2, <1>3, <1>4, PrimedTypeParts DEF IInv

LEMMA PollPreserves ==
    ASSUME IInv, NEW c \in Client, NEW I \in SUBSET UNION {Idents(d) : d \in Device}, Poll(c, I)
    PROVE  IInv'
<1>1. I \subseteq Ident
  BY DeviceTypes, IdentsOfDevice
<1>2. /\ poll' = [poll EXCEPT ![c] = I] /\ told' = told
      /\ held' = [held EXCEPT ![c] = [i \in Ident |-> IF i \in I THEN pending[i] ELSE 0]]
      /\ pending' = [i \in Ident |-> IF i \in I THEN 0 ELSE pending[i]]
      /\ waiters' = [i \in Ident |-> IF i \in I /\ pending[i] = 0
                                     THEN waiters[i] \cup {c} ELSE waiters[i]]
      /\ UNCHANGED <<plug, bus, driver, ready, streams>>
  BY DEF Poll
<1>3. IotTyped'
  BY <1>1, <1>2, DeviceTypes DEF IotTyped
<1>4. ASSUME NEW i \in Ident
      PROVE  /\ pending'[i] = IF i \in I THEN 0 ELSE pending[i]
             /\ held'[c][i] = IF i \in I THEN pending[i] ELSE 0
             /\ \A b \in Client : b # c => held'[b][i] = held[b][i]
             /\ waiters'[i] = IF i \in I /\ pending[i] = 0 THEN waiters[i] \cup {c} ELSE waiters[i]
  BY <1>2, DeviceTypes DEF IotTyped
<1>5. Waits'
  <2> SUFFICES ASSUME NEW i \in Ident
               PROVE  /\ pending'[i] # 0 => waiters'[i] = {}
                      /\ \A b \in Client :
                            /\ pending'[i] # 0 => held'[b][i] < pending'[i] /\ told[b][i] < pending'[i]
                            /\ held'[b][i] # 0 => told[b][i] < held'[b][i]
    BY <1>2 DEF Waits
  <2>1. /\ pending[i] # 0 => waiters[i] = {}
        /\ \A b \in Client :
              /\ pending[i] # 0 => held[b][i] < pending[i] /\ told[b][i] < pending[i]
              /\ held[b][i] # 0 => told[b][i] < held[b][i]
    BY DEF IInv, Waits
  <2>2. /\ pending[i] \in 0..MaxScans
        /\ \A b \in Client : held[b][i] \in 0..MaxScans /\ told[b][i] \in 0..MaxScans
    BY DeviceTypes DEF IotTyped
  <2>3. pending'[i] # 0 => waiters'[i] = {}
    BY <1>4, <2>1
  <2>4. ASSUME NEW b \in Client
        PROVE  /\ pending'[i] # 0 => held'[b][i] < pending'[i] /\ told[b][i] < pending'[i]
               /\ held'[b][i] # 0 => told[b][i] < held'[b][i]
    <3>1. /\ pending[i] # 0 => held[b][i] < pending[i] /\ told[b][i] < pending[i]
          /\ held[b][i] # 0 => told[b][i] < held[b][i]
      BY <2>1
    <3>2. CASE b = c /\ i \in I
      <4>1. pending'[i] = 0 /\ held'[b][i] = pending[i]
        BY <1>4, <3>2
      <4> QED
        BY <3>1, <4>1
    <3>3. CASE b = c /\ i \notin I
      <4>1. pending'[i] = pending[i] /\ held'[b][i] = 0
        BY <1>4, <3>3
      <4> QED
        BY <2>2, <3>1, <4>1
    <3>4. CASE b # c
      <4>1. pending'[i] \in {0, pending[i]} /\ held'[b][i] = held[b][i]
        BY <1>4, <3>4
      <4> QED
        BY <3>1, <4>1
    <3> QED
      BY <3>2, <3>3, <3>4
  <2> QED
    BY <2>3, <2>4
<1>6. \A i \in Ident :
         /\ pending'[i] \in {0, pending[i]}
         /\ \A b \in Client : /\ held'[b][i] \in {0, pending[i], held[b][i]}
                              /\ told'[b][i] \in {told[b][i], held[b][i]}
  BY <1>2, <1>4
<1> QED
  BY <1>2, <1>3, <1>5, <1>6, PollStep

LEMMA PollEndsKeeps ==
    ASSUME IInv, NEW c \in Client, NEW T, PollEnds(c, T),
           told' \in [Client -> [Ident -> 0..MaxScans]],
           \A b \in Client \ {c} : told'[b] = told[b],
           \A i \in Ident : told'[c][i] \in {told[c][i], held[c][i]}
    PROVE  IInv'
<1>1. /\ poll' = [poll EXCEPT ![c] = {}] /\ held' = [held EXCEPT ![c] = Nothing]
      /\ waiters' = [i \in Ident |->
             IF c \notin waiters[i] THEN waiters[i]
             ELSE (waiters[i] \ {c}) \cup (IF i \in T THEN {} ELSE {Cancelled})]
      /\ UNCHANGED <<plug, bus, driver, ready, streams>> /\ pending' = pending
  BY DEF PollEnds
<1>2. IotTyped'
  BY <1>1, DeviceTypes DEF IotTyped, Nothing
<1>3. ASSUME NEW i \in Ident
      PROVE  /\ held'[c][i] = 0 /\ \A b \in Client : b # c => held'[b][i] = held[b][i]
             /\ waiters[i] = {} => waiters'[i] = {}
  BY <1>1, DeviceTypes DEF IotTyped, Nothing
<1>4. Waits'
  <2> SUFFICES ASSUME NEW i \in Ident
               PROVE  /\ pending[i] # 0 => waiters'[i] = {}
                      /\ \A b \in Client :
                            /\ pending[i] # 0 => held'[b][i] < pending[i] /\ told'[b][i] < pending[i]
                            /\ held'[b][i] # 0 => told'[b][i] < held'[b][i]
    BY <1>1 DEF Waits
  <2>1. /\ pending[i] # 0 => waiters[i] = {}
        /\ \A b \in Client :
              /\ pending[i] # 0 => held[b][i] < pending[i] /\ told[b][i] < pending[i]
              /\ held[b][i] # 0 => told[b][i] < held[b][i]
    BY DEF IInv, Waits
  <2>2. pending[i] \in 0..MaxScans
    BY DeviceTypes DEF IotTyped
  <2>3. ASSUME NEW b \in Client
        PROVE  /\ pending[i] # 0 => held'[b][i] < pending[i] /\ told'[b][i] < pending[i]
               /\ held'[b][i] # 0 => told'[b][i] < held'[b][i]
    <3>1. CASE b = c
      BY <1>3, <2>1, <2>2, <3>1
    <3>2. CASE b # c
      BY <1>3, <2>1, <3>2
    <3> QED
      BY <3>1, <3>2
  <2> QED
    BY <1>3, <2>1, <2>3
<1>5. \A i \in Ident :
         /\ pending'[i] \in {0, pending[i]}
         /\ \A b \in Client : /\ held'[b][i] \in {0, pending[i], held[b][i]}
                              /\ told'[b][i] \in {told[b][i], held[b][i]}
  BY <1>1, <1>3
<1> QED
  BY <1>1, <1>2, <1>4, <1>5, PollStep

LEMMA PollEndsPreserves ==
    ASSUME IInv, NEW c \in Client, Expire(c) \/ \E i \in Ident : Answer(c, i)
    PROVE  IInv'
<1>1. told \in [Client -> [Ident -> 0..MaxScans]] /\ held \in [Client -> [Ident -> 0..MaxScans]]
  BY DeviceTypes DEF IotTyped
<1>2. CASE Expire(c)
  BY <1>1, <1>2, PollEndsKeeps DEF Expire
<1>3. CASE \E i \in Ident : Answer(c, i)
  <2>1. PICK i \in Ident : Answer(c, i)
    BY <1>3
  <2>2. told' = [told EXCEPT ![c][i] = held[c][i]] /\ PollEnds(c, {})
    BY <2>1 DEF Answer
  <2>3. /\ told' \in [Client -> [Ident -> 0..MaxScans]]
        /\ \A b \in Client \ {c} : told'[b] = told[b]
        /\ \A j \in Ident : told'[c][j] \in {told[c][j], held[c][j]}
    <3>1. [told[c] EXCEPT ![i] = held[c][i]] \in [Ident -> 0..MaxScans]
      BY <1>1
    <3>2. told' = [told EXCEPT ![c] = [told[c] EXCEPT ![i] = held[c][i]]]
      BY <2>2
    <3>3. told'[c] = [told[c] EXCEPT ![i] = held[c][i]]
      BY <1>1, <3>2
    <3>4. \A j \in Ident : told'[c][j] \in {told[c][j], held[c][j]}
      BY <1>1, <3>3
    <3> QED
      BY <1>1, <3>1, <3>2, <3>4
  <2> QED
    BY <2>2, <2>3, PollEndsKeeps
<1> QED
  BY <1>2, <1>3

-----------------------------------------------------------------------------
(* The theorems.                                                           *)

LEMMA InitEstablishes == Init => IInv
<1> SUFFICES ASSUME Init PROVE IInv
  OBVIOUS
<1>1. /\ MaxScans \in Nat /\ MaxPlugs \in Nat /\ QueueSize \in Nat
      /\ <<>> \in Seq(Scan) /\ <<>> \in Seq(Event) /\ <<>> \in Seq(Device \X {"add", "remove"})
      /\ Len(<<>>) = 0
  BY ScansAssumption, EmptySeq
<1>2. PlugTyped
  BY <1>1 DEF Init, PlugTyped
<1>3. DriverTyped
  BY <1>1 DEF Init, DriverTyped, Started
<1>4. StreamsTyped
  BY <1>1 DEF Init, StreamsTyped, Subscription
<1>5. IotTyped
  BY <1>1 DEF Init, IotTyped, Nothing
<1>6. Lines /\ Whole /\ InOrder /\ StreamsAreComplete
  BY <1>1 DEF Init, Lines, Reads, Whole, InOrder, StreamsAreComplete
<1>7. Waits
  BY <1>1 DEF Init, Waits, Nothing
<1>8. Later
  <2>1. \A d \in Device : Past(d, 0)
    BY <1>1 DEF Init, Past, Older
  <2> QED
    BY <2>1 DEF Init, Later, Nothing, Ident
<1> QED
  BY <1>2, <1>3, <1>4, <1>5, <1>6, <1>7, <1>8, TypeParts DEF IInv

LEMMA StepPreserves == IInv /\ [Next]_vars => IInv'
<1> SUFFICES ASSUME IInv, [Next]_vars PROVE IInv'
  OBVIOUS
<1>1. ASSUME NEW d \in Device,
             \/ Inject(d) \/ PlateArrives(d) \/ MqttPlate(d) \/ Recognise(d)
             \/ FixArrives(d) \/ PollOnce(d)
      PROVE  IInv'
  <2>1. ~InProcess(d) /\ Emit(d)
    BY <1>1 DEF Inject, PlateArrives, MqttPlate, Recognise, FixArrives, PollOnce, InProcess
  <2> QED
    BY <2>1, EmitPreserves
<1>2. CASE UNCHANGED vars
  <2>1. UNCHANGED <<plug, bus, driver, ready, iot, streams>>
    BY <1>2 DEF vars
  <2>2. StreamsTyped' /\ StreamsAreComplete'
    BY <2>1, DeviceTypes DEF IInv, StreamsTyped, StreamsAreComplete, streams
  <2> QED
    BY <2>1, <2>2, StreamStep
<1> QED
  BY <1>1, <1>2, ScanBeginsPreserves, ScanEndsPreserves, ThreadPreserves, PlugPreserves,
     PublishPreserves, StreamsPreserve, PollPreserves, PollEndsPreserves DEF Next

\* The invariant of scans on their way, for any devices, streams and clients.
THEOREM ScansInvariant == Spec => []IInv
  BY InitEstablishes, StepPreserves, PTL DEF Spec

\* Every variable keeps its type; a stream's queue never exceeds its size.
THEOREM ScansTypeCorrect == Spec => []TypeOK
<1>1. IInv => TypeOK
  BY DEF IInv
<1> QED
  BY <1>1, ScansInvariant, PTL

\* What is emitted as one barcode was one scan, through lost connections,
\* resets and replugging (the readers' buffers).
THEOREM BarcodeIsOneScan == Spec => []OneScanOneBarcode
<1>1. IInv => OneScanOneBarcode
  BY FS_Singleton DEF IInv, Whole, OneScanOneBarcode
<1> QED
  BY <1>1, ScansInvariant, PTL

\* A stream whose own queue was never full misses nothing, whatever the
\* others do (_publish).
THEOREM StreamsMissNothing == Spec => []StreamsAreComplete
<1>1. IInv => StreamsAreComplete
  BY DEF IInv
<1> QED
  BY <1>1, ScansInvariant, PTL

\* No client is answered a scan twice, nor an older one after a newer one
\* (the waiters and the buffer of _IotSessionRegistry).
THEOREM AnswersGoForward == Spec => AnswersMoveForward
<1>1. IInv /\ [Next]_vars =>
        [\A c \in Client, i \in Ident : Answer(c, i) => held[c][i] > told[c][i]]_vars
  BY DeviceTypes DEF IInv, Waits, Answer, IotTyped
<1> QED
  BY <1>1, ScansInvariant, PTL DEF Spec, AnswersMoveForward

-----------------------------------------------------------------------------
(* Who gets a scan: a poll that runs has, of each of its identifiers, its  *)
(* waiter or what it was given, and not both.                              *)

PollsAreServed ==
    \A c \in Client \ {Cancelled}, i \in Ident :
        /\ i \in poll[c] <=> c \in waiters[i] \/ held[c][i] # 0
        /\ ~(c \in waiters[i] /\ held[c][i] # 0)

LEMMA PollsServedAtFirst == Init => PollsAreServed
  BY DEF Init, PollsAreServed, Nothing

\* The scan that _publish pushes, and the identifiers it is pushed to.
LEMMA PublishedScan ==
    ASSUME IInv, Publish
    PROVE  /\ Head(ready).scan \in Nat \ {0}
           /\ Idents(Head(ready).dev) \subseteq Ident
           /\ Push(Idents(Head(ready).dev), Head(ready).scan)
<1>1. ready # <<>> /\ Push(Idents(Head(ready).dev), Head(ready).scan)
  BY DEF Publish
<1>2. Head(ready) \in Event
  BY <1>1, DeviceTypes, HeadTailProperties DEF DriverTyped
<1>3. Head(ready).scan \in Nat \ {0} /\ Head(ready).dev \in Device
  BY <1>2, ScansAssumption DEF Event, Scan
<1>4. QED BY <1>1, <1>3, DeviceTypes, IdentsOfDevice

LEMMA StepServes ==
    ASSUME IInv, PollsAreServed, [Next]_vars
    PROVE  PollsAreServed'
<1>0. /\ poll \in [Client -> SUBSET Ident]
      /\ waiters \in [Ident -> SUBSET (Client \cup {Cancelled})]
      /\ pending \in [Ident -> 0..MaxScans]
      /\ held \in [Client -> [Ident -> 0..MaxScans]]
  BY DeviceTypes DEF IotTyped
<1>1. CASE UNCHANGED iot
  BY <1>1 DEF PollsAreServed, iot
<1>2. CASE Publish
  <2> DEFINE n == Head(ready).scan
             I == Idents(Head(ready).dev)
  <2>1. n \in Nat \ {0} /\ I \subseteq Ident /\ Push(I, n)
    BY <1>2, PublishedScan
  <2> HIDE DEF n, I
  <2>2. /\ poll' = poll
        /\ \A i \in Ident : waiters'[i] = IF i \in I THEN {} ELSE waiters[i]
        /\ \A c \in Client, i \in Ident :
              held'[c][i] = IF i \in I /\ c \in waiters[i] THEN n ELSE held[c][i]
    BY <2>1 DEF Push
  <2>3. QED BY <2>1, <2>2 DEF PollsAreServed
<1>3. ASSUME NEW c \in Client, NEW I \in SUBSET UNION {Idents(d) : d \in Device}, Poll(c, I)
      PROVE  PollsAreServed'
  <2>1. I \subseteq Ident /\ poll[c] = {}
    BY <1>3, DeviceTypes, IdentsOfDevice DEF Poll
  <2>2. /\ poll' = [poll EXCEPT ![c] = I]
        /\ \A i \in Ident :
              waiters'[i] = IF i \in I /\ pending[i] = 0 THEN waiters[i] \cup {c}
                            ELSE waiters[i]
        /\ \A i \in Ident : held'[c][i] = IF i \in I THEN pending[i] ELSE 0
        /\ \A b \in Client \ {c} : held'[b] = held[b]
    BY <1>0, <1>3 DEF Poll
  <2>3. ASSUME NEW b \in Client \ {Cancelled}, NEW i \in Ident
        PROVE  /\ i \in poll'[b] <=> b \in waiters'[i] \/ held'[b][i] # 0
               /\ ~(b \in waiters'[i] /\ held'[b][i] # 0)
    <3>1. /\ i \in poll[b] <=> b \in waiters[i] \/ held[b][i] # 0
          /\ ~(b \in waiters[i] /\ held[b][i] # 0)
      BY DEF PollsAreServed
    <3>2. CASE b = c
      <4>1. b \notin waiters[i] /\ poll'[b] = I
        BY <1>0, <2>1, <2>2, <3>1, <3>2
      <4>2. QED BY <2>2, <3>2, <4>1
    <3>3. CASE b # c
      <4>1. poll'[b] = poll[b] /\ held'[b] = held[b] /\ (b \in waiters'[i] <=> b \in waiters[i])
        BY <1>0, <2>2, <3>3
      <4>2. QED BY <3>1, <4>1
    <3>4. QED BY <3>2, <3>3
  <2>4. QED BY <2>3 DEF PollsAreServed
<1>4. ASSUME NEW c \in Client, NEW T, PollEnds(c, T)
      PROVE  PollsAreServed'
  <2>1. /\ poll' = [poll EXCEPT ![c] = {}] /\ held' = [held EXCEPT ![c] = Nothing]
        /\ \A i \in Ident :
              waiters'[i] = IF c \notin waiters[i] THEN waiters[i]
                 ELSE (waiters[i] \ {c}) \cup (IF i \in T THEN {} ELSE {Cancelled})
    BY <1>4 DEF PollEnds
  <2>2. ASSUME NEW b \in Client \ {Cancelled}, NEW i \in Ident
        PROVE  /\ i \in poll'[b] <=> b \in waiters'[i] \/ held'[b][i] # 0
               /\ ~(b \in waiters'[i] /\ held'[b][i] # 0)
    <3>1. CASE b = c
      <4>1. b \notin waiters'[i] /\ poll'[b] = {} /\ held'[b][i] = 0
        BY <1>0, <2>1, <3>1 DEF Nothing
      <4>2. QED BY <4>1
    <3>2. CASE b # c
      <4>1. poll'[b] = poll[b] /\ held'[b] = held[b] /\ (b \in waiters'[i] <=> b \in waiters[i])
        BY <1>0, <2>1, <3>2
      <4>2. QED BY <4>1 DEF PollsAreServed
    <3>3. QED BY <3>1, <3>2
  <2>3. QED BY <2>2 DEF PollsAreServed
<1>5. \/ UNCHANGED iot
      \/ Publish
      \/ \E c \in Client :
            \/ \E T : PollEnds(c, T)
            \/ \E I \in SUBSET UNION {Idents(d) : d \in Device} : Poll(c, I)
  BY DEF Next, vars, Inject, PlateArrives, MqttPlate, Recognise, FixArrives, PollOnce, Emit,
         ScanBegins, ScanEnds, Thread, ReadFails, ForcedReopen, Reopen, LineDrops, Reset,
         Unplug, PlugIn, HandleRemove, HandleAdd, Subscribe, Send, Unsubscribe,
         Expire, Answer
<1>6. QED BY <1>1, <1>2, <1>3, <1>4, <1>5

\* What a poll asked for is either still to come or already there, of every
\* identifier, until the poll ends: no push falls between its registration
\* and its buffer (_event_handler, wait and push of _IotSessionRegistry).
THEOREM PollsMissNothing == Spec => []PollsAreServed
<1>1. IInv /\ PollsAreServed /\ [Next]_vars => PollsAreServed'
  BY StepServes
<1>2. QED BY <1>1, PollsServedAtFirst, ScansInvariant, PTL DEF Spec

\* A scan that arrives while no poll waits for its identifier is buffered,
\* unless a cancelled wait has left its waiter behind: the one way in which
\* GapIsBuffered fails.
THEOREM OnlyCancelledWaitsSwallow ==
    Spec => [][\A i \in Ident :
                 (Publish /\ i \in Idents(Head(ready).dev) /\ \A c \in Client : i \notin poll[c])
                    => pending'[i] = Head(ready).scan \/ waiters[i] = {Cancelled}]_vars
<1>1. IInv /\ PollsAreServed /\ [Next]_vars =>
        [\A i \in Ident :
           (Publish /\ i \in Idents(Head(ready).dev) /\ \A c \in Client : i \notin poll[c])
              => pending'[i] = Head(ready).scan \/ waiters[i] = {Cancelled}]_vars
  <2>1. ASSUME IInv, PollsAreServed, NEW i \in Ident, Publish,
               i \in Idents(Head(ready).dev), \A c \in Client : i \notin poll[c]
        PROVE  pending'[i] = Head(ready).scan \/ waiters[i] = {Cancelled}
    <3>1. waiters[i] \subseteq {Cancelled}
      BY <2>1, DeviceTypes DEF PollsAreServed, IotTyped
    <3>2. waiters[i] = {} => pending'[i] = Head(ready).scan
      BY <2>1, PublishedScan DEF Push, Buffered
    <3>3. QED BY <3>1, <3>2
  <2>2. QED BY <2>1
<1>2. QED BY <1>1, ScansInvariant, PollsMissNothing, PTL DEF Spec
=============================================================================
