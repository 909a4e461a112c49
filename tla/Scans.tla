-------------------------------- MODULE Scans --------------------------------
(***************************************************************************)
(* A scan from the device to those who listen: the thread of a reader      *)
(* (drivers/readers), its registration by udev (reader_autodetect.py,      *)
(* ReaderRegistry of service.py), the threads of cameras (plates) and GPS  *)
(* trackers (fixes), the bus that fans a scan, a plate or a fix out        *)
(* (reader_bus.py, camera_bus.py, gps_bus.py: one construction), the       *)
(* streams of the routes and the long polls of an IoT Box client           *)
(* (routes/iot_compat.py).  A scan stands for a plate or a fix as well.    *)
(*                                                                         *)
(* A step of the event loop is one action: the locks of iot_compat.py are  *)
(* never held across a wait, so they separate nothing.                     *)
(***************************************************************************)
EXTENDS Integers, Sequences, FiniteSets

CONSTANTS Device,    \* readers, cameras and trackers
          Stream,    \* WebSocket, SSE and /next connections
          Client,    \* IoT Box pages, one long poll each
          MaxScans,  \* bound on the scans
          MaxPlugs,  \* bound on the times a device is plugged in or out
          QueueSize  \* of a stream (64 in the code)

ASSUME ScansAssumption == MaxScans \in Nat /\ MaxPlugs \in Nat /\ QueueSize \in Nat \ {0}

VARIABLES
    kind,      \* what each device is, and how it is attached and known
    present,   \* whether it is plugged in
    udev,      \* hot-plug events not handled yet
    plugs,     \* number of hot-plug events so far
    bus,       \* number of the device's bus; registered iff thread # "off"
    thread,    \* where its thread is; "ended": none runs
    conn,      \* whether its port, socket or session is usable
    force,     \* _force_reopen_evt
    half,      \* the scan of which the device has sent only a part
    buf,       \* the scans that the unfinished line in buf has parts of
    made,      \* number of scans
    ready,     \* scheduled calls of _publish
    sub,       \* per stream: the bus it is subscribed to
    queue,     \* per stream: its asyncio.Queue
    due,       \* per stream: published on its bus and not sent to it yet (until
               \* its queue was full)
    full,      \* per stream: whether a scan found its queue full
    poll,      \* per client: the identifiers of its current long poll
    waiters,   \* _IotSessionRegistry._waiters
    pending,   \* _IotSessionRegistry._pending; 0: nothing
    held,      \* per client and identifier: payload_holder; 0: empty
    told       \* per client and identifier: the last scan in an answer

driver == <<thread, conn, force, half, buf, made>>
plug == <<kind, present, udev, plugs>>
streams == <<sub, queue, due, full>>
iot == <<poll, waiters, pending, held, told>>
vars == <<plug, bus, driver, ready, streams, iot>>

\* "line": serial or TCP, in the configuration, or found by udev, which has a
\* stable symlink for it; "auto": found by udev under its device node; "hid":
\* evdev, in the configuration; "external": a reader that a process of the
\* host reads.
Kind == {"line", "auto", "hid", "external", "camera", "tracker"}
InProcess(d) == kind[d] \in {"line", "auto", "hid"}

Scan == 1..MaxScans
NoBus == [dev |-> "none", bus |-> 0]

\* The identifiers that a bus pushes to: a reader with access_control has a
\* second one for its scans, a tracker none.
Ident == Device \X {"reader", "hac.card", "camera"}
Idents(d) ==
    {d} \X (CASE kind[d] = "camera" -> {"camera"} [] kind[d] = "tracker" -> {}
              [] OTHER -> {"reader", "hac.card"})

\* A waiter whose task was cancelled and that nobody removed.
Cancelled == "cancelled"

TypeOK ==
    /\ kind \in [Device -> Kind] /\ present \in [Device -> BOOLEAN]
    /\ udev \in Seq(Device \X {"add", "remove"}) /\ plugs \in 0..MaxPlugs
    /\ bus \in [Device -> Nat]
    /\ thread \in [Device -> {"off", "read", "reopen", "ended"}]
    /\ conn \in [Device -> BOOLEAN] /\ force \in [Device -> BOOLEAN]
    /\ half \in [Device -> 0..MaxScans] /\ buf \in [Device -> SUBSET Scan]
    /\ made \in 0..MaxScans
    /\ ready \in Seq([scan : Scan, parts : SUBSET Scan, dev : Device, bus : Nat])
    /\ sub \in [Stream -> {NoBus} \cup [dev : Device, bus : Nat]]
    /\ queue \in [Stream -> Seq(Scan)] /\ \A s \in Stream : Len(queue[s]) <= QueueSize
    /\ due \in [Stream -> Seq(Scan)] /\ full \in [Stream -> BOOLEAN]
    /\ poll \in [Client -> SUBSET Ident]
    /\ waiters \in [Ident -> SUBSET (Client \cup {Cancelled})]
    /\ pending \in [Ident -> 0..MaxScans]
    /\ held \in [Client -> [Ident -> 0..MaxScans]]
    /\ told \in [Client -> [Ident -> 0..MaxScans]]

Nothing == [i \in Ident |-> 0]

\* start_all: no thread for a device that the host reads.
Started(k) == IF k = "external" THEN "ended" ELSE "read"

\* After start_all and the sweep of autodetect_loop.
Init ==
    /\ kind \in [Device -> Kind] /\ present = [d \in Device |-> TRUE]
    /\ udev = <<>> /\ plugs = 0 /\ bus = [d \in Device |-> 1]
    /\ thread = [d \in Device |-> Started(kind[d])]
    /\ conn = [d \in Device |-> TRUE]
    /\ force = [d \in Device |-> FALSE] /\ half = [d \in Device |-> 0]
    /\ buf = [d \in Device |-> {}] /\ made = 0 /\ ready = <<>>
    /\ sub = [s \in Stream |-> NoBus] /\ queue = [s \in Stream |-> <<>>]
    /\ due = [s \in Stream |-> <<>>] /\ full = [s \in Stream |-> FALSE]
    /\ poll = [c \in Client |-> {}] /\ waiters = [i \in Ident |-> {}]
    /\ pending = Nothing
    /\ held = [c \in Client |-> Nothing] /\ told = [c \in Client |-> Nothing]

-----------------------------------------------------------------------------
(* The device and the thread that reads it.                                *)

Reads(d) == thread[d] = "read" /\ conn[d] /\ ~force[d]

\* A whole event, given to publish_threadsafe.
Emit(d) ==
    /\ made < MaxScans /\ made' = made + 1
    /\ ready' = Append(ready, [scan |-> made + 1, parts |-> {made + 1},
                               dev |-> d, bus |-> bus[d]])
    /\ UNCHANGED <<plug, bus, thread, conn, force, half, buf, streams, iot>>

\* POST /readers/{id}/inject: only for an external reader.
Inject(d) == kind[d] = "external" /\ Emit(d)

\* POST /cameras/{id}/plate and /inject
PlateArrives(d) == kind[d] = "camera" /\ Emit(d)

\* A message of an MQTT broker with a plate and a camera that is known; any
\* other is dropped.
MqttPlate(d) == kind[d] = "camera" /\ Emit(d)

\* POST /gps/{id}/inject
FixArrives(d) == kind[d] = "tracker" /\ Emit(d)

\* A plate in a sampled frame or in an ONVIF event, not seen just before.
Recognise(d) == kind[d] = "camera" /\ Reads(d) /\ Emit(d)

\* Wialon: a unit that moved.
PollOnce(d) == kind[d] = "tracker" /\ Reads(d) /\ Emit(d)

\* A scan comes in two reads: here its first part.
ScanBegins(d) ==
    /\ InProcess(d) /\ present[d] /\ half[d] = 0 /\ made < MaxScans
    /\ made' = made + 1 /\ half' = [half EXCEPT ![d] = made + 1]
    /\ buf' = IF Reads(d) THEN [buf EXCEPT ![d] = @ \cup {made + 1}] ELSE buf
    /\ UNCHANGED <<plug, bus, thread, conn, force, ready, streams, iot>>

\* The barcode that the thread emits: all that is in its buffer.
Barcode(d) == [scan |-> half[d], parts |-> buf[d] \cup {half[d]}, dev |-> d, bus |-> bus[d]]

\* Its terminator: publish_threadsafe schedules _publish on the event loop.
ScanEnds(d) ==
    /\ half[d] # 0 /\ half' = [half EXCEPT ![d] = 0]
    /\ IF Reads(d)
       THEN /\ buf' = [buf EXCEPT ![d] = {}]
            /\ ready' = Append(ready, Barcode(d))
       ELSE UNCHANGED <<buf, ready>>
    /\ UNCHANGED <<plug, bus, thread, conn, force, made, streams, iot>>

\* Mutant: the buffer survives the connection.
KeptBuffer(d) == buf

\* buf.clear()
ClearedBuffer(d) == [buf EXCEPT ![d] = {}]

\* Mutant: a lost connection ends the thread.
EndsAlways(d) == "ended"

\* Serial, TCP, go2rtc, ONVIF and Wialon try again; the evdev loop ends.
AfterError(d) == IF kind[d] = "hid" THEN "ended" ELSE "reopen"

\* The cable, the peer, or close() in another thread.
ReadFails(d) ==
    /\ thread[d] = "read" /\ ~conn[d]
    /\ thread' = [thread EXCEPT ![d] = AfterError(d)] /\ buf' = ClearedBuffer(d)
    /\ UNCHANGED <<plug, bus, conn, force, half, made, ready, streams, iot>>

\* The loop sees the flag of a reset before it reads.
ForcedReopen(d) ==
    /\ thread[d] = "read" /\ force[d]
    /\ force' = [force EXCEPT ![d] = FALSE] /\ buf' = ClearedBuffer(d)
    /\ conn' = [conn EXCEPT ![d] = FALSE] /\ thread' = [thread EXCEPT ![d] = "reopen"]
    /\ UNCHANGED <<plug, bus, half, made, ready, streams, iot>>

\* _reopen tries for ever, with a growing pause; so do the loops of cameras
\* and trackers.
Reopen(d) ==
    /\ thread[d] = "reopen" /\ present[d]
    /\ thread' = [thread EXCEPT ![d] = "read"] /\ conn' = [conn EXCEPT ![d] = TRUE]
    /\ UNCHANGED <<plug, bus, force, half, buf, made, ready, streams, iot>>

LineDrops(d) ==
    /\ thread[d] = "read" /\ conn[d] /\ conn' = [conn EXCEPT ![d] = FALSE]
    /\ UNCHANGED <<plug, bus, thread, force, half, buf, made, ready, streams, iot>>

\* POST /readers/{id}/reset: the flag, then close().
Reset(d) ==
    /\ thread[d] # "off" /\ kind[d] \in {"line", "auto"}
    /\ force' = [force EXCEPT ![d] = TRUE] /\ conn' = [conn EXCEPT ![d] = FALSE]
    /\ UNCHANGED <<plug, bus, thread, half, buf, made, ready, streams, iot>>

-----------------------------------------------------------------------------
(* Hot plug.                                                               *)

Unplug(d) ==
    /\ InProcess(d) /\ present[d] /\ plugs < MaxPlugs
    /\ present' = [present EXCEPT ![d] = FALSE] /\ plugs' = plugs + 1
    /\ udev' = Append(udev, <<d, "remove">>)
    /\ conn' = [conn EXCEPT ![d] = FALSE] /\ half' = [half EXCEPT ![d] = 0]
    /\ UNCHANGED <<kind, bus, thread, force, buf, made, ready, streams, iot>>

PlugIn(d) ==
    /\ ~present[d] /\ plugs < MaxPlugs
    /\ present' = [present EXCEPT ![d] = TRUE] /\ plugs' = plugs + 1
    /\ udev' = Append(udev, <<d, "add">>)
    /\ UNCHANGED <<kind, bus, driver, ready, streams, iot>>

\* remove_dynamic: the thread ends without emitting; the streams stay
\* subscribed to the old bus.
Removed(d) ==
    /\ thread' = [thread EXCEPT ![d] = "off"] /\ conn' = [conn EXCEPT ![d] = FALSE]
    /\ force' = [force EXCEPT ![d] = FALSE] /\ buf' = [buf EXCEPT ![d] = {}]

\* _unregister_for: only a reader whose port is the device node itself.
HandleRemove(d) ==
    /\ udev # <<>> /\ Head(udev) = <<d, "remove">> /\ udev' = Tail(udev)
    /\ IF kind[d] = "auto" /\ thread[d] # "off"
       THEN Removed(d)
       ELSE UNCHANGED <<thread, conn, force, buf>>
    /\ UNCHANGED <<kind, present, plugs, bus, half, made, ready, streams, iot>>

\* add_dynamic: nothing for an id that is registered; a new bus and thread.
Added(d) ==
    /\ thread[d] = "off" /\ present[d]
    /\ thread' = [thread EXCEPT ![d] = "read"] /\ conn' = [conn EXCEPT ![d] = TRUE]
    /\ bus' = [bus EXCEPT ![d] = @ + 1]

\* _register_one: no second attempt when the driver does not start.
HandleAdd(d) ==
    /\ udev # <<>> /\ Head(udev) = <<d, "add">> /\ udev' = Tail(udev)
    /\ Added(d) \/ UNCHANGED <<thread, conn, bus>>
    /\ UNCHANGED <<kind, present, plugs, force, half, buf, made, ready, streams, iot>>

-----------------------------------------------------------------------------
(* The bus: _publish.                                                      *)

\* Mutant: the first full queue ends the delivery to the streams.
TakersUntilFull(b) ==
    IF \E s \in Stream : sub[s] = b /\ Len(queue[s]) = QueueSize
    THEN {} ELSE {s \in Stream : sub[s] = b}

\* Mutant: the queues of the streams have no limit.
TakersUnbounded(b) == {s \in Stream : sub[s] = b}

\* put_nowait: a full queue drops the scan for its stream only.
Takers(b) == {s \in Stream : sub[s] = b /\ Len(queue[s]) < QueueSize}

FanOut(b, n) ==
    /\ queue' = [s \in Stream |-> IF s \in Takers(b) THEN Append(queue[s], n) ELSE queue[s]]
    /\ full' = [s \in Stream |-> full[s] \/ (sub[s] = b /\ Len(queue[s]) = QueueSize)]
    /\ due' = [s \in Stream |-> IF sub[s] = b THEN Append(due[s], n) ELSE due[s]]
    /\ UNCHANGED sub

\* Mutant: the scan is buffered whether somebody waits for it or not.
BufferedAlways(I, n) == [i \in Ident |-> IF i \in I THEN n ELSE pending[i]]

Buffered(I, n) ==
    [i \in Ident |-> IF i \in I /\ waiters[i] = {} THEN n ELSE pending[i]]

\* _IotSessionRegistry.push, for both identifiers: every registered waiter,
\* a cancelled one too, or else the buffer, where the latest wins.
Push(I, n) ==
    /\ held' = [c \in Client |-> [i \in Ident |->
                    IF i \in I /\ c \in waiters[i] THEN n ELSE held[c][i]]]
    /\ pending' = Buffered(I, n)
    /\ waiters' = [i \in Ident |-> IF i \in I THEN {} ELSE waiters[i]]
    /\ UNCHANGED <<poll, told>>

Publish ==
    /\ ready # <<>>
    /\ LET e == Head(ready)
           b == [dev |-> e.dev, bus |-> e.bus]
       IN  /\ FanOut(b, e.scan)
           /\ Push(Idents(e.dev), e.scan)
    /\ ready' = Tail(ready)
    /\ UNCHANGED <<plug, bus, driver>>

-----------------------------------------------------------------------------
(* Streams.                                                                *)

Subscribe(s, d) ==
    /\ sub[s] = NoBus /\ thread[d] # "off"
    /\ sub' = [sub EXCEPT ![s] = [dev |-> d, bus |-> bus[d]]]
    /\ UNCHANGED <<plug, bus, driver, ready, queue, due, full, iot>>

\* queue.get and the send that follows.
Send(s) ==
    /\ queue[s] # <<>>
    /\ queue' = [queue EXCEPT ![s] = Tail(@)]
    /\ due' = [due EXCEPT ![s] = IF @ # <<>> /\ Head(@) = Head(queue[s]) THEN Tail(@) ELSE @]
    /\ UNCHANGED <<plug, bus, driver, ready, sub, full, iot>>

\* The end of the connection; of /next, its one scan or its timeout.
Unsubscribe(s) ==
    /\ sub[s] # NoBus /\ sub' = [sub EXCEPT ![s] = NoBus]
    /\ queue' = [queue EXCEPT ![s] = <<>>] /\ due' = [due EXCEPT ![s] = <<>>]
    /\ full' = [full EXCEPT ![s] = FALSE]
    /\ UNCHANGED <<plug, bus, driver, ready, iot>>

-----------------------------------------------------------------------------
(* Long polls: _event_handler and one task with wait() per identifier.     *)

\* The tasks run one after the other: each takes what is buffered, or waits.
Poll(c, I) ==
    /\ poll[c] = {} /\ I # {} /\ poll' = [poll EXCEPT ![c] = I]
    /\ held' = [held EXCEPT ![c] = [i \in Ident |-> IF i \in I THEN pending[i] ELSE 0]]
    /\ pending' = [i \in Ident |-> IF i \in I THEN 0 ELSE pending[i]]
    /\ waiters' = [i \in Ident |-> IF i \in I /\ pending[i] = 0
                                   THEN waiters[i] \cup {c} ELSE waiters[i]]
    /\ UNCHANGED <<plug, bus, driver, ready, streams, told>>

\* The end of a poll: its waits in T removed their waiters, the others are
\* cancelled and leave theirs behind.  Any other payload held is lost.
PollEnds(c, T) ==
    /\ poll' = [poll EXCEPT ![c] = {}] /\ held' = [held EXCEPT ![c] = Nothing]
    /\ waiters' = [i \in Ident |->
           IF c \notin waiters[i] THEN waiters[i]
           ELSE (waiters[i] \ {c}) \cup (IF i \in T THEN {} ELSE {Cancelled})]
    /\ UNCHANGED <<plug, bus, driver, ready, streams, pending>>

\* One payload is the answer.
Answer(c, i) ==
    /\ held[c][i] # 0 /\ told' = [told EXCEPT ![c][i] = held[c][i]]
    /\ PollEnds(c, {})

\* The waits that may time out, one woken too late to notice included.
MayExpire(c) == poll[c]

\* The first waits to time out end the poll with "result: False".
Expire(c) ==
    /\ \E T \in SUBSET MayExpire(c) : T # {} /\ PollEnds(c, T)
    /\ UNCHANGED told

-----------------------------------------------------------------------------
Thread(d) == ReadFails(d) \/ ForcedReopen(d) \/ Reopen(d)

Next ==
    \/ \E d \in Device :
           \/ ScanBegins(d) \/ ScanEnds(d) \/ Inject(d)
           \/ PlateArrives(d) \/ MqttPlate(d) \/ Recognise(d) \/ FixArrives(d) \/ PollOnce(d)
           \/ Thread(d) \/ LineDrops(d) \/ Reset(d)
           \/ Unplug(d) \/ PlugIn(d) \/ HandleRemove(d) \/ HandleAdd(d)
    \/ Publish
    \/ \E s \in Stream : Send(s) \/ Unsubscribe(s) \/ \E d \in Device : Subscribe(s, d)
    \/ \E c \in Client :
           \/ Expire(c)
           \/ \E i \in Ident : Answer(c, i)
           \/ \E I \in SUBSET UNION {Idents(d) : d \in Device} : Poll(c, I)

Spec == Init /\ [][Next]_vars

\* The threads of the devices and the event loop run, and the timer of a
\* poll ends it.
FairSpec ==
    /\ Spec /\ \A d \in Device : WF_vars(Thread(d))
    /\ \A c \in Client : WF_vars(Expire(c) \/ \E i \in Ident : Answer(c, i))

-----------------------------------------------------------------------------
(* Properties.                                                             *)

\* What is emitted as one barcode was one scan: no part of an earlier one,
\* cut off by a lost connection or a reset, comes before it.
OneScanOneBarcode == \A k \in 1..Len(ready) : Cardinality(ready[k].parts) = 1

\* A stream has in its queue, in their order, the scans of its bus that it was
\* not sent yet, unless its own queue was full once: a slow listener costs the
\* others nothing.
StreamsAreComplete == \A s \in Stream : full[s] \/ queue[s] = due[s]

\* A client is never answered the same scan of an identifier twice, nor an
\* older one after a newer one, whatever is buffered between its polls.
AnswersMoveForward ==
    [][\A c \in Client, i \in Ident : Answer(c, i) => held[c][i] > told[c][i]]_vars

\* A registered serial or TCP reader that is plugged in for good, a camera and
\* a tracker are read again and again, whatever drops, resets and replugging
\* came before.
ReaderComesBack ==
    \A d \in Device :
        (kind[d] \notin {"hid", "external"} /\ <>[](present[d] /\ thread[d] # "off"))
            => []<>(thread[d] = "read")

\* iot_compat.py:123: a scan that arrives while no poll waits for its
\* identifier is buffered for the next one.
GapIsBuffered ==
    [][\A i \in Ident :
         (Publish /\ i \in Idents(Head(ready).dev) /\ \A c \in Client : i \notin poll[c])
            => pending'[i] = Head(ready).scan]_vars
=============================================================================
