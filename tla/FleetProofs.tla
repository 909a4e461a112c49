------------------------------ MODULE FleetProofs ------------------------------
(***************************************************************************)
(* What Fleet promises, proved for any families among those of the code,   *)
(* any brokers, and any number of secrets, commands and starts: the types, *)
(* that what a push answered "applied" is what runs, that the brokers are  *)
(* as configured, and that the proxy keeps its identity.                   *)
(***************************************************************************)
EXTENDS Fleet, SequenceTheorems, TLAPS

-----------------------------------------------------------------------------
(* The inductive invariant.                                                *)

\* The loop runs in a process that is up, executes a command that is there,
\* and enrols again only when the server forgot the proxy.  The reload that
\* waits for the streams is that of the section written and loaded.
LoopIsAt ==
    /\ proc # "up" => loop = "off"
    /\ loop \in {"exec", "reload", "post"} => batch # <<>>
    /\ loop = "reload" =>
          /\ Cmd.kind = "devices" /\ disk.devices = Cmd.section
          /\ config.devices = disk.devices /\ Loads(disk)
    /\ loop = "reenrol" => known = 0

\* A section of devices that was applied is on disk, and can be loaded.
DevicesApplied ==
    pushed["devices"] = "ok" =>
        /\ proc # "refused" /\ Loads(disk) /\ Accepted(disk.devices)
        /\ proc = "up" => /\ devices.of = Kept(disk.devices)
                          /\ config.devices = disk.devices
                          /\ devices.running \/ Registry.lazy

BrokersApplied == pushed["mqtt"] = "ok" /\ proc = "up" => specs = disk.mqtt

IInv ==
    /\ TypeOK /\ LoopIsAt /\ DevicesApplied /\ BrokersApplied /\ BrokersAsConfigured

-----------------------------------------------------------------------------
(* Commands and what they write.                                           *)

LEMMA HeadOfBatch ==
    ASSUME TypeOK, batch # <<>>
    PROVE  /\ Cmd \in Command /\ Tail(batch) \in Seq(Command)
           /\ Len(Tail(batch)) <= MaxBatch
           /\ Len(batch) # 1 => Tail(batch) # <<>>
<1>1. batch \in Seq(Command) /\ Len(batch) <= MaxBatch /\ MaxBatch \in Nat
  BY FleetAssumption DEF TypeOK
<1>2. /\ Head(batch) \in Command /\ Tail(batch) \in Seq(Command)
      /\ Len(Tail(batch)) = Len(batch) - 1 /\ Len(batch) \in Nat
  BY <1>1, HeadTailProperties, LenProperties
<1>3. Len(batch) # 1 => Tail(batch) # <<>>
  <2>1. Len(batch) # 1 => Len(Tail(batch)) # 0
    BY <1>2
  <2> QED
    BY <2>1, EmptySeq
<1> QED
  BY <1>1, <1>2, <1>3 DEF Cmd

LEMMA KindsOfCommand ==
    ASSUME NEW c \in Command
    PROVE  /\ c.kind \in {"devices", "mqtt", "other"}
           /\ c.kind = "devices" => c.section \in DeviceSection
           /\ c.kind = "mqtt" => c.section \in MqttSection
BY DEF Command

\* _write_fragment_atomic replaces one section and leaves the other.
LEMMA WrittenParts ==
    ASSUME TypeOK, batch # <<>>, Cmd.kind # "other"
    PROVE  /\ Written \in Sections /\ Cmd.kind \in {"devices", "mqtt"}
           /\ Cmd.kind = "devices" =>
                 /\ Written.devices = Cmd.section /\ Written.mqtt = disk.mqtt
                 /\ Cmd.section \in DeviceSection
           /\ Cmd.kind = "mqtt" =>
                 /\ Written.mqtt = Cmd.section /\ Written.devices = disk.devices
                 /\ Cmd.section \in MqttSection
<1> DEFINE kind == Cmd.kind
           section == Cmd.section
<1>1. disk \in Sections /\ Written = [disk EXCEPT ![kind] = section]
  BY DEF TypeOK, Written
<1>2. /\ kind \in {"devices", "mqtt"}
      /\ kind = "devices" => section \in DeviceSection
      /\ kind = "mqtt" => section \in MqttSection
  BY HeadOfBatch, KindsOfCommand
<1> HIDE DEF kind, section
<1>3. CASE kind = "devices"
  <2>1. Written = [disk EXCEPT !.devices = section]
    BY <1>1, <1>3
  <2>2. Written \in Sections /\ Written.devices = section /\ Written.mqtt = disk.mqtt
    BY <1>1, <1>2, <1>3, <2>1 DEF Sections
  <2> QED
    BY <1>2, <1>3, <2>2 DEF kind, section
<1>4. CASE kind = "mqtt"
  <2>1. Written = [disk EXCEPT !.mqtt = section]
    BY <1>1, <1>4
  <2>2. Written \in Sections /\ Written.mqtt = section /\ Written.devices = disk.devices
    BY <1>1, <1>2, <1>4, <2>1 DEF Sections
  <2> QED
    BY <1>2, <1>4, <2>2 DEF kind, section
<1> QED
  BY <1>2, <1>3, <1>4

\* A broker's instance, as its section asks for it, is one.
LEMMA IngestTyped ==
    ASSUME NEW s \in Spec1, NEW gen \in Nat
    PROVE  Ingest(s, gen) \in {Off} \cup [spec : {"first", "second", "disabled"}, cameras : Nat]
BY DEF Ingest, Enabled, Spec1

\* bind keeps what a broker does and gives it the new cameras.
LEMMA BindRebinds ==
    ASSUME NEW s \in Spec1, NEW gen \in Nat, NEW new \in Nat
    PROVE  Bind(Ingest(s, gen), new) = Ingest(s, new)
BY DEF Bind, Ingest, Enabled, Off

LEMMA BindTyped ==
    ASSUME NEW i \in {Off} \cup [spec : {"first", "second", "disabled"}, cameras : Nat],
           NEW new \in Nat
    PROVE  Bind(i, new) \in {Off} \cup [spec : {"first", "second", "disabled"}, cameras : Nat]
BY DEF Bind, Off

LEMMA StartedUp == ASSUME NEW up \in Started PROVE up \in BOOLEAN /\ (up \/ Registry.lazy)
BY DEF Started

LEMMA KeptIsSection == ASSUME NEW c \in DeviceSection PROVE Kept(c) \in DeviceSection
BY DEF Kept, DeviceSection

\* The family of a proxy does not change, nor does what its registry does.
LEMMA FamilyKept ==
    ASSUME family' = family
    PROVE  /\ Registry' = Registry /\ Started' = Started
           /\ \A c \in DeviceSection : Kept(c)' = Kept(c) /\ (Accepted(c)' <=> Accepted(c))
BY DEF Registry, Started, Kept, Accepted

-----------------------------------------------------------------------------
(* Every step preserves the invariant.                                     *)

\* The parts of the type invariant, one per group of variables.
HardwareTyped ==
    /\ disk \in Sections /\ config \in Sections /\ family \in Family
    /\ devices \in [of : DeviceSection, running : BOOLEAN, gen : Nat]
    /\ specs \in MqttSection
    /\ ingests \in [Broker -> {Off} \cup [spec : {"first", "second", "disabled"}, cameras : Nat]]
    /\ byHand \subseteq Broker
    /\ pushed \in [{"devices", "mqtt"} -> {"none", "ok", "failed"}]

FleetTyped ==
    /\ loop \in {"start", "off", "beat", "exec", "reload", "post", "reenrol"}
    /\ batch \in Seq(Command) /\ Len(batch) <= MaxBatch
    /\ answer \in {"none", "ok", "failed"} /\ issued \in 0..MaxCommands
    /\ secret \in 0..granted /\ stored \in 0..granted /\ known \in 0..granted
    /\ granted \in 0..MaxSecrets

LEMMA TypeParts ==
    TypeOK <=> /\ proc \in {"down", "up", "refused"} /\ boots \in 0..MaxBoots
               /\ HardwareTyped /\ FleetTyped
BY DEF TypeOK, HardwareTyped, FleetTyped

LEMMA PrimedTypeParts ==
    ASSUME proc' \in {"down", "up", "refused"}, boots' \in 0..MaxBoots,
           HardwareTyped', FleetTyped'
    PROVE  TypeOK'
BY DEF TypeOK, HardwareTyped, FleetTyped

\* A step of the fleet loop that touches no registry and no fragment.
LEMMA HardwareKept ==
    ASSUME IInv, UNCHANGED <<proc, hardware>>
    PROVE  HardwareTyped' /\ DevicesApplied' /\ BrokersApplied' /\ BrokersAsConfigured'
<1>1. UNCHANGED <<disk, config, family, devices, specs, ingests, byHand, pushed>>
  BY DEF hardware
<1>2. HardwareTyped'
  BY <1>1 DEF IInv, TypeOK, HardwareTyped
<1>3. DevicesApplied'
  BY <1>1 DEF IInv, DevicesApplied, Loads, Accepted, Kept, Registry
<1>4. BrokersApplied' /\ BrokersAsConfigured'
  BY <1>1 DEF IInv, BrokersApplied, BrokersAsConfigured, Ingest
<1> QED
  BY <1>2, <1>3, <1>4

\* LoadSecret, FirstEnrol and Reenrol: secrets only.
LEMMA SecretsPreserve ==
    ASSUME IInv, LoadSecret \/ FirstEnrol \/ Reenrol
    PROVE  IInv'
<1>1. /\ UNCHANGED <<proc, boots, batch, answer, issued, hardware>> /\ proc = "up"
      /\ loop' \in {"beat", "off"}
  BY DEF LoadSecret, FirstEnrol, Reenrol, LoopAfterRefusal
<1>2. /\ granted \in Nat /\ MaxSecrets \in Nat /\ granted <= MaxSecrets
      /\ secret \in 0..granted /\ stored \in 0..granted /\ known \in 0..granted
  BY FleetAssumption DEF IInv, TypeOK
<1>3. /\ granted' \in 0..MaxSecrets
      /\ secret' \in 0..granted' /\ stored' \in 0..granted' /\ known' \in 0..granted'
  BY <1>2 DEF LoadSecret, FirstEnrol, Reenrol, Grant, Persist, KeptSecret, identity
<1>4. FleetTyped'
  BY <1>1, <1>3 DEF IInv, TypeOK, FleetTyped
<1>5. TypeOK'
  BY <1>1, <1>4, HardwareKept, PrimedTypeParts DEF IInv, TypeOK
<1>6. LoopIsAt'
  BY <1>1 DEF LoopIsAt
<1> QED
  BY <1>1, <1>5, <1>6, HardwareKept DEF IInv

LEMMA ForgetPreserves ==
    ASSUME IInv, Forget
    PROVE  IInv'
<1>1. /\ UNCHANGED <<proc, boots, loop, batch, answer, issued, secret, stored, granted, hardware>>
      /\ known' = 0
  BY DEF Forget
<1>2. FleetTyped'
  BY <1>1, FleetAssumption DEF IInv, TypeOK, FleetTyped
<1>3. TypeOK'
  BY <1>1, <1>2, HardwareKept, PrimedTypeParts DEF IInv, TypeOK
<1>4. LoopIsAt'
  BY <1>1 DEF IInv, LoopIsAt, hardware, Cmd, Loads
<1> QED
  BY <1>1, <1>3, <1>4, HardwareKept DEF IInv

\* A heartbeat: OK with its commands, or 410.
LEMMA BeatPreserves ==
    ASSUME IInv, BeatOk \/ BeatGone
    PROVE  IInv'
<1>1. UNCHANGED <<proc, boots, answer, identity, hardware>> /\ proc = "up"
  BY DEF BeatOk, BeatGone
<1>2. CASE BeatGone
  <2>1. loop' = "reenrol" /\ known' = 0 /\ UNCHANGED <<batch, issued>>
    BY <1>2 DEF BeatGone, DropsSecret, identity
  <2>2. FleetTyped'
    BY <1>1, <2>1 DEF IInv, TypeOK, FleetTyped, identity
  <2>3. LoopIsAt'
    BY <1>1, <2>1 DEF LoopIsAt
  <2> QED
    BY <1>1, <2>2, <2>3, HardwareKept, PrimedTypeParts DEF IInv, TypeOK
<1>3. CASE BeatOk
  <2>1. PICK n \in 0..MaxBatch : issued + n <= MaxCommands /\
          \E cmds \in [1..n -> Command] :
            /\ batch' = cmds /\ issued' = issued + n
            /\ loop' = IF n = 0 THEN "beat" ELSE "exec"
    BY <1>3 DEF BeatOk
  <2>2. /\ n \in Nat /\ n <= MaxBatch /\ issued' = issued + n /\ issued \in Nat
        /\ batch' \in [1..n -> Command] /\ loop' = IF n = 0 THEN "beat" ELSE "exec"
    BY <2>1, FleetAssumption DEF IInv, TypeOK
  <2>3. batch' \in Seq(Command) /\ Len(batch') = n
    BY <2>2
  <2>4. n # 0 => batch' # <<>>
    BY <2>3
  <2>5. issued' \in 0..MaxCommands
    BY <2>1, <2>2, FleetAssumption
  <2>6. FleetTyped'
    BY <1>1, <2>2, <2>3, <2>5 DEF IInv, TypeOK, FleetTyped, identity
  <2>7. LoopIsAt'
    BY <1>1, <2>2, <2>4 DEF LoopIsAt
  <2> QED
    BY <1>1, <2>6, <2>7, HardwareKept, PrimedTypeParts DEF IInv, TypeOK
<1> QED
  BY <1>2, <1>3

\* A command of the other kinds, and the post of a result.
LEMMA OtherAndPostPreserve ==
    ASSUME IInv, ExecuteOther \/ PostResult
    PROVE  IInv'
<1>1. UNCHANGED <<proc, boots, issued, identity, hardware>> /\ loop \in {"exec", "post"}
  BY DEF ExecuteOther, PostResult
<1>2. batch # <<>> /\ proc = "up"
  BY <1>1 DEF IInv, LoopIsAt
<1>3. CASE ExecuteOther
  <2>1. batch' = batch /\ answer' \in {"ok", "failed"} /\ loop' = "post"
    BY <1>3 DEF ExecuteOther, Finish
  <2>2. FleetTyped'
    BY <1>1, <2>1 DEF IInv, TypeOK, FleetTyped, identity
  <2>3. LoopIsAt'
    BY <1>1, <1>2, <2>1 DEF LoopIsAt
  <2> QED
    BY <1>1, <2>2, <2>3, HardwareKept, PrimedTypeParts DEF IInv, TypeOK
<1>4. CASE PostResult
  <2>1. /\ batch' = Tail(batch) /\ answer' = "none"
        /\ loop' \in {"beat", "exec"} /\ (loop' = "exec" => Len(batch) # 1)
    BY <1>4 DEF PostResult, AfterPost
  <2>2. /\ batch' \in Seq(Command) /\ Len(batch') <= MaxBatch
        /\ Len(batch) # 1 => batch' # <<>>
    BY <1>2, <2>1, HeadOfBatch DEF IInv
  <2>3. FleetTyped'
    BY <1>1, <2>1, <2>2 DEF IInv, TypeOK, FleetTyped, identity
  <2>4. LoopIsAt'
    BY <1>1, <1>2, <2>1, <2>2 DEF LoopIsAt
  <2> QED
    BY <1>1, <2>3, <2>4, HardwareKept, PrimedTypeParts DEF IInv, TypeOK
<1> QED
  BY <1>3, <1>4

LEMMA BootPreserves ==
    ASSUME IInv, Boot
    PROVE  IInv'
<1>1. /\ proc = "down" /\ boots' = boots + 1 /\ boots < MaxBoots
      /\ UNCHANGED <<disk, family, batch, answer, issued, stored, known, granted, pushed>>
  BY DEF Boot
<1>2. boots' \in 0..MaxBoots
  BY <1>1, FleetAssumption DEF IInv, TypeOK
<1>3. loop = "off"
  BY <1>1 DEF IInv, LoopIsAt
<1>4. /\ disk \in Sections /\ disk.devices \in DeviceSection /\ disk.mqtt \in MqttSection
      /\ devices.gen \in Nat
  BY DEF IInv, TypeOK, Sections
<1>5. Registry' = Registry /\ \A c \in DeviceSection : Kept(c)' = Kept(c) /\ (Accepted(c)' <=> Accepted(c))
  BY <1>1, FamilyKept
<1>6. CASE Loads(disk) /\ Accepted(disk.devices) /\ proc' = "up" /\ CreateApp /\ Lifespan
  <2>1. PICK up \in Started :
          devices' = [of |-> Kept(disk.devices), running |-> up, gen |-> devices.gen + 1]
    BY <1>6 DEF Lifespan
  <2>2. /\ config' = disk /\ specs' = disk.mqtt /\ byHand' = {} /\ secret' = 0 /\ loop' = "start"
        /\ ingests' = [b \in Broker |-> Ingest(disk.mqtt[b], devices'.gen)]
    BY <1>6 DEF CreateApp, Lifespan
  <2>3. up \in BOOLEAN /\ (up \/ Registry.lazy) /\ Kept(disk.devices) \in DeviceSection
    BY <1>4, StartedUp, KeptIsSection
  <2>4. /\ devices' \in [of : DeviceSection, running : BOOLEAN, gen : Nat]
        /\ devices'.gen \in Nat /\ devices'.of = Kept(disk.devices)
        /\ devices'.running \/ Registry.lazy
    BY <1>4, <2>1, <2>3
  <2>5. \A b \in Broker : Ingest(disk.mqtt[b], devices'.gen)
                          \in {Off} \cup [spec : {"first", "second", "disabled"}, cameras : Nat]
    BY <1>4, <2>4, IngestTyped DEF MqttSection
  <2>6. HardwareTyped'
    BY <1>1, <1>4, <2>2, <2>4, <2>5 DEF IInv, TypeOK, HardwareTyped
  <2>7. FleetTyped'
    BY <1>1, <2>2, FleetAssumption DEF IInv, TypeOK, FleetTyped
  <2>8. TypeOK'
    BY <1>2, <1>6, <2>6, <2>7, PrimedTypeParts
  <2>9. LoopIsAt' /\ BrokersApplied' /\ BrokersAsConfigured'
    BY <1>1, <1>6, <2>2 DEF LoopIsAt, BrokersApplied, BrokersAsConfigured, Ingest
  <2>10. DevicesApplied'
    BY <1>1, <1>4, <1>5, <1>6, <2>2, <2>4 DEF DevicesApplied, Loads
  <2> QED
    BY <2>8, <2>9, <2>10 DEF IInv
<1>7. CASE /\ ~(Loads(disk) /\ Accepted(disk.devices)) /\ proc' = "refused"
           /\ UNCHANGED <<config, devices, specs, ingests, byHand, secret, loop>>
  <2>1. HardwareTyped' /\ FleetTyped'
    BY <1>1, <1>7 DEF IInv, TypeOK, HardwareTyped, FleetTyped
  <2>2. LoopIsAt' /\ BrokersApplied' /\ BrokersAsConfigured'
    BY <1>3, <1>7 DEF LoopIsAt, BrokersApplied, BrokersAsConfigured
  <2>3. DevicesApplied'
    BY <1>1, <1>7 DEF IInv, DevicesApplied
  <2> QED
    BY <1>2, <1>7, <2>1, <2>2, <2>3, PrimedTypeParts DEF IInv
<1> QED
  BY <1>6, <1>7 DEF Boot

LEMMA CrashPreserves ==
    ASSUME IInv, Crash
    PROVE  IInv'
<1>1. /\ proc = "up" /\ proc' = "down" /\ loop' = "off" /\ batch' = <<>> /\ answer' = "none"
      /\ devices' = [devices EXCEPT !.running = FALSE]
      /\ ingests' = [b \in Broker |-> Off] /\ secret' = 0
      /\ UNCHANGED <<boots, config, family, specs, byHand, issued, stored, known, granted>>
  BY DEF Crash
<1>2. /\ disk' \in Sections
      /\ pushed' \in [{"devices", "mqtt"} -> {"none", "ok", "failed"}]
      /\ pushed'["devices"] = "ok" =>
            pushed["devices"] = "ok" /\ disk'.devices = disk.devices
  <2>1. CASE UNCHANGED <<disk, pushed>>
    BY <2>1 DEF IInv, TypeOK
  <2>2. CASE /\ loop = "exec" /\ Cmd.kind # "other"
             /\ disk' = Written /\ pushed' = [pushed EXCEPT ![Cmd.kind] = "none"]
    <3>1. batch # <<>>
      BY <2>2 DEF IInv, LoopIsAt
    <3>2. /\ Written \in Sections /\ Cmd.kind \in {"devices", "mqtt"}
          /\ Cmd.kind = "mqtt" => Written.devices = disk.devices
      BY <2>2, <3>1, WrittenParts DEF IInv
    <3> QED
      BY <2>2, <3>2 DEF IInv, TypeOK
  <2> QED
    BY <2>1, <2>2 DEF Crash
<1>3. HardwareTyped'
  BY <1>1, <1>2 DEF IInv, TypeOK, HardwareTyped
<1>4. FleetTyped'
  <2>1. <<>> \in Seq(Command) /\ Len(<<>>) = 0 /\ MaxBatch \in Nat
    BY EmptySeq, FleetAssumption
  <2>2. batch' \in Seq(Command) /\ Len(batch') <= MaxBatch
    BY <1>1, <2>1
  <2> QED
    BY <1>1, <2>2, FleetAssumption DEF IInv, TypeOK, FleetTyped
<1>5. TypeOK'
  BY <1>1, <1>3, <1>4, PrimedTypeParts DEF IInv, TypeOK
<1>6. LoopIsAt' /\ BrokersApplied' /\ BrokersAsConfigured'
  BY <1>1 DEF LoopIsAt, BrokersApplied, BrokersAsConfigured
<1>7. DevicesApplied'
  <2>1. disk.devices \in DeviceSection
    BY DEF IInv, TypeOK, Sections
  <2>2. \A c \in DeviceSection : Accepted(c)' <=> Accepted(c)
    BY <1>1, FamilyKept
  <2> QED
    BY <1>1, <1>2, <2>1, <2>2 DEF IInv, DevicesApplied, Loads
<1> QED
  BY <1>5, <1>6, <1>7 DEF IInv

\* with_access and its like: a request opens the devices.
LEMMA UsePreserves ==
    ASSUME IInv, Use
    PROVE  IInv'
<1>1. /\ UNCHANGED <<proc, boots, disk, config, family, specs, ingests, byHand, pushed, fleet>>
      /\ devices' = [devices EXCEPT !.running = TRUE]
  BY DEF Use
<1>2. /\ devices' \in [of : DeviceSection, running : BOOLEAN, gen : Nat]
      /\ devices'.of = devices.of /\ devices'.gen = devices.gen /\ devices'.running = TRUE
  BY <1>1 DEF IInv, TypeOK
<1>3. HardwareTyped' /\ FleetTyped'
  BY <1>1, <1>2 DEF IInv, TypeOK, HardwareTyped, FleetTyped, fleet
<1>4. TypeOK'
  BY <1>1, <1>3, PrimedTypeParts DEF IInv, TypeOK
<1>5. LoopIsAt' /\ BrokersApplied' /\ BrokersAsConfigured'
  BY <1>1, <1>2
  DEF IInv, LoopIsAt, BrokersApplied, BrokersAsConfigured, fleet, Cmd, Loads, Ingest
<1>6. DevicesApplied'
  BY <1>1, <1>2 DEF IInv, DevicesApplied, Loads, Accepted, Kept, Registry
<1> QED
  BY <1>4, <1>5, <1>6 DEF IInv

\* mqtt_start and mqtt_stop.
LEMMA SwitchPreserves ==
    ASSUME IInv, NEW b \in Broker, StartOne(b) \/ StopOne(b)
    PROVE  IInv'
<1>1. PICK i \in {Off} \cup [spec : {"first", "second", "disabled"}, cameras : Nat] : Switch(b, i)
  <2>1. CASE StartOne(b)
    <3>1. specs[b] \in {"first", "second", "disabled"} /\ devices.gen \in Nat
      BY <2>1 DEF StartOne, IInv, TypeOK, MqttSection, Spec1
    <3> QED
      BY <2>1, <3>1 DEF StartOne
  <2>2. CASE StopOne(b)
    BY <2>2 DEF StopOne
  <2> QED
    BY <2>1, <2>2
<1>2. /\ ingests' = [ingests EXCEPT ![b] = i] /\ byHand' = byHand \cup {b}
      /\ UNCHANGED <<proc, boots, disk, config, family, devices, specs, pushed, fleet>>
  BY <1>1 DEF Switch
<1>3. HardwareTyped' /\ FleetTyped'
  BY <1>2 DEF IInv, TypeOK, HardwareTyped, FleetTyped, fleet
<1>4. TypeOK'
  BY <1>2, <1>3, PrimedTypeParts DEF IInv, TypeOK
<1>5. LoopIsAt' /\ BrokersApplied' /\ BrokersAsConfigured'
  BY <1>2 DEF IInv, TypeOK, LoopIsAt, BrokersApplied, BrokersAsConfigured, fleet, Cmd, Loads, Ingest
<1>6. DevicesApplied'
  BY <1>2 DEF IInv, DevicesApplied, Loads, Accepted, Kept, Registry
<1> QED
  BY <1>4, <1>5, <1>6 DEF IInv

\* A push that does not load: the fragment is written, nothing else changes.
LEMMA PushUnloadablePreserves ==
    ASSUME IInv, PushUnloadable
    PROVE  IInv'
<1>1. /\ loop = "exec" /\ Cmd.kind # "other" /\ disk' = Written /\ ~Loads(Written)
      /\ answer' = "failed" /\ loop' = "post" /\ pushed' = [pushed EXCEPT ![Cmd.kind] = "failed"]
      /\ UNCHANGED <<proc, boots, batch, issued, identity, config, family, devices, specs,
                     ingests, byHand>>
  BY DEF PushUnloadable, Finish, FailureAnswer
<1>2. batch # <<>> /\ proc = "up"
  BY <1>1 DEF IInv, LoopIsAt
<1>3. /\ Written \in Sections /\ Cmd.kind \in {"devices", "mqtt"}
      /\ Cmd.kind = "devices" => Written.mqtt = disk.mqtt
      /\ Cmd.kind = "mqtt" => Written.devices = disk.devices
  BY <1>1, <1>2, WrittenParts DEF IInv
<1>4. /\ pushed' \in [{"devices", "mqtt"} -> {"none", "ok", "failed"}]
      /\ pushed'["devices"] = "ok" => pushed["devices"] = "ok" /\ Cmd.kind = "mqtt"
      /\ pushed'["mqtt"] = "ok" => pushed["mqtt"] = "ok" /\ Cmd.kind = "devices"
  BY <1>1, <1>3 DEF IInv, TypeOK
<1>5. HardwareTyped' /\ FleetTyped'
  BY <1>1, <1>3, <1>4 DEF IInv, TypeOK, HardwareTyped, FleetTyped, identity
<1>6. TypeOK'
  BY <1>1, <1>5, PrimedTypeParts DEF IInv, TypeOK
<1>7. LoopIsAt' /\ BrokersApplied' /\ BrokersAsConfigured'
  BY <1>1, <1>2, <1>3, <1>4 DEF IInv, LoopIsAt, BrokersApplied, BrokersAsConfigured, Ingest
<1>8. DevicesApplied'
  BY <1>1, <1>3, <1>4 DEF IInv, DevicesApplied, Loads, Accepted, Kept, Registry
<1> QED
  BY <1>6, <1>7, <1>8 DEF IInv

\* The new registry of a family, when the section is on disk and loaded.
LEMMA RebuildPreserves ==
    ASSUME IInv, Rebuild, batch # <<>>, proc = "up",
           Cmd.kind = "devices", disk' \in Sections, disk'.devices = Cmd.section,
           disk'.mqtt = disk.mqtt, Loads(disk'), config' \in Sections,
           config'.devices = disk'.devices,
           UNCHANGED <<proc, boots, batch, issued, identity, family, specs, byHand>>
    PROVE  IInv'
<1>1. Cmd.section \in DeviceSection
  BY HeadOfBatch, KindsOfCommand DEF IInv
<1>2. /\ Registry' = Registry
      /\ \A c \in DeviceSection : Kept(c)' = Kept(c) /\ (Accepted(c)' <=> Accepted(c))
  BY FamilyKept
<1>3. /\ devices.gen \in Nat /\ specs \in [Broker -> Spec1]
      /\ ingests \in [Broker -> {Off} \cup [spec : {"first", "second", "disabled"}, cameras : Nat]]
  BY DEF IInv, TypeOK, MqttSection
<1>4. LoopIsAt' /\ FleetTyped'
  BY DEF Rebuild, Finish, FailureAnswer, IInv, TypeOK, LoopIsAt, FleetTyped, identity
<1>5. BrokersApplied'
  BY DEF Rebuild, IInv, TypeOK, BrokersApplied, FailureAnswer
<1>6. CASE Accepted(Cmd.section)
  <2>1. PICK up \in Started :
           devices' = [of |-> Kept(Cmd.section), running |-> up,
                       gen |-> devices.gen + (IF family = "cameras" THEN 1 ELSE 0)]
    BY <1>6 DEF Rebuild
  <2>2. /\ ingests' = [b \in Broker |-> Bind(ingests[b], devices'.gen)]
        /\ pushed' = [pushed EXCEPT !["devices"] = "ok"]
    BY <1>6 DEF Rebuild
  <2>3. up \in BOOLEAN /\ (up \/ Registry.lazy) /\ Kept(Cmd.section) \in DeviceSection
    BY <1>1, StartedUp, KeptIsSection
  <2>4. /\ devices' \in [of : DeviceSection, running : BOOLEAN, gen : Nat]
        /\ devices'.gen \in Nat /\ devices'.of = Kept(Cmd.section)
        /\ devices'.running \/ Registry.lazy
    BY <1>3, <2>1, <2>3
  <2>5. ingests' \in [Broker -> {Off} \cup [spec : {"first", "second", "disabled"}, cameras : Nat]]
    BY <1>3, <2>2, <2>4, BindTyped
  <2>6. HardwareTyped'
    BY <2>2, <2>4, <2>5 DEF IInv, TypeOK, HardwareTyped
  <2>7. BrokersAsConfigured'
    <3> SUFFICES ASSUME NEW b \in Broker \ byHand
                 PROVE  ingests'[b] = Ingest(specs[b], devices'.gen)
      BY DEF BrokersAsConfigured, Ingest, Enabled
    <3>1. ingests[b] = Ingest(specs[b], devices.gen) /\ specs[b] \in Spec1
      BY <1>3 DEF IInv, BrokersAsConfigured
    <3> QED
      BY <1>3, <2>2, <2>4, <3>1, BindRebinds
  <2>8. DevicesApplied'
    BY <1>1, <1>2, <1>6, <2>4 DEF DevicesApplied, Loads
  <2> QED
    BY <1>4, <1>5, <2>6, <2>7, <2>8, PrimedTypeParts DEF IInv, TypeOK
<1>7. CASE ~Accepted(Cmd.section)
  <2>1. /\ devices' = [devices EXCEPT !.running = @ /\ ~Registry.stops]
        /\ pushed' = [pushed EXCEPT !["devices"] = "failed"] /\ ingests' = ingests
    BY <1>7 DEF Rebuild, FailureAnswer
  <2>2. (devices.running /\ ~Registry.stops) \in BOOLEAN
    OBVIOUS
  <2>3. devices' \in [of : DeviceSection, running : BOOLEAN, gen : Nat] /\ devices'.gen = devices.gen
    BY <2>1, <2>2 DEF IInv, TypeOK
  <2>4. HardwareTyped'
    BY <2>1, <2>3 DEF IInv, TypeOK, HardwareTyped
  <2>5. BrokersAsConfigured'
    BY <2>1, <2>3 DEF IInv, BrokersAsConfigured, Ingest, Enabled
  <2>6. DevicesApplied'
    BY <2>1 DEF IInv, TypeOK, DevicesApplied
  <2> QED
    BY <1>4, <1>5, <2>4, <2>5, <2>6, PrimedTypeParts DEF IInv, TypeOK
<1> QED
  BY <1>6, <1>7

LEMMA PushDevicesPreserves ==
    ASSUME IInv, PushDevices
    PROVE  IInv'
<1>1. /\ loop = "exec" /\ Cmd.kind = "devices"
      /\ disk' = Written /\ Loads(Written) /\ config' = Written
      /\ UNCHANGED <<proc, boots, batch, issued, identity, family, specs, byHand>>
  BY DEF PushDevices
<1>2. batch # <<>> /\ proc = "up"
  BY <1>1 DEF IInv, LoopIsAt
<1>3. Written \in Sections /\ Written.devices = Cmd.section /\ Written.mqtt = disk.mqtt
  BY <1>1, <1>2, WrittenParts DEF IInv
<1>4. CASE Rebuild
  BY <1>1, <1>2, <1>3, <1>4, RebuildPreserves
<1>5. CASE /\ devices' = [devices EXCEPT !.running = FALSE]
           /\ loop' = "reload" /\ pushed' = [pushed EXCEPT !["devices"] = "none"]
           /\ UNCHANGED <<answer, ingests>>
  <2>1. /\ devices' \in [of : DeviceSection, running : BOOLEAN, gen : Nat]
        /\ devices'.gen = devices.gen
        /\ pushed' \in [{"devices", "mqtt"} -> {"none", "ok", "failed"}]
        /\ pushed'["devices"] # "ok" /\ pushed'["mqtt"] = pushed["mqtt"]
    BY <1>5 DEF IInv, TypeOK
  <2>2. HardwareTyped' /\ FleetTyped'
    BY <1>1, <1>3, <1>5, <2>1 DEF IInv, TypeOK, HardwareTyped, FleetTyped, identity
  <2>3. LoopIsAt'
    BY <1>1, <1>2, <1>3, <1>5 DEF LoopIsAt, Cmd, Loads
  <2>4. BrokersApplied' /\ BrokersAsConfigured' /\ DevicesApplied'
    BY <1>1, <1>3, <1>5, <2>1
    DEF IInv, BrokersApplied, BrokersAsConfigured, DevicesApplied, Ingest
  <2> QED
    BY <1>1, <2>2, <2>3, <2>4, PrimedTypeParts DEF IInv, TypeOK
<1> QED
  BY <1>4, <1>5 DEF PushDevices

LEMMA ReloadDevicesPreserves ==
    ASSUME IInv, ReloadDevices
    PROVE  IInv'
<1>1. /\ loop = "reload" /\ Rebuild
      /\ UNCHANGED <<proc, boots, disk, config, family, specs, byHand, batch, issued, identity>>
  BY DEF ReloadDevices
<1>2. /\ batch # <<>> /\ proc = "up" /\ Cmd.kind = "devices" /\ disk.devices = Cmd.section
      /\ config.devices = disk.devices /\ Loads(disk)
  BY <1>1 DEF IInv, LoopIsAt
<1>3. disk' \in Sections /\ config' \in Sections /\ Loads(disk')
  BY <1>1, <1>2 DEF IInv, TypeOK, Loads
<1> QED
  BY <1>1, <1>2, <1>3, RebuildPreserves

LEMMA PushMqttPreserves ==
    ASSUME IInv, PushMqtt
    PROVE  IInv'
<1>1. /\ loop = "exec" /\ Cmd.kind = "mqtt"
      /\ disk' = Written /\ Loads(Written) /\ config' = Written /\ specs' = Cmd.section
      /\ ingests' = [b \in Broker |-> Reloaded(b, specs[b], Cmd.section[b])]
      /\ byHand' = {b \in byHand : specs[b] = Cmd.section[b]}
      /\ answer' = "ok" /\ loop' = "post" /\ pushed' = [pushed EXCEPT !["mqtt"] = "ok"]
      /\ UNCHANGED <<proc, boots, family, devices, batch, issued, identity>>
  BY DEF PushMqtt, Finish
<1>2. batch # <<>> /\ proc = "up"
  BY <1>1 DEF IInv, LoopIsAt
<1>3. /\ Written \in Sections /\ Written.mqtt = Cmd.section /\ Written.devices = disk.devices
      /\ Cmd.section \in [Broker -> Spec1]
  BY <1>1, <1>2, WrittenParts DEF IInv, MqttSection
<1>4. /\ devices.gen \in Nat /\ specs \in [Broker -> Spec1]
      /\ ingests \in [Broker -> {Off} \cup [spec : {"first", "second", "disabled"}, cameras : Nat]]
  BY DEF IInv, TypeOK, MqttSection
<1>5. \A b \in Broker :
         ingests'[b] \in {Off} \cup [spec : {"first", "second", "disabled"}, cameras : Nat]
  BY <1>1, <1>3, <1>4, BindTyped, IngestTyped DEF Reloaded
<1>6. /\ pushed' \in [{"devices", "mqtt"} -> {"none", "ok", "failed"}]
      /\ pushed'["devices"] = pushed["devices"]
  BY <1>1 DEF IInv, TypeOK
<1>7. HardwareTyped'
  BY <1>1, <1>3, <1>5, <1>6 DEF IInv, TypeOK, HardwareTyped, MqttSection
<1>8. FleetTyped'
  BY <1>1 DEF IInv, TypeOK, FleetTyped, identity
<1>9. TypeOK'
  BY <1>1, <1>7, <1>8, PrimedTypeParts DEF IInv, TypeOK
<1>10. LoopIsAt' /\ BrokersApplied'
  BY <1>1, <1>2, <1>3 DEF LoopIsAt, BrokersApplied
<1>11. BrokersAsConfigured'
  <2> SUFFICES ASSUME NEW b \in Broker \ byHand'
               PROVE  ingests'[b] = Ingest(Cmd.section[b], devices.gen)
    BY <1>1 DEF BrokersAsConfigured, Ingest, Enabled
  <2>1. CASE specs[b] = Cmd.section[b]
    <3>1. b \notin byHand /\ specs[b] \in Spec1
      BY <1>1, <1>4, <2>1
    <3>2. ingests[b] = Ingest(specs[b], devices.gen)
      BY <1>2, <3>1 DEF IInv, BrokersAsConfigured
    <3>3. ingests'[b] = Bind(ingests[b], devices.gen)
      BY <1>1, <2>1 DEF Reloaded
    <3> QED
      BY <1>4, <2>1, <3>1, <3>2, <3>3, BindRebinds
  <2>2. CASE specs[b] # Cmd.section[b]
    BY <1>1, <2>2 DEF Reloaded
  <2> QED
    BY <2>1, <2>2
<1>12. DevicesApplied'
  BY <1>1, <1>3, <1>6 DEF IInv, DevicesApplied, Loads, Accepted, Kept, Registry
<1> QED
  BY <1>9, <1>10, <1>11, <1>12 DEF IInv

LEMMA InitEstablishes == Init => IInv
<1> SUFFICES ASSUME Init PROVE IInv
  OBVIOUS
<1>1. /\ disk = [devices |-> "here", mqtt |-> [b \in Broker |-> "first"]] /\ config = disk
      /\ family \in Family /\ devices = [of |-> "here", running |-> FALSE, gen |-> 0]
      /\ specs = disk.mqtt /\ ingests = [b \in Broker |-> Off] /\ byHand = {}
      /\ pushed = [k \in {"devices", "mqtt"} |-> "none"]
  BY DEF Init
<1>2. disk \in Sections
  BY <1>1 DEF Sections, MqttSection, DeviceSection, Spec1
<1>3. specs \in MqttSection /\ devices \in [of : DeviceSection, running : BOOLEAN, gen : Nat]
  BY <1>1, <1>2 DEF Sections, DeviceSection
<1>4. HardwareTyped
  BY <1>1, <1>2, <1>3 DEF HardwareTyped
<1>5. FleetTyped
  <2>1. <<>> \in Seq(Command) /\ Len(<<>>) = 0
    BY EmptySeq
  <2> QED
    BY <2>1, FleetAssumption DEF Init, FleetTyped
<1>6. TypeOK
  <2>1. proc = "down" /\ boots \in 0..MaxBoots
    BY FleetAssumption DEF Init
  <2> QED
    BY <1>4, <1>5, <2>1, TypeParts
<1>7. LoopIsAt /\ DevicesApplied /\ BrokersApplied /\ BrokersAsConfigured
  BY DEF Init, LoopIsAt, DevicesApplied, BrokersApplied, BrokersAsConfigured
<1> QED
  BY <1>6, <1>7 DEF IInv

LEMMA NextPreserves == IInv /\ [Next]_vars => IInv'
<1> SUFFICES ASSUME IInv, [Next]_vars PROVE IInv'
  OBVIOUS
<1>1. CASE Boot \/ Crash \/ Forget \/ Use
  BY <1>1, BootPreserves, CrashPreserves, ForgetPreserves, UsePreserves
<1>2. CASE LoopStep
  BY <1>2, SecretsPreserve, OtherAndPostPreserve, PushUnloadablePreserves, PushDevicesPreserves,
     ReloadDevicesPreserves, PushMqttPreserves DEF LoopStep
<1>3. CASE BeatOk \/ BeatGone
  BY <1>3, BeatPreserves
<1>4. CASE \E b \in Broker : StartOne(b) \/ StopOne(b)
  BY <1>4, SwitchPreserves
<1>5. CASE UNCHANGED vars
  <2>1. UNCHANGED <<proc, hardware, boots, batch, loop, known, answer, issued, secret, stored, granted>>
    BY <1>5 DEF vars, hardware
  <2>2. LoopIsAt' /\ FleetTyped'
    BY <2>1 DEF IInv, TypeOK, LoopIsAt, FleetTyped, Cmd, Loads, hardware
  <2> QED
    BY <2>1, <2>2, HardwareKept, PrimedTypeParts DEF IInv, TypeOK
<1> QED
  BY <1>1, <1>2, <1>3, <1>4, <1>5 DEF Next

-----------------------------------------------------------------------------
(* The theorems.                                                           *)

\* The invariant holds in every state of the fleet client and its registries.
THEOREM FleetInvariant == Spec => []IInv
  BY InitEstablishes, NextPreserves, PTL DEF Spec

\* Every variable of the fleet client and of the registries keeps its type.
THEOREM FleetTypeCorrect == Spec => []TypeOK
<1>1. IInv => TypeOK
  BY DEF IInv
<1> QED
  BY <1>1, FleetInvariant, PTL

\* What _execute_command answered "applied" is what runs, and what a start of
\* the process would load, until the next push of its section.
THEOREM AppliedIsRunning == Spec => []AppliedRuns
<1>1. IInv => AppliedRuns
  BY DEF IInv, AppliedRuns, DevicesApplied, BrokersApplied, Versions
<1> QED
  BY <1>1, FleetInvariant, PTL

\* reload_from_config, bind and the starts leave every broker that nobody
\* switched by hand as its section says.
THEOREM BrokersRunAsConfigured == Spec => []BrokersAsConfigured
<1>1. IInv => BrokersAsConfigured
  BY DEF IInv
<1> QED
  BY <1>1, FleetInvariant, PTL

\* _pair and _auto_enrol ask for another secret only when the one that the
\* server knows was not kept.
THEOREM IdentityIsKept == Spec => KeepsItsIdentity
<1>1. IInv /\ [Next]_vars => [known # 0 /\ known' \notin {0, known} => stored # known]_vars
  <2> SUFFICES ASSUME IInv, Next, known # 0, known' \notin {0, known}
               PROVE  stored # known
    OBVIOUS
  <2>1. FirstEnrol \/ Reenrol
    <3>1. known' # known
      OBVIOUS
    <3> QED
      BY <3>1
      DEF Next, LoopStep, Boot, Crash, Forget, Use, BeatOk, BeatGone, StartOne, StopOne, Switch,
          LoadSecret, ExecuteOther, PushUnloadable, PushDevices, ReloadDevices, PushMqtt,
          PostResult, identity, fleet
  <2>2. CASE FirstEnrol
    BY <2>2 DEF FirstEnrol, KeptSecret
  <2>3. CASE Reenrol
    BY <2>3 DEF Reenrol, IInv, LoopIsAt
  <2> QED
    BY <2>1, <2>2, <2>3
<1> QED
  BY <1>1, FleetInvariant, PTL DEF Spec, KeepsItsIdentity

=============================================================================
