-------------------------------- MODULE Fleet --------------------------------
(***************************************************************************)
(* The fleet client of server/registry.py (secret, heartbeat, commands)    *)
(* composed with the hot reload that its push_config command drives in     *)
(* server/service.py: fragments in config.d/, the registry of the pushed   *)
(* device family (cameras, access, biometric, cfx or scales: each rebuilt  *)
(* as a whole) and the registry of MQTT brokers (changed broker by broker, *)
(* like the stations of europlacer).                                       *)
(*                                                                         *)
(* The fleet server is not in the repository: it grants secrets, forgets   *)
(* the proxy, and answers a heartbeat with any batch of commands.          *)
(***************************************************************************)
EXTENDS Integers, Sequences

CONSTANTS Family,       \* device families whose section the server pushes
          Broker,       \* names of MQTT brokers
          MaxSecrets,   \* bound on the secrets that the server grants
          MaxCommands,  \* bound on the commands that it sends
          MaxBatch,     \* bound on the commands in one answer
          MaxBoots      \* bound on the starts of the process

ASSUME FleetAssumption ==
    /\ Family \subseteq {"cameras", "access", "biometric", "cfx", "scales"}
    /\ {MaxSecrets, MaxCommands, MaxBatch, MaxBoots} \subseteq Nat

VARIABLES
    proc,      \* the process: "down", "up", or "refused" (its start failed)
    boots,     \* number of its starts
    disk,      \* the sections that a start would load
    config,    \* app.state.config
    family,    \* the family that this proxy has
    devices,   \* its registry in app.state: section, whether it runs; number
               \* of the camera registry
    specs,     \* MqttIngestRegistry.specs
    ingests,   \* MqttIngestRegistry.ingests; Off: no instance
    byHand,    \* brokers switched by /mqtt/{name}/start or stop since the start
    loop,      \* where fleet_loop is
    batch,     \* the commands it still has to execute
    answer,    \* the result of the first of them
    issued,    \* number of commands sent by the server
    secret,    \* cfg.secret; 0: empty
    stored,    \* the secret file; 0: none
    known,     \* the secret that the server knows the proxy by; 0: forgotten
    granted,   \* number of secrets granted
    pushed     \* per section, the result of its last push_config

vars == <<proc, boots, disk, config, family, devices, specs, ingests, byHand,
          loop, batch, answer, issued, secret, stored, known, granted, pushed>>
fleet == <<loop, batch, answer, issued, secret, stored, known, granted>>
hardware == <<disk, config, family, devices, specs, ingests, byHand, pushed>>
identity == <<secret, stored, known, granted>>

\* A list of devices: two good ones, one with an entry that load_config
\* cannot convert, one with two entries of the same id.
DeviceSection == {"here", "there", "malformed", "clash"}

\* A broker in the list: not there, enabled: false, or one of two addresses.
Spec1 == {"absent", "disabled", "first", "second"}
Enabled(s) == s \in {"first", "second"}
MqttSection == [Broker -> Spec1]

Sections == [devices : DeviceSection, mqtt : MqttSection]
Off == [spec |-> "absent", cameras |-> 0]

Command ==
    [kind : {"devices"}, section : DeviceSection]
        \cup [kind : {"mqtt"}, section : MqttSection]
        \cup {[kind |-> "other", section |-> "here"]}

TypeOK ==
    /\ proc \in {"down", "up", "refused"} /\ boots \in 0..MaxBoots
    /\ disk \in Sections /\ config \in Sections
    /\ family \in Family
    /\ devices \in [of : DeviceSection, running : BOOLEAN, gen : Nat]
    /\ specs \in MqttSection
    /\ ingests \in [Broker -> {Off} \cup [spec : {"first", "second", "disabled"}, cameras : Nat]]
    /\ byHand \subseteq Broker
    /\ loop \in {"start", "off", "beat", "exec", "reload", "post", "reenrol"}
    /\ batch \in Seq(Command) /\ Len(batch) <= MaxBatch
    /\ answer \in {"none", "ok", "failed"}
    /\ issued \in 0..MaxCommands
    /\ {secret, stored, known} \subseteq 0..granted /\ granted \in 0..MaxSecrets
    /\ pushed \in [{"devices", "mqtt"} -> {"none", "ok", "failed"}]

Init ==
    /\ proc = "down" /\ boots = 0
    /\ family \in Family
    /\ disk = [devices |-> "here", mqtt |-> [b \in Broker |-> "first"]]
    /\ config = disk
    /\ devices = [of |-> "here", running |-> FALSE, gen |-> 0]
    /\ specs = disk.mqtt /\ ingests = [b \in Broker |-> Off] /\ byHand = {}
    /\ loop = "off" /\ batch = <<>> /\ answer = "none" /\ issued = 0
    /\ secret = 0 /\ stored = 0 /\ known = 0 /\ granted = 0
    /\ pushed = [k \in {"devices", "mqtt"} |-> "none"]

-----------------------------------------------------------------------------
(* The registries of the families: the lists that from_config refuses,     *)
(* whether a reload stops the old registry, whether that waits (giving     *)
(* other requests their turn), and whether a request opens the device when *)
(* nothing else did.                                                       *)

CameraRegistry == [refuses |-> {"clash"}, stops |-> TRUE, waits |-> TRUE, lazy |-> FALSE]
AccessRegistry == [refuses |-> {"clash"}, stops |-> TRUE, waits |-> FALSE, lazy |-> TRUE]
BiometricRegistry == [refuses |-> {"clash"}, stops |-> TRUE, waits |-> FALSE, lazy |-> TRUE]

\* load_config gives the second of two stations of one name another name.
CfxIngestRegistry == [refuses |-> {}, stops |-> TRUE, waits |-> FALSE, lazy |-> FALSE]

\* "never raise from here": a bad scale is left out, not the proxy.
ScaleRegistry == [refuses |-> {}, stops |-> FALSE, waits |-> FALSE, lazy |-> TRUE]

Registry ==
    [cameras |-> CameraRegistry, access |-> AccessRegistry,
     biometric |-> BiometricRegistry, cfx |-> CfxIngestRegistry,
     scales |-> ScaleRegistry][family]

Accepted(c) == c \notin Registry.refuses

\* Of two scales with one id the later is not there.
Kept(c) == IF family = "scales" /\ c = "clash" THEN "here" ELSE c

\* start_all: what a request opens anyway need not open now.
Started == IF Registry.lazy THEN BOOLEAN ELSE {TRUE}

-----------------------------------------------------------------------------
(* Start and end of the process.                                           *)

\* load_config: every section is converted, whichever one is wanted.
Loads(s) == s.devices # "malformed"

Ingest(s, gen) == IF Enabled(s) THEN [spec |-> s, cameras |-> gen] ELSE Off

\* create_app: every registry is built from the configuration.
CreateApp == config' = disk /\ specs' = disk.mqtt /\ byHand' = {}

\* The lifespan starts the devices, then the brokers, then the fleet loop.
Lifespan ==
    /\ \E up \in Started :
           devices' = [of |-> Kept(disk.devices), running |-> up, gen |-> devices.gen + 1]
    /\ ingests' = [b \in Broker |-> Ingest(disk.mqtt[b], devices'.gen)]
    /\ secret' = 0 /\ loop' = "start"

Boot ==
    /\ proc = "down" /\ boots < MaxBoots
    /\ boots' = boots + 1
    /\ \/ Loads(disk) /\ Accepted(disk.devices) /\ proc' = "up" /\ CreateApp /\ Lifespan
       \/ /\ ~(Loads(disk) /\ Accepted(disk.devices))
          /\ proc' = "refused"
          /\ UNCHANGED <<config, devices, specs, ingests, byHand, secret, loop>>
    /\ UNCHANGED <<disk, family, batch, answer, issued, stored, known, granted, pushed>>

Cmd == Head(batch)

Written == [disk EXCEPT ![Cmd.kind] = Cmd.section]

\* The process ends at any moment; a push it was executing is not answered,
\* and has perhaps replaced the fragment.
Crash ==
    /\ proc = "up" /\ boots < MaxBoots
    /\ proc' = "down" /\ loop' = "off" /\ batch' = <<>> /\ answer' = "none"
    /\ devices' = [devices EXCEPT !.running = FALSE]
    /\ ingests' = [b \in Broker |-> Off] /\ secret' = 0
    /\ \/ UNCHANGED <<disk, pushed>>
       \/ /\ loop = "exec" /\ Cmd.kind # "other"
          /\ disk' = Written /\ pushed' = [pushed EXCEPT ![Cmd.kind] = "none"]
    /\ UNCHANGED <<boots, config, family, specs, byHand, issued, stored, known, granted>>

-----------------------------------------------------------------------------
(* The secret.                                                             *)

\* Mutant: the secret is granted anew at every start.
KeptSecretIgnored == 0

\* _load_persistent_secret
KeptSecret == stored

LoadSecret ==
    /\ proc = "up" /\ loop = "start" /\ KeptSecret # 0
    /\ secret' = KeptSecret /\ loop' = "beat"
    /\ UNCHANGED <<proc, boots, batch, answer, issued, stored, known, granted, hardware>>

\* /pair or /auto-enrol: the server knows the proxy by a new secret.
Grant ==
    /\ granted < MaxSecrets
    /\ granted' = granted + 1 /\ known' = granted + 1

\* _persist_secret: the file may not be writable.
Persist == secret' = granted + 1 /\ stored' \in {granted + 1, 0}

\* No secret at the start.  Without one (the server refuses, as it does a
\* used pairing token, or its answer is lost) the loop does not run in this
\* life of the process.
FirstEnrol ==
    /\ proc = "up" /\ loop = "start" /\ KeptSecret = 0
    /\ \/ Grant /\ Persist /\ loop' = "beat"
       \/ Grant /\ loop' = "off" /\ UNCHANGED <<secret, stored>>
       \/ loop' = "off" /\ UNCHANGED identity
    /\ UNCHANGED <<proc, boots, batch, answer, issued, hardware>>

\* Mutant: the loop ends when it cannot enrol, as it does at the start.
LoopAfterRefusalEnds == "off"

\* "will retry next tick"
LoopAfterRefusal == "beat"

\* After a 410 the secret and its file go, and the proxy enrols again (by
\* its admin token: the pairing token is not used here).
Reenrol ==
    /\ proc = "up" /\ loop = "reenrol"
    /\ \/ Grant /\ loop' = "beat" /\ (Persist \/ (secret' = 0 /\ stored' = 0))
       \/ /\ secret' = 0 /\ stored' = 0 /\ loop' = LoopAfterRefusal
          /\ UNCHANGED <<known, granted>>
    /\ UNCHANGED <<proc, boots, batch, answer, issued, hardware>>

\* The record of the proxy is removed in the fleet server.
Forget ==
    /\ known # 0 /\ granted < MaxSecrets
    /\ known' = 0
    /\ UNCHANGED <<proc, boots, loop, batch, answer, issued, secret, stored, granted, hardware>>

-----------------------------------------------------------------------------
(* Heartbeat.                                                              *)

\* 410, "server forgot us": the only answer that drops the secret.
DropsSecret == known = 0

\* _runtime_config_versions, in every heartbeat: the sections as they are in
\* the fragments, whether they were ever loaded or not.
Versions == disk

\* HeartbeatResult.OK, with the commands of the answer.
BeatOk ==
    /\ proc = "up" /\ loop = "beat" /\ known = secret /\ secret # 0
    /\ \E n \in 0..MaxBatch : issued + n <= MaxCommands /\
        \E cmds \in [1..n -> Command] :
            /\ batch' = cmds /\ issued' = issued + n
            /\ loop' = IF n = 0 THEN "beat" ELSE "exec"
    /\ UNCHANGED <<proc, boots, answer, identity, hardware>>

\* HeartbeatResult.REENROL.  Any other refusal (a wrong signature, 403) and
\* any loss are TRANSIENT or BANNED: the loop sleeps and tries again.
BeatGone ==
    /\ proc = "up" /\ loop = "beat" /\ DropsSecret
    /\ loop' = "reenrol"
    /\ UNCHANGED <<proc, boots, batch, answer, issued, identity, hardware>>

-----------------------------------------------------------------------------
(* Commands, in series.                                                    *)

Finish(result) == answer' = result /\ loop' = "post"

\* A command that is an HTTP request to the proxy itself.
ExecuteOther ==
    /\ loop = "exec" /\ Cmd.kind = "other"
    /\ \E ok \in BOOLEAN : Finish(IF ok THEN "ok" ELSE "failed")
    /\ UNCHANGED <<proc, boots, batch, issued, identity, hardware>>

\* Mutant: "applied" once the fragment is written.
UnloadableAnswer == "ok"

\* The exception is the result.
FailureAnswer == "failed"

\* _write_fragment_atomic replaces the fragment, then load_config fails:
\* what runs and app.state.config stay, the fragment stays too.
PushUnloadable ==
    /\ loop = "exec" /\ Cmd.kind # "other"
    /\ disk' = Written /\ ~Loads(Written)
    /\ Finish(FailureAnswer) /\ pushed' = [pushed EXCEPT ![Cmd.kind] = FailureAnswer]
    /\ UNCHANGED <<proc, boots, batch, issued, identity, config, family, devices, specs, ingests, byHand>>

\* Mutant: a broker that has no instance gets one.
BindAll(i, gen) == [i EXCEPT !.cameras = gen]

\* MqttIngestRegistry.bind: the ingests publish into the new registry.
Bind(i, gen) == IF i = Off THEN Off ELSE [i EXCEPT !.cameras = gen]

\* The new registry is built, published, bound to the brokers if it is the
\* cameras', and started; if it is refused, the old one stays in app.state,
\* stopped or not.
Rebuild ==
    \/ /\ Accepted(Cmd.section)
       /\ \E up \in Started :
             devices' = [of |-> Kept(Cmd.section), running |-> up,
                         gen |-> devices.gen + (IF family = "cameras" THEN 1 ELSE 0)]
       /\ ingests' = [b \in Broker |-> Bind(ingests[b], devices'.gen)]
       /\ Finish("ok") /\ pushed' = [pushed EXCEPT !["devices"] = "ok"]
    \/ /\ ~Accepted(Cmd.section)
       /\ devices' = [devices EXCEPT !.running = @ /\ ~Registry.stops]
       /\ Finish(FailureAnswer) /\ pushed' = [pushed EXCEPT !["devices"] = FailureAnswer]
       /\ UNCHANGED ingests

\* hot_reload_ac_fragment of a family: at once, or, for the cameras, after a
\* stop that waits for their streams to close.
PushDevices ==
    /\ loop = "exec" /\ Cmd.kind = "devices"
    /\ disk' = Written /\ Loads(Written) /\ config' = Written
    /\ \/ ~Registry.waits /\ Rebuild
       \/ /\ Registry.waits /\ devices' = [devices EXCEPT !.running = FALSE]
          /\ loop' = "reload" /\ pushed' = [pushed EXCEPT !["devices"] = "none"]
          /\ UNCHANGED <<answer, ingests>>
    /\ UNCHANGED <<proc, boots, batch, issued, identity, family, specs, byHand>>

ReloadDevices ==
    /\ loop = "reload" /\ Rebuild
    /\ UNCHANGED <<proc, boots, disk, config, family, specs, byHand, batch, issued, identity>>

\* with_access, with_biometric, with_scale: a request opens the device, of the
\* old registry too where the new one was refused.
Use ==
    /\ proc = "up" /\ Registry.lazy /\ ~devices.running
    /\ devices' = [devices EXCEPT !.running = TRUE]
    /\ UNCHANGED <<proc, boots, disk, config, family, specs, ingests, byHand, pushed, fleet>>

\* Mutant: a broker that becomes disabled is left alone.
ReloadedWithoutStop(b, old, new) ==
    IF old = new \/ ~Enabled(new) THEN ingests[b] ELSE Ingest(new, devices.gen)

\* reload_from_config: a broker that went away or was disabled stops, one
\* that changed restarts, one that did not change is left as it is.
Reloaded(b, old, new) ==
    IF old = new THEN Bind(ingests[b], devices.gen)
    ELSE Ingest(new, devices.gen)

\* The brokers, with no wait between their steps.
PushMqtt ==
    /\ loop = "exec" /\ Cmd.kind = "mqtt"
    /\ disk' = Written /\ Loads(Written)
    /\ config' = Written /\ specs' = Cmd.section
    /\ ingests' = [b \in Broker |-> Reloaded(b, specs[b], Cmd.section[b])]
    /\ byHand' = {b \in byHand : specs[b] = Cmd.section[b]}
    /\ Finish("ok") /\ pushed' = [pushed EXCEPT !["mqtt"] = "ok"]
    /\ UNCHANGED <<proc, boots, family, devices, batch, issued, identity>>

\* One bad command does not block the next.
AfterPost == IF Len(batch) = 1 THEN "beat" ELSE "exec"

\* _post_command_result, whether it arrives or not.
PostResult ==
    /\ loop = "post"
    /\ batch' = Tail(batch) /\ answer' = "none" /\ loop' = AfterPost
    /\ UNCHANGED <<proc, boots, issued, identity, hardware>>

-----------------------------------------------------------------------------
(* /mqtt/{name}/start and /mqtt/{name}/stop.                               *)

\* The routes: the broker's instance changes, its section does not.
Switch(b, i) ==
    /\ proc = "up" /\ ingests' = [ingests EXCEPT ![b] = i] /\ byHand' = byHand \cup {b}
    /\ UNCHANGED <<proc, boots, disk, config, family, devices, specs, pushed, fleet>>

StartOne(b) ==
    /\ specs[b] # "absent" /\ ingests[b] = Off
    /\ Switch(b, [spec |-> specs[b], cameras |-> devices.gen])

StopOne(b) == ingests[b] # Off /\ Switch(b, Off)

-----------------------------------------------------------------------------
LoopStep ==
    \/ LoadSecret \/ FirstEnrol \/ Reenrol
    \/ ExecuteOther \/ PushUnloadable \/ PushDevices \/ ReloadDevices \/ PushMqtt
    \/ PostResult

Next ==
    \/ Boot \/ Crash \/ Forget \/ Use
    \/ LoopStep \/ BeatOk \/ BeatGone
    \/ \E b \in Broker : StartOne(b) \/ StopOne(b)

Spec == Init /\ [][Next]_vars

\* The task of the loop runs, a heartbeat that finds the proxy forgotten
\* arrives in the end, and so does an enrolment that the server grants.
FairSpec ==
    /\ Spec
    /\ WF_vars(Boot) /\ WF_vars(LoopStep) /\ WF_vars(BeatGone)
    /\ SF_vars(Reenrol /\ known' # 0)

-----------------------------------------------------------------------------
(* Properties.                                                             *)

\* A push_config answered "applied" is what runs until the next push of its
\* section, after a restart too, and what the heartbeats report by its hash;
\* it never keeps the next start from loading the configuration.
AppliedRuns ==
    /\ pushed["devices"] = "ok" =>
        /\ proc # "refused"
        /\ proc = "up" => /\ devices.of = Kept(Versions.devices)
                          /\ config.devices = Versions.devices
                          /\ devices.running \/ Registry.lazy
    /\ pushed["mqtt"] = "ok" /\ proc = "up" => specs = Versions.mqtt

\* Whatever is pushed, refused or interrupted, every broker that was not
\* switched by hand runs exactly when its section enables it, with that
\* section's address, and publishes into the cameras that the routes serve.
BrokersAsConfigured ==
    proc = "up" =>
        \A b \in Broker \ byHand : ingests[b] = Ingest(specs[b], devices.gen)

\* The proxy asks for another secret while the server still knows it by one
\* only if it could not keep that one or never saw it: a refused heartbeat,
\* a lost one or a restart does not make it enrol again.
KeepsItsIdentity ==
    [][known # 0 /\ known' \notin {0, known} => stored # known]_vars

\* A proxy that the server forgot while its loop runs is known again without
\* a restart, however many enrolments fail before one is granted.
ForgottenComesBack ==
    (loop = "beat" /\ known = 0 /\ granted < MaxSecrets) ~> (known # 0 \/ proc # "up")
=============================================================================
