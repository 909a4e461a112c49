----------------------------- MODULE Europlacer -----------------------------
(***************************************************************************)
(* Material orders to one Europlacer machine through a shared folder:      *)
(* server/routes/europlacer.py accepts an order, EuroplacerFileProducer    *)
(* (drivers/europlacer/producer.py) writes it, waits for the .ans file and *)
(* retries, EuroplacerRegistry (server/service.py) starts, stops and       *)
(* reloads the station while workers are anywhere in that.                 *)
(*                                                                         *)
(* The machine is not in the repository: it reads a file of the folder     *)
(* whenever it likes and answers 5 to an order that it has already applied.*)
(***************************************************************************)
EXTENDS Integers, FiniteSets

CONSTANTS Order,        \* order ids; Odoo may submit one again
          MaxJobs,      \* bound on the submissions
          MaxInstances, \* bound on the producers made for the station
          Attempts,     \* 1 + retry_limit
          Workers,      \* max_concurrent
          Archives      \* whether an archive_dir is configured

ASSUME EuroplacerAssumption ==
    /\ Order # {} /\ Archives \in BOOLEAN
    /\ {MaxJobs, MaxInstances, Attempts, Workers} \subseteq Nat \ {0}

VARIABLES
    spec,      \* EuroplacerRegistry.specs[name]
    ingest,    \* ingests[name]: number of the producer and whether it started
    made,      \* number of producers made
    stopping,  \* producers whose _stop_evt is set
    jobs,      \* the accepted orders
    folder,    \* order files that the machine has not read to the end
    answers,   \* the .ans files that some worker may still read
    applied    \* orders that the machine has carried out

vars == <<spec, ingest, made, stopping, jobs, folder, answers, applied>>
station == <<spec, ingest, made, stopping>>
machine == <<folder, answers, applied>>

Job == 1..MaxJobs
Spec1 == {"absent", "disabled", "enabled"}
NoIngest == [n |-> 0, started |-> FALSE]

\* Where an order is: its outcome is what polling, the callback and the live
\* event say of it.  "gone": dropped by a stop, or lost with its process.
Outcome == {"success", "fatal", "transient", "timeout"}
At == {"unused", "queued", "attempt", "wait", "gone"} \cup Outcome
Running == {"attempt", "wait"}

\* Mutant: the base name of a file is the time of the order.
NameOfTime(j, attempt) == <<1, attempt>>

\* _order_basename: a token of its own for every accepted order, and a
\* suffix for every attempt; its answer has the same stem.
Name(j, attempt) == <<j, attempt>>

Code == {"none", "partial", "ok", "existing", "locked", "bad"}

TypeOK ==
    /\ spec \in Spec1
    /\ ingest \in [n : 0..made, started : BOOLEAN] /\ made \in 0..MaxInstances
    /\ stopping \subseteq 1..made
    /\ jobs \in [Job -> [order : Order, of : 0..made, at : At, attempt : 0..Attempts]]
    /\ folder \subseteq [name : Job \X (1..Attempts), order : Order]
    /\ answers \in [Job \X (1..Attempts) -> Code]
    /\ applied \subseteq Order

Init ==
    /\ spec = "enabled" /\ ingest = [n |-> 1, started |-> TRUE] /\ made = 1 /\ stopping = {}
    /\ jobs = [j \in Job |-> [order |-> CHOOSE o \in Order : TRUE, of |-> 0, at |-> "unused", attempt |-> 0]]
    /\ folder = {} /\ answers = [f \in Job \X (1..Attempts) |-> "none"]
    /\ applied = {}

-----------------------------------------------------------------------------
(* The registry of stations.                                               *)

\* The thread and the producer of an order are not looked at again.
Ended(job, at) == [job EXCEPT !.at = at, !.of = 0, !.attempt = 0]

\* A new producer for the spec s; start() does nothing when it is disabled.
Make(s) ==
    /\ made < MaxInstances
    /\ made' = made + 1 /\ ingest' = [n |-> made + 1, started |-> s = "enabled"]

\* Mutant: the queue of the executor is left to run.
StopRunningOnly == jobs

\* stop(): cancel_futures drops the orders that no worker has taken.
DropQueued ==
    [j \in Job |-> IF jobs[j].of = ingest.n /\ jobs[j].at = "queued"
                   THEN Ended(jobs[j], "gone") ELSE jobs[j]]

\* stop(): the event that the workers poll.
StopIngest ==
    IF ingest.started
    THEN stopping' = stopping \cup {ingest.n} /\ jobs' = DropQueued
    ELSE UNCHANGED <<stopping, jobs>>

\* A station that is not running; an order refused with 409 because the
\* station is disabled leaves the same instance behind.
StartOne ==
    /\ spec # "absent" /\ ingest = NoIngest
    /\ Make(spec) /\ UNCHANGED <<spec, stopping, jobs, machine>>

StopOne ==
    /\ ingest # NoIngest
    /\ StopIngest /\ ingest' = NoIngest
    /\ UNCHANGED <<spec, made, machine>>

\* reload_from_config: a station whose specification changed, to the same
\* "enabled" too (any of its parameters); the others are left alone.
Reload(new) ==
    /\ new # spec \/ new = "enabled"
    /\ StopIngest
    /\ IF new = "enabled" THEN Make(new) ELSE ingest' = NoIngest /\ UNCHANGED made
    /\ spec' = new
    /\ UNCHANGED machine

\* The process ends and starts again: what its threads were doing is lost.
Restart ==
    /\ IF spec = "enabled" THEN Make(spec) ELSE ingest' = NoIngest /\ UNCHANGED made
    /\ stopping' = {}
    /\ jobs' = [j \in Job |-> IF jobs[j].at \in Running \cup {"queued"}
                              THEN Ended(jobs[j], "gone") ELSE jobs[j]]
    /\ answers' = [f \in DOMAIN answers |-> "none"]
    /\ UNCHANGED <<spec, folder, applied>>

-----------------------------------------------------------------------------
(* POST /order.                                                            *)

\* The route starts a station that has no instance; a producer that is not
\* started refuses the order (409).
Submit(o, j) ==
    /\ spec # "absent" /\ jobs[j].at = "unused" /\ \A k \in 1..(j - 1) : jobs[k].at # "unused"
    /\ IF ingest = NoIngest THEN Make(spec) ELSE UNCHANGED <<made, ingest>>
    /\ ingest'.started
    /\ jobs' = [jobs EXCEPT ![j] = [order |-> o, of |-> ingest'.n, at |-> "queued", attempt |-> 0]]
    /\ UNCHANGED <<spec, stopping, machine>>

-----------------------------------------------------------------------------
(* _process_order, on a worker thread.                                     *)

Stopping(j) == jobs[j].of \in stopping

FileOf(j) == Name(j, jobs[j].attempt)

Take(j) ==
    /\ jobs[j].at = "queued"
    /\ Cardinality({k \in Job : jobs[k].of = jobs[j].of /\ jobs[k].at \in Running}) < Workers
    /\ jobs' = [jobs EXCEPT ![j].at = "attempt", ![j].attempt = 1]
    /\ UNCHANGED <<station, machine>>

\* _archive moves a file out of the folder if there is an archive, unless the
\* move fails.
Archived(name) == {folder} \cup IF Archives THEN {{f \in folder : f.name # name}} ELSE {}

\* _finish: the outcome is kept and reported, and the file of that name (there
\* may be none) is archived; its answer is not read again.
Finish(j, name, result) ==
    /\ jobs' = [jobs EXCEPT ![j] = Ended(@, result)]
    /\ folder' \in Archived(name)
    /\ answers' = [n \in DOMAIN answers |-> IF n = name THEN "none" ELSE answers[n]]
    /\ UNCHANGED <<station, applied>>

\* Mutant: the pause between attempts does not count them.
NextAttemptSame(j) == jobs[j].attempt

NextAttempt(j) == jobs[j].attempt + 1

\* Mutant: one attempt too many.
MayRetryOnceMore(j) == jobs[j].attempt <= Attempts

MayRetry(j) == jobs[j].attempt < Attempts

\* The next attempt after a pause, or the outcome of the last one.
RetryOr(j, result) ==
    IF MayRetry(j)
    THEN /\ jobs' = [jobs EXCEPT ![j].at = "attempt", ![j].attempt = NextAttempt(j)]
         /\ answers' = [answers EXCEPT ![FileOf(j)] = "none"]
         /\ UNCHANGED <<station, folder, applied>>
    ELSE Finish(j, FileOf(j), result)

\* An attempt that is aborted before its write leaves the file of the attempt
\* before it, if any, as the last one.
LastFile(j) == Name(j, jobs[j].attempt - 1)

\* One attempt, after the pause if there was one: "aborted" when the producer
\* stops.  _write_order replaces atomically, so the machine sees all of the
\* file or nothing; an OSError of the mount is tried again.
Attempt(j) ==
    /\ jobs[j].at = "attempt"
    /\ IF Stopping(j) THEN Finish(j, LastFile(j), "transient")
       ELSE \/ /\ jobs' = [jobs EXCEPT ![j].at = "wait"]
               /\ folder' = {f \in folder : f.name # FileOf(j)}
                     \cup {[name |-> FileOf(j), order |-> jobs[j].order]}
               /\ UNCHANGED <<station, answers, applied>>
            \/ RetryOr(j, "transient")

\* Mutant: "object already existing" is an error like another.
KindWithoutExisting(code) ==
    CASE code = "ok" -> "success" [] code = "locked" -> "transient" [] OTHER -> "fatal"

\* classify, and AnswerMalformed.
Kind(code) ==
    CASE code \in {"ok", "existing"} -> "success"
      [] code = "locked" -> "transient"
      [] OTHER -> "fatal"

\* AnswerNotReady: an answer that is still being written is read again.
Readable(code) == code \notin {"none", "partial"}

\* _wait_answer: stopped (looked at before the file), answered, or timed out,
\* at any moment and, if the mount fails, with an answer there too.
Wait(j) ==
    /\ jobs[j].at = "wait"
    /\ IF Stopping(j) THEN Finish(j, FileOf(j), "transient")
       ELSE LET code == answers[FileOf(j)]
            IN  \/ /\ Readable(code)
                   /\ IF Kind(code) = "transient" THEN RetryOr(j, "transient")
                      ELSE Finish(j, FileOf(j), Kind(code))
                \/ RetryOr(j, "timeout")

-----------------------------------------------------------------------------
(* The machine.                                                            *)

\* What it may answer to an order: it knows the ones it has applied.
Verdict(o) == IF o \in applied THEN {"existing"} ELSE {"ok", "locked", "bad"}

\* The answer to a file that no worker waits for any more is not kept.
Awaited(f) == \E j \in Job : jobs[j].at = "wait" /\ FileOf(j) = f.name

\* A file is read once.  Its answer appears at once, or first a part of it.
Process(f) ==
    /\ f \in folder
    /\ \/ \E code \in Verdict(f.order) :
            /\ applied' = IF code = "ok" THEN applied \cup {f.order} ELSE applied
            /\ answers' = IF Awaited(f) THEN [answers EXCEPT ![f.name] = code] ELSE answers
            /\ folder' = folder \ {f}
       \/ /\ Awaited(f) /\ answers[f.name] = "none"
          /\ answers' = [answers EXCEPT ![f.name] = "partial"]
          /\ UNCHANGED <<applied, folder>>
    /\ UNCHANGED <<station, jobs>>

-----------------------------------------------------------------------------
Work(j) == Take(j) \/ Attempt(j) \/ Wait(j)

Next ==
    \/ \E j \in Job : Work(j) \/ \E o \in Order : Submit(o, j)
    \/ \E f \in folder : Process(f)
    \/ StartOne \/ StopOne \/ Restart
    \/ \E new \in Spec1 : Reload(new)

Spec == Init /\ [][Next]_vars

\* The worker threads run; nothing is asked of the machine.
FairSpec == Spec /\ \A j \in Job : WF_vars(Work(j))

-----------------------------------------------------------------------------
(* Properties.                                                             *)

\* "success" is said of an order only when the machine has carried it out,
\* whatever other orders, earlier attempts and half-written answers are in
\* the folder.
SuccessIsApplied == \A j \in Job : jobs[j].at = "success" => jobs[j].order \in applied

\* An order that the machine had applied before it was submitted again, or
\* before its worker took it, is never reported as refused: what the machine
\* answers to its files, "already existing", is a success, half of that
\* answer is nothing, and whatever else goes wrong may be tried again.
ExistingIsNotRefused ==
    \A j \in Job :
        [](jobs[j].at = "queued" /\ jobs[j].order \in applied => [](jobs[j].at # "fatal"))

\* One producer at a time: what runs or waits in a producer that is not the
\* station's instance is on its way out.
OneProducer ==
    \A j \in Job :
        /\ jobs[j].at = "queued" => jobs[j].of = ingest.n
        /\ jobs[j].at \in Running => jobs[j].of = ingest.n \/ Stopping(j)

\* Every accepted order gets an outcome, or is dropped by a stop or lost
\* with its process; a stop does not wait for the machine.
EveryOrderEnds ==
    \A j \in Job : (jobs[j].at = "queued") ~> (jobs[j].at \in Outcome \cup {"gone"})
=============================================================================
