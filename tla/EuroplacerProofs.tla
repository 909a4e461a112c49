--------------------------- MODULE EuroplacerProofs ---------------------------
(***************************************************************************)
(* What Europlacer promises of the orders, proved for any orders, any      *)
(* number of submissions, producers, attempts and workers: the types, that *)
(* "success" is said only of what the machine has carried out, that an     *)
(* order applied before is never refused, and that one producer at a time  *)
(* serves the station.                                                     *)
(***************************************************************************)
EXTENDS Europlacer, TLAPS

-----------------------------------------------------------------------------
(* The inductive invariant.                                                *)

File == Job \X (1..Attempts)
JobRecord == [order : Order, of : 0..made, at : At, attempt : 0..Attempts]

\* A worker writes and reads files of an attempt that may be made.
AttemptsCount == \A j \in Job : jobs[j].at \in Running => jobs[j].attempt \in 1..Attempts

\* A file in the folder holds the order of the job it is named after.
FilesAreOwn ==
    \A f \in folder : jobs[f.name[1]].at # "unused" /\ jobs[f.name[1]].order = f.order

\* A good answer is there only for an order that was carried out.
AnswersAreTrue ==
    \A n \in File :
        /\ answers[n] # "none" => jobs[n[1]].at # "unused"
        /\ answers[n] \in {"ok", "existing"} => jobs[n[1]].order \in applied

\* What runs in a producer that is not stopping runs in the station's
\* instance, and that one is started.
ProducerIsOne ==
    \A j \in Job :
        /\ jobs[j].at = "queued" => jobs[j].of = ingest.n /\ ingest.started
        /\ jobs[j].at \in Running => (jobs[j].of = ingest.n /\ ingest.started) \/ Stopping(j)

\* Nothing is made by NoIngest.
StartedIsMade == ingest.started => ingest.n # 0

IInv ==
    /\ TypeOK /\ StartedIsMade /\ AttemptsCount /\ FilesAreOwn /\ AnswersAreTrue /\ ProducerIsOne
    /\ SuccessIsApplied

-----------------------------------------------------------------------------
(* A step of the worker of job j, as far as the invariant looks at it.     *)

WorkOf(j) ==
    /\ UNCHANGED <<station, applied>>
    /\ jobs' \in [Job -> JobRecord]
    /\ \A k \in Job \ {j} : jobs'[k] = jobs[k]
    /\ jobs'[j].order = jobs[j].order
    /\ jobs[j].at # "unused" /\ jobs'[j].at \notin {"unused", "queued"}
    /\ jobs'[j].at = "success" => jobs[j].order \in applied
    /\ jobs'[j].at \in Running =>
          /\ jobs'[j].of = jobs[j].of /\ jobs'[j].attempt \in 1..Attempts
          /\ jobs[j].at \in Running \cup {"queued"}
    /\ folder' \subseteq [name : File, order : Order]
    /\ \A f \in folder' \ folder : f.name[1] = j /\ f.order = jobs[j].order
    /\ answers' \in [File -> Code]
    /\ \A n \in File : answers'[n] \in {answers[n], "none"}

LEMMA TypeParts ==
    ASSUME TypeOK
    PROVE  /\ jobs \in [Job -> JobRecord] /\ answers \in [File -> Code]
           /\ folder \subseteq [name : File, order : Order]
           /\ \A j \in Job : jobs[j].at \in At /\ jobs[j].attempt \in 0..Attempts
BY DEF TypeOK, File, JobRecord

\* A job that moves on or ends is still a job.
LEMMA JobMoves ==
    ASSUME TypeOK, NEW job \in JobRecord, NEW at \in At, NEW n \in 0..Attempts
    PROVE  /\ [job EXCEPT !.at = at, !.attempt = n] \in JobRecord
           /\ Ended(job, at) \in JobRecord
           /\ Ended(job, at).order = job.order /\ Ended(job, at).at = at
<1>1. made \in Nat /\ Attempts \in Nat
  BY EuroplacerAssumption DEF TypeOK
<1>2. 0 \in 0..made /\ 0 \in 0..Attempts
  BY <1>1
<1> QED
  BY <1>2 DEF JobRecord, Ended

\* The name of a file in the folder is that of a job and an attempt.
LEMMA FileName ==
    ASSUME NEW j \in Job, jobs[j].attempt \in 1..Attempts
    PROVE  FileOf(j) \in File /\ FileOf(j)[1] = j
BY DEF FileOf, Name, File

LEMMA FinishWorks ==
    ASSUME IInv, NEW j \in Job, NEW name, NEW result \in Outcome, Finish(j, name, result),
           jobs[j].at \in Running, result = "success" => jobs[j].order \in applied
    PROVE  WorkOf(j)
<1> USE TypeParts
<1>1. jobs[j].attempt \in 1..Attempts /\ jobs[j].at # "unused" /\ jobs[j] \in JobRecord
  BY DEF IInv, AttemptsCount, Running
<1>2. folder' \subseteq folder
  BY DEF Finish, Archived
<1>3. UNCHANGED <<station, applied>>
  BY DEF Finish
<1>4. /\ jobs' = [jobs EXCEPT ![j] = Ended(@, result)]
      /\ answers' = [n \in DOMAIN answers |-> IF n = name THEN "none" ELSE answers[n]]
  BY DEF Finish
<1>5. /\ Ended(jobs[j], result) \in JobRecord
      /\ Ended(jobs[j], result).order = jobs[j].order /\ Ended(jobs[j], result).at = result
  BY <1>1, JobMoves, EuroplacerAssumption DEF At, IInv
<1>6. /\ jobs' \in [Job -> JobRecord] /\ jobs'[j] = Ended(jobs[j], result)
      /\ \A k \in Job \ {j} : jobs'[k] = jobs[k]
  BY <1>4, <1>5 DEF IInv
<1>7. answers' \in [File -> Code] /\ \A n \in File : answers'[n] \in {answers[n], "none"}
  BY <1>4 DEF IInv, Code
<1>8. result \notin {"unused", "queued"} /\ result \notin Running
  BY DEF Outcome, Running
<1>9. folder' \subseteq [name : File, order : Order] /\ folder' \ folder = {}
  BY <1>2 DEF IInv
<1> QED
  BY <1>1, <1>3, <1>5, <1>6, <1>7, <1>8, <1>9 DEF WorkOf

LEMMA RetryOrWorks ==
    ASSUME IInv, NEW j \in Job, NEW result \in {"transient", "timeout"}, RetryOr(j, result),
           jobs[j].at \in Running
    PROVE  WorkOf(j)
<1> USE TypeParts
<1>1. CASE ~MayRetry(j)
  BY <1>1, FinishWorks DEF RetryOr, Outcome
<1>2. CASE MayRetry(j)
  <2>1. jobs[j].attempt \in 1..Attempts /\ jobs[j].at # "unused" /\ jobs[j] \in JobRecord
    BY DEF IInv, AttemptsCount, Running
  <2>2. FileOf(j) \in File
    BY <2>1, FileName
  <2>3. NextAttempt(j) \in 1..Attempts
    BY <1>2, <2>1, EuroplacerAssumption DEF MayRetry, NextAttempt
  <2>4. /\ jobs' = [jobs EXCEPT ![j] = [jobs[j] EXCEPT !.at = "attempt", !.attempt = NextAttempt(j)]]
        /\ answers' = [answers EXCEPT ![FileOf(j)] = "none"]
        /\ UNCHANGED <<station, folder, applied>>
    <3>1. /\ jobs' = [jobs EXCEPT ![j].at = "attempt", ![j].attempt = NextAttempt(j)]
          /\ answers' = [answers EXCEPT ![FileOf(j)] = "none"]
          /\ UNCHANGED <<station, folder, applied>>
      BY <1>2 DEF RetryOr
    <3> QED
      BY <3>1 DEF IInv
  <2> DEFINE new == [jobs[j] EXCEPT !.at = "attempt", !.attempt = NextAttempt(j)]
  <2>5. /\ new \in JobRecord /\ new.order = jobs[j].order /\ new.of = jobs[j].of
        /\ new.at = "attempt" /\ new.attempt \in 1..Attempts
    <3>1. NextAttempt(j) \in 0..Attempts /\ "attempt" \in At
      BY <2>3 DEF At
    <3>2. new \in JobRecord
      BY <2>1, <3>1, JobMoves DEF IInv
    <3> QED
      BY <2>1, <2>3, <3>2 DEF JobRecord
  <2>6. jobs' = [jobs EXCEPT ![j] = new]
    BY <2>4
  <2> HIDE DEF new
  <2>7. jobs' \in [Job -> JobRecord] /\ jobs'[j] = new /\ \A k \in Job \ {j} : jobs'[k] = jobs[k]
    BY <2>5, <2>6 DEF IInv
  <2>8. answers' \in [File -> Code] /\ \A n \in File : answers'[n] \in {answers[n], "none"}
    BY <2>2, <2>4 DEF IInv, Code
  <2>9. folder' \subseteq [name : File, order : Order] /\ folder' \ folder = {}
    BY <2>4 DEF IInv
  <2> QED
    BY <2>1, <2>4, <2>5, <2>7, <2>8, <2>9 DEF WorkOf, Running
<1> QED
  BY <1>1, <1>2

LEMMA TakeWorks ==
    ASSUME IInv, NEW j \in Job, Take(j)
    PROVE  WorkOf(j)
<1> USE TypeParts
<1> DEFINE new == [jobs[j] EXCEPT !.at = "attempt", !.attempt = 1]
<1>1. /\ jobs[j].at = "queued" /\ UNCHANGED <<station, machine>> /\ jobs[j] \in JobRecord
      /\ jobs' = [jobs EXCEPT ![j].at = "attempt", ![j].attempt = 1]
  BY DEF Take, IInv
<1>2. 1 \in 1..Attempts /\ 1 \in 0..Attempts /\ "attempt" \in At
  BY EuroplacerAssumption DEF At
<1>3. /\ new \in JobRecord /\ new.order = jobs[j].order /\ new.of = jobs[j].of
      /\ new.at = "attempt" /\ new.attempt \in 1..Attempts
  <2>1. new \in JobRecord
    BY <1>1, <1>2, JobMoves DEF IInv
  <2> QED
    BY <1>1, <1>2, <2>1 DEF JobRecord
<1>4. jobs' = [jobs EXCEPT ![j] = new]
  BY <1>1 DEF IInv
<1> HIDE DEF new
<1>5. jobs' \in [Job -> JobRecord] /\ jobs'[j] = new /\ \A k \in Job \ {j} : jobs'[k] = jobs[k]
  BY <1>3, <1>4 DEF IInv
<1>6. /\ answers' \in [File -> Code] /\ \A n \in File : answers'[n] \in {answers[n], "none"}
      /\ folder' \subseteq [name : File, order : Order] /\ folder' \ folder = {}
  BY <1>1 DEF IInv, machine
<1> QED
  BY <1>1, <1>3, <1>5, <1>6 DEF WorkOf, machine, Running

LEMMA AttemptWorks ==
    ASSUME IInv, NEW j \in Job, Attempt(j)
    PROVE  WorkOf(j)
<1> USE TypeParts
<1>1. jobs[j].at = "attempt" /\ jobs[j].at \in Running /\ jobs[j] \in JobRecord
  BY DEF Attempt, Running, IInv
<1>2. jobs[j].attempt \in 1..Attempts
  BY <1>1 DEF IInv, AttemptsCount
<1>3. CASE Stopping(j)
  BY <1>1, <1>3, FinishWorks DEF Attempt, Outcome
<1>4. CASE RetryOr(j, "transient")
  BY <1>1, <1>4, RetryOrWorks
<1>5. CASE /\ jobs' = [jobs EXCEPT ![j].at = "wait"]
           /\ folder' = {f \in folder : f.name # FileOf(j)}
                 \cup {[name |-> FileOf(j), order |-> jobs[j].order]}
           /\ UNCHANGED <<station, answers, applied>>
  <2> DEFINE new == [jobs[j] EXCEPT !.at = "wait", !.attempt = jobs[j].attempt]
  <2>1. /\ new \in JobRecord /\ new.order = jobs[j].order /\ new.of = jobs[j].of
        /\ new.at = "wait" /\ new.attempt \in 1..Attempts
    <3>1. jobs[j].attempt \in 0..Attempts /\ "wait" \in At
      BY <1>1 DEF At, JobRecord
    <3>2. new \in JobRecord
      BY <1>1, <3>1, JobMoves DEF IInv
    <3> QED
      BY <1>1, <1>2, <3>2 DEF JobRecord
  <2>2. jobs' = [jobs EXCEPT ![j] = new]
    BY <1>1, <1>5 DEF IInv, JobRecord
  <2> HIDE DEF new
  <2>3. jobs' \in [Job -> JobRecord] /\ jobs'[j] = new /\ \A k \in Job \ {j} : jobs'[k] = jobs[k]
    BY <2>1, <2>2 DEF IInv
  <2>4. FileOf(j) \in File /\ FileOf(j)[1] = j /\ jobs[j].order \in Order
    BY <1>1, <1>2, FileName DEF JobRecord
  <2>5. /\ folder' \subseteq [name : File, order : Order]
        /\ \A f \in folder' \ folder : f.name[1] = j /\ f.order = jobs[j].order
    BY <1>5, <2>4 DEF IInv
  <2>6. answers' \in [File -> Code] /\ \A n \in File : answers'[n] \in {answers[n], "none"}
    BY <1>5 DEF IInv
  <2> QED
    BY <1>1, <1>5, <2>1, <2>3, <2>5, <2>6 DEF WorkOf, Running
<1> QED
  BY <1>3, <1>4, <1>5 DEF Attempt

LEMMA WaitWorks ==
    ASSUME IInv, NEW j \in Job, Wait(j)
    PROVE  WorkOf(j)
<1>1. jobs[j].at \in Running
  BY DEF Wait, Running
<1>2. jobs[j].attempt \in 1..Attempts
  BY <1>1 DEF IInv, AttemptsCount
<1>3. FileOf(j) \in File /\ FileOf(j)[1] = j
  BY <1>2, FileName
<1>4. CASE Stopping(j)
  BY <1>1, <1>4, FinishWorks DEF Wait, Outcome
<1>5. CASE RetryOr(j, "timeout") \/ RetryOr(j, "transient")
  BY <1>1, <1>5, RetryOrWorks
<1>6. CASE Finish(j, FileOf(j), Kind(answers[FileOf(j)])) /\ Kind(answers[FileOf(j)]) # "transient"
  <2>1. Kind(answers[FileOf(j)]) \in Outcome
    BY DEF Kind, Outcome
  <2>2. Kind(answers[FileOf(j)]) = "success" => jobs[j].order \in applied
    BY <1>3 DEF Kind, IInv, AnswersAreTrue
  <2> QED
    BY <1>1, <1>6, <2>1, <2>2, FinishWorks
<1> QED
  BY <1>4, <1>5, <1>6 DEF Wait

-----------------------------------------------------------------------------
(* Every step preserves the invariant.                                     *)

LEMMA WorkPreserves ==
    ASSUME IInv, NEW j \in Job, Work(j)
    PROVE  IInv'
<1> USE TypeParts
<1>1. WorkOf(j)
  BY TakeWorks, AttemptWorks, WaitWorks DEF Work
<1>2. TypeOK'
  BY <1>1 DEF WorkOf, IInv, TypeOK, station, File, JobRecord
<1>3. \A k \in Job : jobs'[k].order = jobs[k].order /\ (jobs[k].at # "unused" => jobs'[k].at # "unused")
  BY <1>1 DEF WorkOf
<1>4. AttemptsCount'
  BY <1>1 DEF WorkOf, IInv, AttemptsCount, Running
<1>5. FilesAreOwn'
  <2> SUFFICES ASSUME NEW f \in folder'
               PROVE  jobs'[f.name[1]].at # "unused" /\ jobs'[f.name[1]].order = f.order
    BY DEF FilesAreOwn
  <2>1. CASE f \in folder
    <3>1. f.name[1] \in Job
      BY <2>1 DEF IInv, File
    <3> QED
      BY <1>3, <2>1, <3>1 DEF IInv, FilesAreOwn
  <2>2. CASE f \notin folder
    BY <1>1, <2>2 DEF WorkOf
  <2> QED
    BY <2>1, <2>2
<1>6. AnswersAreTrue'
  <2> SUFFICES ASSUME NEW n \in File
               PROVE  /\ answers'[n] # "none" => jobs'[n[1]].at # "unused"
                      /\ answers'[n] \in {"ok", "existing"} => jobs'[n[1]].order \in applied'
    BY DEF AnswersAreTrue, File
  <2>1. n[1] \in Job /\ answers'[n] \in {answers[n], "none"} /\ applied' = applied
    BY <1>1 DEF File, WorkOf
  <2> QED
    BY <1>3, <2>1 DEF IInv, AnswersAreTrue
<1>7. ProducerIsOne'
  BY <1>1 DEF WorkOf, station, Running, IInv, ProducerIsOne, Stopping
<1>8. SuccessIsApplied'
  BY <1>1 DEF WorkOf, IInv, SuccessIsApplied
<1>9. StartedIsMade'
  BY <1>1 DEF WorkOf, station, IInv, StartedIsMade
<1> QED
  BY <1>2, <1>4, <1>5, <1>6, <1>7, <1>8, <1>9 DEF IInv

LEMMA ProcessPreserves ==
    ASSUME IInv, NEW f \in folder, Process(f)
    PROVE  IInv'
<1> USE TypeParts
<1>1. /\ UNCHANGED <<spec, ingest, made, stopping, jobs>>
      /\ f.name \in File /\ f.order \in Order /\ f.name[1] \in Job
      /\ jobs[f.name[1]].at # "unused" /\ jobs[f.name[1]].order = f.order
  BY DEF Process, station, IInv, FilesAreOwn, File
<1>2. PICK code \in Code :
        /\ applied \subseteq applied' /\ applied' \subseteq applied \cup {f.order}
        /\ answers' \in {answers, [answers EXCEPT ![f.name] = code]}
        /\ code \in {"ok", "existing"} => f.order \in applied'
        /\ folder' \subseteq folder
  <2>1. CASE /\ answers' = [answers EXCEPT ![f.name] = "partial"]
             /\ UNCHANGED <<applied, folder>>
    BY <2>1 DEF Code
  <2>2. CASE \E code \in Verdict(f.order) :
            /\ applied' = IF code = "ok" THEN applied \cup {f.order} ELSE applied
            /\ answers' = IF Awaited(f) THEN [answers EXCEPT ![f.name] = code] ELSE answers
            /\ folder' = folder \ {f}
    <3>1. PICK code \in Verdict(f.order) :
            /\ applied' = IF code = "ok" THEN applied \cup {f.order} ELSE applied
            /\ answers' = IF Awaited(f) THEN [answers EXCEPT ![f.name] = code] ELSE answers
            /\ folder' = folder \ {f}
      BY <2>2
    <3>2. code \in Code /\ (code = "existing" => f.order \in applied)
      BY DEF Verdict, Code
    <3> QED
      BY <3>1, <3>2
  <2> QED
    BY <2>1, <2>2 DEF Process
<1>3. /\ answers' \in [File -> Code]
      /\ \A n \in File : answers'[n] = answers[n] \/ (n = f.name /\ answers'[n] = code)
  BY <1>1, <1>2 DEF IInv
<1>4. TypeOK'
  BY <1>1, <1>2, <1>3 DEF IInv, TypeOK, File
<1>5. AttemptsCount' /\ ProducerIsOne' /\ FilesAreOwn'
  BY <1>1, <1>2 DEF IInv, AttemptsCount, ProducerIsOne, Stopping, FilesAreOwn
<1>6. AnswersAreTrue'
  BY <1>1, <1>2, <1>3 DEF IInv, AnswersAreTrue, File
<1>7. SuccessIsApplied'
  BY <1>1, <1>2 DEF IInv, SuccessIsApplied
<1> QED
  BY <1>1, <1>4, <1>5, <1>6, <1>7 DEF IInv, StartedIsMade

\* A step of the registry that drops some of the jobs and leaves the others.
DropsJobs ==
    /\ UNCHANGED <<folder, applied>>
    /\ DOMAIN jobs' = Job
    /\ jobs' = [k \in Job |-> jobs'[k]]
    /\ \A k \in Job :
          \/ jobs'[k] = jobs[k]
          \/ jobs[k].at # "unused" /\ jobs'[k] = Ended(jobs[k], "gone")
    /\ answers' \in {answers, [n \in File |-> "none"]}

\* What the registry does to its own variables.
StationTyped ==
    /\ spec' \in Spec1 /\ made' \in made..MaxInstances
    /\ ingest' \in [n : 0..made', started : BOOLEAN] /\ stopping' \subseteq 1..made'

LEMMA DropsJobsPreserves ==
    ASSUME IInv, DropsJobs, StationTyped
    PROVE  /\ TypeOK' /\ AttemptsCount' /\ FilesAreOwn' /\ AnswersAreTrue' /\ SuccessIsApplied'
           /\ \A k \in Job : jobs'[k] = jobs[k] \/ jobs'[k].at = "gone"
<1> USE TypeParts
<1>1. "gone" \in At /\ "gone" \notin Running
  BY DEF At, Running
<1>2. \A k \in Job :
         /\ jobs[k] \in JobRecord /\ jobs'[k] \in JobRecord
         /\ jobs'[k].order = jobs[k].order
         /\ jobs'[k] = jobs[k] \/ (jobs[k].at # "unused" /\ jobs'[k].at = "gone")
  <2> SUFFICES ASSUME NEW k \in Job
               PROVE  /\ jobs[k] \in JobRecord /\ jobs'[k] \in JobRecord
                      /\ jobs'[k].order = jobs[k].order
                      /\ jobs'[k] = jobs[k] \/ (jobs[k].at # "unused" /\ jobs'[k].at = "gone")
    OBVIOUS
  <2>1. jobs[k] \in JobRecord /\ 0 \in 0..Attempts
    BY EuroplacerAssumption DEF IInv
  <2>2. /\ Ended(jobs[k], "gone") \in JobRecord
        /\ Ended(jobs[k], "gone").order = jobs[k].order /\ Ended(jobs[k], "gone").at = "gone"
    BY <1>1, <2>1, JobMoves DEF IInv
  <2> QED
    BY <2>1, <2>2 DEF DropsJobs
<1>3. made \in Nat /\ made' \in Nat /\ 0..made \subseteq 0..made' /\ made' \in 0..MaxInstances
  BY EuroplacerAssumption DEF StationTyped, IInv, TypeOK
<1>4. jobs' \in [Job -> [order : Order, of : 0..made', at : At, attempt : 0..Attempts]]
  <2>1. \A k \in Job : jobs'[k] \in [order : Order, of : 0..made', at : At, attempt : 0..Attempts]
    BY <1>2, <1>3 DEF JobRecord
  <2> QED
    BY <2>1 DEF DropsJobs
<1>5. answers' \in [File -> Code] /\ \A n \in File : answers'[n] \in {answers[n], "none"}
  BY DEF DropsJobs, IInv, Code
<1>6. TypeOK'
  BY <1>3, <1>4, <1>5 DEF DropsJobs, StationTyped, IInv, TypeOK, File
<1>7. AttemptsCount'
  BY <1>1, <1>2 DEF IInv, AttemptsCount
<1>8. FilesAreOwn'
  <2> SUFFICES ASSUME NEW f \in folder
               PROVE  jobs'[f.name[1]].at # "unused" /\ jobs'[f.name[1]].order = f.order
    BY DEF FilesAreOwn, DropsJobs
  <2>1. f.name[1] \in Job
    BY DEF IInv, File
  <2> QED
    BY <1>2, <2>1 DEF IInv, FilesAreOwn
<1>9. AnswersAreTrue'
  <2> SUFFICES ASSUME NEW n \in File
               PROVE  /\ answers'[n] # "none" => jobs'[n[1]].at # "unused"
                      /\ answers'[n] \in {"ok", "existing"} => jobs'[n[1]].order \in applied
    BY DEF AnswersAreTrue, DropsJobs, File
  <2>1. n[1] \in Job
    BY DEF File
  <2> QED
    BY <1>2, <1>5, <2>1 DEF IInv, AnswersAreTrue
<1>10. SuccessIsApplied'
  BY <1>2 DEF DropsJobs, IInv, SuccessIsApplied
<1> QED
  BY <1>2, <1>6, <1>7, <1>8, <1>9, <1>10

\* stop(): afterwards nothing waits for the stopped producer, and what runs
\* in it has been told to stop.
LEMMA StopIngestDrops ==
    ASSUME IInv, StopIngest
    PROVE  /\ DOMAIN jobs' = Job /\ jobs' = [k \in Job |-> jobs'[k]]
           /\ stopping' \subseteq 1..made
           /\ \A k \in Job :
                 /\ \/ jobs'[k] = jobs[k]
                    \/ jobs[k].at # "unused" /\ jobs'[k] = Ended(jobs[k], "gone")
                 /\ jobs'[k].at # "queued"
                 /\ jobs'[k].at \in Running => jobs'[k].of \in stopping'
<1> USE TypeParts
<1>1. \A k \in Job : Ended(jobs[k], "gone").at = "gone"
  BY EuroplacerAssumption DEF Ended, IInv, JobRecord
<1>2. CASE ~ingest.started
  BY <1>2 DEF StopIngest, IInv, ProducerIsOne, Stopping, TypeOK
<1>3. CASE ingest.started
  <2>1. jobs' = DropQueued /\ stopping' = stopping \cup {ingest.n}
    BY <1>3 DEF StopIngest
  <2>2. \A k \in Job : jobs'[k] = IF jobs[k].of = ingest.n /\ jobs[k].at = "queued"
                                  THEN Ended(jobs[k], "gone") ELSE jobs[k]
    BY <2>1 DEF DropQueued
  <2>3. \A k \in Job :
           /\ \/ jobs'[k] = jobs[k]
              \/ jobs[k].at # "unused" /\ jobs'[k] = Ended(jobs[k], "gone")
           /\ jobs'[k].at # "queued"
           /\ jobs'[k].at \in Running => jobs'[k].of \in stopping'
    BY <1>1, <2>1, <2>2 DEF IInv, ProducerIsOne, Stopping, Running
  <2>4. stopping' \subseteq 1..made
    <3>1. stopping \subseteq 1..made /\ ingest.n \in 0..made /\ made \in Nat
      BY EuroplacerAssumption DEF IInv, TypeOK
    <3>2. ingest.n # 0
      BY <1>3 DEF IInv, StartedIsMade
    <3>3. ingest.n \in 1..made
      BY <3>1, <3>2
    <3>4. stopping' = stopping \cup {ingest.n}
      BY <2>1
    <3> QED
      BY <3>1, <3>3, <3>4
  <2> QED
    BY <2>1, <2>3, <2>4 DEF DropQueued
<1> QED
  BY <1>2, <1>3

\* A producer that is made serves the station alone when whatever ran or
\* waited was told to stop.
LEMMA MakeTyped ==
    ASSUME IInv, NEW s \in Spec1, Make(s)
    PROVE  /\ made' = made + 1 /\ made' \in made..MaxInstances /\ 1..made \subseteq 1..made'
           /\ ingest' \in [n : 0..made', started : BOOLEAN] /\ ingest'.n = made'
           /\ StartedIsMade'
<1>1. made \in Nat /\ MaxInstances \in Nat /\ made' = made + 1 /\ made < MaxInstances
  BY EuroplacerAssumption DEF IInv, TypeOK, Make
<1>2. ingest' = [n |-> made + 1, started |-> s = "enabled"]
  BY DEF Make
<1>3. (s = "enabled") \in BOOLEAN
  OBVIOUS
<1>4. ingest'.n = made + 1 /\ ingest' \in [n : 0..made', started : BOOLEAN]
  BY <1>1, <1>2, <1>3
<1> QED
  BY <1>1, <1>4 DEF StartedIsMade

LEMMA StopOnePreserves ==
    ASSUME IInv, StopOne
    PROVE  IInv'
<1>1. StopIngest /\ ingest' = NoIngest /\ UNCHANGED <<spec, made, folder, answers, applied>>
  BY DEF StopOne, machine
<1>2. /\ DOMAIN jobs' = Job /\ jobs' = [k \in Job |-> jobs'[k]]
      /\ stopping' \subseteq 1..made
      /\ \A k \in Job :
            /\ \/ jobs'[k] = jobs[k]
               \/ jobs[k].at # "unused" /\ jobs'[k] = Ended(jobs[k], "gone")
            /\ jobs'[k].at # "queued"
            /\ jobs'[k].at \in Running => jobs'[k].of \in stopping'
  BY <1>1, StopIngestDrops
<1>3. StationTyped /\ StartedIsMade'
  BY <1>1, <1>2, EuroplacerAssumption DEF StationTyped, StartedIsMade, NoIngest, IInv, TypeOK
<1>4. DropsJobs
  BY <1>1, <1>2 DEF DropsJobs
<1>5. ProducerIsOne'
  BY <1>2 DEF ProducerIsOne, Stopping
<1> QED
  BY <1>3, <1>4, <1>5, DropsJobsPreserves DEF IInv

LEMMA ReloadPreserves ==
    ASSUME IInv, NEW new \in Spec1, Reload(new)
    PROVE  IInv'
<1>1. /\ StopIngest /\ spec' = new /\ UNCHANGED <<folder, answers, applied>>
      /\ Make(new) \/ (ingest' = NoIngest /\ made' = made)
  BY DEF Reload, machine
<1>2. /\ DOMAIN jobs' = Job /\ jobs' = [k \in Job |-> jobs'[k]]
      /\ stopping' \subseteq 1..made
      /\ \A k \in Job :
            /\ \/ jobs'[k] = jobs[k]
               \/ jobs[k].at # "unused" /\ jobs'[k] = Ended(jobs[k], "gone")
            /\ jobs'[k].at # "queued"
            /\ jobs'[k].at \in Running => jobs'[k].of \in stopping'
  BY <1>1, StopIngestDrops
<1>3. StationTyped /\ StartedIsMade'
  <2>1. CASE Make(new)
    BY <1>1, <1>2, <2>1, MakeTyped DEF StationTyped
  <2>2. CASE ingest' = NoIngest /\ made' = made
    BY <1>1, <1>2, <2>2, EuroplacerAssumption
    DEF StationTyped, StartedIsMade, NoIngest, IInv, TypeOK
  <2> QED
    BY <1>1, <2>1, <2>2
<1>4. DropsJobs
  BY <1>1, <1>2 DEF DropsJobs
<1>5. ProducerIsOne'
  BY <1>2 DEF ProducerIsOne, Stopping
<1> QED
  BY <1>3, <1>4, <1>5, DropsJobsPreserves DEF IInv

LEMMA RestartPreserves ==
    ASSUME IInv, Restart
    PROVE  IInv'
<1> USE TypeParts
<1>1. /\ stopping' = {} /\ UNCHANGED <<spec, folder, applied>>
      /\ Make(spec) \/ (ingest' = NoIngest /\ made' = made)
      /\ jobs' = [k \in Job |-> IF jobs[k].at \in Running \cup {"queued"}
                                THEN Ended(jobs[k], "gone") ELSE jobs[k]]
      /\ answers' = [n \in File |-> "none"]
  <2>1. DOMAIN answers = File
    BY DEF IInv
  <2> QED
    BY <2>1 DEF Restart
<1>2. \A k \in Job :
         /\ \/ jobs'[k] = jobs[k]
            \/ jobs[k].at # "unused" /\ jobs'[k] = Ended(jobs[k], "gone")
         /\ jobs'[k].at \notin Running \cup {"queued"}
  <2>1. \A k \in Job : Ended(jobs[k], "gone").at = "gone"
    BY EuroplacerAssumption DEF Ended, IInv, JobRecord
  <2> QED
    BY <1>1, <2>1 DEF Running
<1>3. StationTyped /\ StartedIsMade'
  <2>0. spec \in Spec1 /\ made \in 0..MaxInstances /\ MaxInstances \in Nat
    BY EuroplacerAssumption DEF IInv, TypeOK
  <2>1. CASE Make(spec)
    BY <1>1, <2>0, <2>1, MakeTyped DEF StationTyped
  <2>2. CASE ingest' = NoIngest /\ made' = made
    BY <1>1, <2>0, <2>2 DEF StationTyped, StartedIsMade, NoIngest
  <2> QED
    BY <1>1, <2>1, <2>2
<1>4. DropsJobs
  BY <1>1, <1>2 DEF DropsJobs
<1>5. ProducerIsOne'
  BY <1>2 DEF ProducerIsOne
<1> QED
  BY <1>3, <1>4, <1>5, DropsJobsPreserves DEF IInv

LEMMA StartOnePreserves ==
    ASSUME IInv, StartOne
    PROVE  IInv'
<1>1. /\ ingest = NoIngest /\ Make(spec) /\ UNCHANGED <<spec, stopping, jobs, folder, answers, applied>>
      /\ spec \in Spec1
  BY DEF StartOne, machine, IInv, TypeOK
<1>2. StationTyped /\ StartedIsMade'
  BY <1>1, MakeTyped DEF StationTyped, IInv, TypeOK
<1>3. DropsJobs
  BY <1>1, TypeParts DEF DropsJobs, IInv
<1>4. ProducerIsOne'
  BY <1>1 DEF IInv, ProducerIsOne, NoIngest, Stopping
<1> QED
  BY <1>2, <1>3, <1>4, DropsJobsPreserves DEF IInv

LEMMA SubmitPreserves ==
    ASSUME IInv, NEW o \in Order, NEW j \in Job, Submit(o, j)
    PROVE  IInv'
<1> USE TypeParts
<1> DEFINE new == [order |-> o, of |-> ingest'.n, at |-> "queued", attempt |-> 0]
<1>1. /\ jobs[j].at = "unused" /\ UNCHANGED <<spec, stopping, folder, answers, applied>>
      /\ jobs' = [jobs EXCEPT ![j] = new] /\ ingest'.started
      /\ IF ingest = NoIngest THEN Make(spec) ELSE UNCHANGED <<made, ingest>>
      /\ spec \in Spec1
  BY DEF Submit, machine, IInv, TypeOK
<1>2. /\ made \in Nat /\ made' \in made..MaxInstances /\ stopping' \subseteq 1..made'
      /\ ingest' \in [n : 0..made', started : BOOLEAN]
      /\ StartedIsMade'
  <2>1. CASE ingest = NoIngest
    BY <1>1, <2>1, MakeTyped, EuroplacerAssumption DEF IInv, TypeOK
  <2>2. CASE ingest # NoIngest
    BY <1>1, <2>2, EuroplacerAssumption DEF IInv, TypeOK, StartedIsMade
  <2> QED
    BY <2>1, <2>2
<1>3. new \in [order : Order, of : 0..made', at : At, attempt : 0..Attempts]
  BY <1>2, EuroplacerAssumption DEF At
<1>4. new.at = "queued" /\ new.of = ingest'.n /\ new.order = o
  OBVIOUS
<1> HIDE DEF new
<1>5. jobs'[j] = new /\ \A k \in Job \ {j} : jobs'[k] = jobs[k]
  BY <1>1 DEF IInv
<1>6. TypeOK'
  <2>1. \A k \in Job : jobs[k] \in [order : Order, of : 0..made', at : At, attempt : 0..Attempts]
    BY <1>2 DEF IInv, JobRecord
  <2>2. jobs' \in [Job -> [order : Order, of : 0..made', at : At, attempt : 0..Attempts]]
    BY <1>1, <1>3, <2>1 DEF IInv
  <2>3. made' \in 0..MaxInstances
    BY <1>2, EuroplacerAssumption
  <2> QED
    BY <1>1, <1>2, <2>2, <2>3 DEF IInv, TypeOK, File
<1>7. AttemptsCount' /\ SuccessIsApplied'
  BY <1>1, <1>4, <1>5 DEF IInv, AttemptsCount, SuccessIsApplied, Running
<1>8. FilesAreOwn'
  <2> SUFFICES ASSUME NEW f \in folder
               PROVE  jobs'[f.name[1]].at # "unused" /\ jobs'[f.name[1]].order = f.order
    BY <1>1 DEF FilesAreOwn
  <2>1. f.name[1] \in Job /\ f.name[1] # j
    BY <1>1 DEF IInv, File, FilesAreOwn
  <2> QED
    BY <1>5, <2>1 DEF IInv, FilesAreOwn
<1>9. AnswersAreTrue'
  <2> SUFFICES ASSUME NEW n \in File
               PROVE  /\ answers[n] # "none" => jobs'[n[1]].at # "unused"
                      /\ answers[n] \in {"ok", "existing"} => jobs'[n[1]].order \in applied
    BY <1>1 DEF AnswersAreTrue, File
  <2>1. n[1] \in Job /\ (answers[n] # "none" => n[1] # j)
    BY <1>1 DEF IInv, File, AnswersAreTrue
  <2> QED
    BY <1>5, <2>1 DEF IInv, AnswersAreTrue
<1>10. ProducerIsOne'
  <2>1. CASE ingest = NoIngest
    BY <1>1, <1>4, <1>5, <2>1 DEF IInv, ProducerIsOne, NoIngest, Stopping, Running
  <2>2. CASE ingest # NoIngest
    BY <1>1, <1>4, <1>5, <2>2 DEF IInv, ProducerIsOne, Stopping, Running
  <2> QED
    BY <2>1, <2>2
<1> QED
  BY <1>2, <1>6, <1>7, <1>8, <1>9, <1>10 DEF IInv

LEMMA InitEstablishes == Init => IInv
<1> SUFFICES ASSUME Init PROVE IInv
  OBVIOUS
<1> DEFINE first == CHOOSE o \in Order : TRUE
<1>1. first \in Order
  BY EuroplacerAssumption
<1>2. jobs = [j \in Job |-> [order |-> first, of |-> 0, at |-> "unused", attempt |-> 0]]
  BY DEF Init
<1> HIDE DEF first
<1>3. /\ made = 1 /\ stopping = {} /\ spec \in Spec1 /\ folder = {} /\ applied = {}
      /\ ingest = [n |-> 1, started |-> TRUE]
      /\ answers = [f \in Job \X (1..Attempts) |-> "none"]
      /\ made \in 0..MaxInstances /\ 0 \in 0..Attempts
  BY EuroplacerAssumption DEF Init, Spec1
<1>4. \A j \in Job : jobs[j].at = "unused"
  BY <1>2
<1>5. TypeOK
  <2>1. jobs \in [Job -> [order : Order, of : 0..made, at : At, attempt : 0..Attempts]]
    BY <1>1, <1>2, <1>3 DEF At
  <2>2. ingest \in [n : 0..made, started : BOOLEAN]
    BY <1>3
  <2>3. answers \in [Job \X (1..Attempts) -> Code]
    BY <1>3 DEF Code
  <2> QED
    BY <1>3, <2>1, <2>2, <2>3 DEF TypeOK
<1>6. AnswersAreTrue /\ FilesAreOwn
  BY <1>3 DEF AnswersAreTrue, FilesAreOwn, File
<1>7. AttemptsCount /\ ProducerIsOne /\ SuccessIsApplied /\ StartedIsMade
  BY <1>3, <1>4 DEF AttemptsCount, ProducerIsOne, SuccessIsApplied, StartedIsMade, Running
<1> QED
  BY <1>5, <1>6, <1>7 DEF IInv

LEMMA NextPreserves == IInv /\ [Next]_vars => IInv'
<1> SUFFICES ASSUME IInv, [Next]_vars PROVE IInv'
  OBVIOUS
<1>1. CASE \E j \in Job : Work(j) \/ \E o \in Order : Submit(o, j)
  BY <1>1, WorkPreserves, SubmitPreserves
<1>2. CASE \E f \in folder : Process(f)
  BY <1>2, ProcessPreserves
<1>3. CASE StartOne \/ StopOne \/ Restart
  BY <1>3, StartOnePreserves, StopOnePreserves, RestartPreserves
<1>4. CASE \E new \in Spec1 : Reload(new)
  BY <1>4, ReloadPreserves
<1>5. CASE UNCHANGED vars
  BY <1>5 DEF vars, IInv, TypeOK, StartedIsMade, AttemptsCount, FilesAreOwn, AnswersAreTrue,
              ProducerIsOne, Stopping, SuccessIsApplied
<1> QED
  BY <1>1, <1>2, <1>3, <1>4, <1>5 DEF Next

-----------------------------------------------------------------------------
(* The theorems.                                                           *)

\* The invariant holds in every state of a station.
THEOREM StationInvariant == Spec => []IInv
  BY InitEstablishes, NextPreserves, PTL DEF Spec

\* Every variable of the station, its jobs and its folder keeps its type.
THEOREM StationTypeCorrect == Spec => []TypeOK
<1>1. IInv => TypeOK
  BY DEF IInv
<1> QED
  BY <1>1, StationInvariant, PTL

\* _finish reports "success" only of an order that the machine carried out.
THEOREM SuccessWasApplied == Spec => []SuccessIsApplied
<1>1. IInv => SuccessIsApplied
  BY DEF IInv
<1> QED
  BY <1>1, StationInvariant, PTL

\* start_one, stop_one, reload_from_config and the lazy start of submit_order
\* never leave two producers serving the station.
THEOREM OneProducerServes == Spec => []OneProducer
<1>1. IInv => OneProducer
  BY DEF IInv, ProducerIsOne, OneProducer
<1> QED
  BY <1>1, StationInvariant, PTL


-----------------------------------------------------------------------------
(* An order that was applied before is not refused.                        *)

\* The machine has answered nothing to a job that no worker has taken.
QueuedIsFresh ==
    \A j \in Job : jobs[j].at = "queued" => \A n \in File : n[1] = j => answers[n] = "none"

\* An order that the machine knows: none of its answers refuses it.
Known(j) ==
    /\ jobs[j].at \notin {"unused", "fatal"} /\ jobs[j].order \in applied
    /\ \A n \in File : n[1] = j => answers[n] # "bad"

\* What a worker does refuses an order only for an answer that does.
LEMMA RefusedByAnswer ==
    ASSUME IInv, NEW j \in Job, Work(j), jobs'[j].at = "fatal"
    PROVE  \E n \in File : n[1] = j /\ answers[n] = "bad"
<1> USE TypeParts
<1>0. jobs[j] \in JobRecord /\ TypeOK
  BY DEF IInv
<1>f. ASSUME NEW name, NEW result \in Outcome, Finish(j, name, result)
      PROVE  jobs'[j].at = result
  <2>1. jobs'[j] = Ended(jobs[j], result)
    BY <1>f, <1>0 DEF Finish
  <2>2. Ended(jobs[j], result).at = result
    BY <1>0, JobMoves, EuroplacerAssumption DEF At
  <2> QED
    BY <2>1, <2>2
<1>r. ASSUME NEW result \in {"transient", "timeout"}, RetryOr(j, result)
      PROVE  FALSE
  <2>1. CASE ~MayRetry(j)
    BY <1>f, <1>r, <2>1 DEF RetryOr, Outcome
  <2>2. CASE MayRetry(j)
    <3>1. jobs' = [jobs EXCEPT ![j].at = "attempt", ![j].attempt = NextAttempt(j)]
      BY <1>r, <2>2 DEF RetryOr
    <3>2. jobs'[j].at = "attempt"
      BY <1>0, <3>1 DEF JobRecord
    <3> QED
      BY <3>2
  <2> QED
    BY <2>1, <2>2
<1>1. CASE Take(j)
  <2>1. jobs'[j].at = "attempt"
    BY <1>0, <1>1 DEF Take, JobRecord
  <2> QED
    BY <2>1
<1>2. CASE Attempt(j)
  <2>1. CASE jobs' = [jobs EXCEPT ![j].at = "wait"]
    <3>1. jobs'[j].at = "wait"
      BY <1>0, <2>1 DEF JobRecord
    <3> QED
      BY <3>1
  <2> QED
    BY <1>2, <1>f, <1>r, <2>1 DEF Attempt, Outcome
<1>3. CASE Wait(j)
  <2>1. jobs[j].attempt \in 1..Attempts
    BY <1>3 DEF Wait, Running, IInv, AttemptsCount
  <2>2. FileOf(j) \in File /\ FileOf(j)[1] = j
    BY <2>1, FileName
  <2>3. PICK code \in Code : code = answers[FileOf(j)]
    BY <2>2 DEF IInv
  <2>4. /\ Readable(code) /\ Kind(code) # "transient" /\ Finish(j, FileOf(j), Kind(code))
    BY <1>3, <1>f, <1>r, <2>3 DEF Wait, Outcome
  <2>5. Kind(code) = "fatal"
    BY <1>f, <2>4 DEF Kind, Outcome
  <2>6. code = "bad"
    BY <2>4, <2>5 DEF Kind, Readable, Code
  <2> QED
    BY <2>2, <2>3, <2>6
<1> QED
  BY <1>1, <1>2, <1>3 DEF Work

\* What the steps do to one job and to its answers.
LEMMA StepOnAnswers ==
    ASSUME IInv, [Next]_vars, NEW j \in Job, jobs[j].at # "unused"
    PROVE  /\ jobs'[j].order = jobs[j].order /\ applied \subseteq applied'
           /\ jobs'[j].at # "unused"
           /\ jobs'[j].at = "queued" => jobs[j].at = "queued"
           /\ jobs'[j].at = "fatal" =>
                jobs[j].at = "fatal" \/ \E n \in File : n[1] = j /\ answers[n] = "bad"
           /\ \A n \in File : n[1] = j =>
                \/ answers'[n] \in {answers[n], "none"}
                \/ jobs[j].at = "wait" /\ (answers'[n] = "bad" => jobs[j].order \notin applied)
<1> USE TypeParts
<1>0. jobs[j] \in JobRecord /\ TypeOK
  BY DEF IInv
<1>1. ASSUME NEW k \in Job, Work(k)
      PROVE  /\ jobs'[j].order = jobs[j].order /\ applied \subseteq applied'
             /\ jobs'[j].at # "unused"
             /\ jobs'[j].at = "queued" => jobs[j].at = "queued"
             /\ jobs'[j].at = "fatal" =>
                  jobs[j].at = "fatal" \/ \E n \in File : n[1] = j /\ answers[n] = "bad"
             /\ \A n \in File : answers'[n] \in {answers[n], "none"}
  <2>1. WorkOf(k)
    BY <1>1, TakeWorks, AttemptWorks, WaitWorks DEF Work
  <2>2. CASE k = j
    BY <1>1, <2>1, <2>2, RefusedByAnswer DEF WorkOf
  <2>3. CASE k # j
    BY <2>1, <2>3 DEF WorkOf
  <2> QED
    BY <2>2, <2>3
<1>2. ASSUME NEW f \in folder, Process(f)
      PROVE  /\ jobs' = jobs /\ applied \subseteq applied'
             /\ \A n \in File : n[1] = j =>
                  \/ answers'[n] = answers[n]
                  \/ jobs[j].at = "wait" /\ (answers'[n] = "bad" => jobs[j].order \notin applied)
  <2>0. jobs' = jobs /\ applied \subseteq applied' /\ f.name \in File
    BY <1>2 DEF Process, IInv
  <2>1. CASE answers' = answers
    BY <2>0, <2>1
  <2>2. CASE Awaited(f) /\ answers' # answers
    <3>1. PICK k \in Job : jobs[k].at = "wait" /\ FileOf(k) = f.name
      BY <2>2 DEF Awaited
    <3>2. f.name[1] = k
      <4>1. jobs[k].attempt \in 1..Attempts
        BY <3>1 DEF IInv, AttemptsCount, Running
      <4> QED
        BY <3>1, <4>1, FileName
    <3>3. jobs[k].order = f.order
      BY <3>2 DEF IInv, FilesAreOwn
    <3>4. PICK code \in Code :
             /\ answers' = [answers EXCEPT ![f.name] = code]
             /\ code = "bad" => f.order \notin applied
      <4>1. CASE answers' = [answers EXCEPT ![f.name] = "partial"]
        BY <4>1 DEF Code
      <4>2. CASE \E code \in Verdict(f.order) :
                    answers' = IF Awaited(f) THEN [answers EXCEPT ![f.name] = code] ELSE answers
        <5>1. PICK code \in Verdict(f.order) : answers' = [answers EXCEPT ![f.name] = code]
          BY <2>2, <4>2
        <5>2. code \in Code /\ (code = "bad" => f.order \notin applied)
          BY DEF Verdict, Code
        <5> QED
          BY <5>1, <5>2
      <4> QED
        BY <1>2, <4>1, <4>2 DEF Process
    <3>5. answers \in [File -> Code]
      BY DEF IInv
    <3>6. \A n \in File : answers'[n] = IF n = f.name THEN code ELSE answers[n]
      BY <2>0, <3>4, <3>5
    <3>7. ASSUME NEW n \in File, n[1] = j
          PROVE  \/ answers'[n] = answers[n]
                 \/ jobs[j].at = "wait" /\ (answers'[n] = "bad" => jobs[j].order \notin applied)
      <4>1. CASE n # f.name
        BY <3>6, <4>1
      <4>2. CASE n = f.name
        <5>1. j = k /\ answers'[n] = code
          BY <3>2, <3>6, <3>7, <4>2
        <5> QED
          BY <3>1, <3>3, <3>4, <5>1
      <4> QED
        BY <4>1, <4>2
    <3> QED
      BY <2>0, <3>7
  <2> QED
    BY <1>2, <2>1, <2>2 DEF Process
<1>3. ASSUME NEW o \in Order, NEW k \in Job, Submit(o, k)
      PROVE  jobs'[j] = jobs[j] /\ UNCHANGED <<applied, answers>>
  BY <1>3 DEF Submit, IInv, machine
<1>4. ASSUME StartOne \/ StopOne \/ Restart \/ \E new \in Spec1 : Reload(new)
      PROVE  /\ jobs'[j] = jobs[j] \/ jobs'[j] = Ended(jobs[j], "gone")
             /\ applied' = applied
             /\ \A n \in File : answers'[n] \in {answers[n], "none"}
  <2>1. CASE StartOne
    BY <2>1 DEF StartOne, machine
  <2>2. CASE StopOne
    BY <2>2, StopIngestDrops DEF StopOne, machine
  <2>3. CASE Restart
    BY <2>3 DEF Restart, IInv
  <2>4. CASE \E new \in Spec1 : Reload(new)
    BY <2>4, StopIngestDrops DEF Reload, machine
  <2> QED
    BY <1>4, <2>1, <2>2, <2>3, <2>4
<1>5. Ended(jobs[j], "gone").order = jobs[j].order /\ Ended(jobs[j], "gone").at = "gone"
  BY <1>0, JobMoves, EuroplacerAssumption DEF At
<1>6. CASE UNCHANGED vars
  BY <1>6 DEF vars
<1>7. CASE \E k \in Job : Work(k)
  BY <1>1, <1>7
<1>8. CASE \E f \in folder : Process(f)
  BY <1>2, <1>8
<1>9. CASE \E k \in Job : \E o \in Order : Submit(o, k)
  BY <1>3, <1>9
<1>10. CASE StartOne \/ StopOne \/ Restart \/ \E new \in Spec1 : Reload(new)
  BY <1>4, <1>5, <1>10
<1> QED
  BY <1>6, <1>7, <1>8, <1>9, <1>10 DEF Next

LEMMA QueuedStaysFresh ==
    ASSUME IInv, QueuedIsFresh, [Next]_vars
    PROVE  QueuedIsFresh'
<1> SUFFICES ASSUME NEW j \in Job, jobs'[j].at = "queued", NEW n \in File, n[1] = j
             PROVE  answers'[n] = "none"
  BY DEF QueuedIsFresh, File
<1>1. CASE jobs[j].at # "unused"
  <2>1. jobs[j].at = "queued"
    BY <1>1, StepOnAnswers
  <2>2. answers[n] = "none"
    BY <2>1 DEF QueuedIsFresh
  <2> QED
    BY <1>1, <2>1, <2>2, StepOnAnswers
<1>2. CASE jobs[j].at = "unused"
  <2>1. answers[n] = "none"
    BY <1>2 DEF IInv, AnswersAreTrue
  <2>2. \E k \in Job, o \in Order : Submit(o, k)
    <3>1. ASSUME NEW k \in Job, Work(k) PROVE FALSE
      <4>1. WorkOf(k)
        BY <3>1, TakeWorks, AttemptWorks, WaitWorks DEF Work
      <4> QED
        BY <1>2, <4>1 DEF WorkOf
    <3>2. ASSUME NEW f \in folder, Process(f) PROVE FALSE
      BY <1>2, <3>2 DEF Process
    <3>3. ASSUME StartOne \/ StopOne \/ Restart \/ \E new \in Spec1 : Reload(new) PROVE FALSE
      <4>1. jobs[j] \in JobRecord /\ TypeOK
        BY TypeParts DEF IInv
      <4>2. CASE StartOne
        BY <1>2, <4>2 DEF StartOne
      <4>3. CASE StopOne \/ \E new \in Spec1 : Reload(new)
        BY <1>2, <4>3, StopIngestDrops DEF StopOne, Reload
      <4>4. CASE Restart
        <5>1. jobs'[j] = jobs[j]
          BY <1>2, <4>4 DEF Restart, Running
        <5> QED
          BY <1>2, <5>1
      <4> QED
        BY <3>3, <4>2, <4>3, <4>4
    <3>4. ~UNCHANGED vars
      BY <1>2 DEF vars
    <3> QED
      BY <3>1, <3>2, <3>3, <3>4 DEF Next
  <2> QED
    BY <2>1, <2>2 DEF Submit, machine
<1> QED
  BY <1>1, <1>2

\* An order that the machine had applied before a worker took it never ends
\* "fatal": every answer to its files says so, and half of one is not read
\* (classify, _wait_answer, _process_order).
THEOREM ExistingIsNeverRefused == Spec => ExistingIsNotRefused
<1>1. Init => QueuedIsFresh
  BY DEF Init, QueuedIsFresh, File
<1>2. IInv /\ QueuedIsFresh /\ [Next]_vars => QueuedIsFresh'
  BY QueuedStaysFresh
<1>3. Spec => []QueuedIsFresh
  BY <1>1, <1>2, StationInvariant, PTL DEF Spec
<1>4. ASSUME NEW j \in Job
      PROVE  Spec => [](jobs[j].at = "queued" /\ jobs[j].order \in applied => [](jobs[j].at # "fatal"))
  <2>1. QueuedIsFresh /\ jobs[j].at = "queued" /\ jobs[j].order \in applied => Known(j)
    BY DEF QueuedIsFresh, Known
  <2>2. IInv /\ Known(j) /\ [Next]_vars => Known(j)'
    <3> SUFFICES ASSUME IInv, Known(j), [Next]_vars PROVE Known(j)'
      OBVIOUS
    <3> QED
      BY StepOnAnswers DEF Known, File
  <2>3. Known(j) => jobs[j].at # "fatal"
    BY DEF Known
  <2> QED
    BY <1>3, <2>1, <2>2, <2>3, StationInvariant, PTL DEF Spec
<1> QED
  BY <1>4 DEF ExistingIsNotRefused
=============================================================================
