-------------------------------- MODULE Pinpad --------------------------------
(***************************************************************************)
(* Card payments: the routes of server/routes/pinpads.py, the registry     *)
(* whose lock serialises them (PinpadRegistry in server/service.py), the   *)
(* DatecsPay facade over the native library (drivers/pinpad/datecs_pay/),  *)
(* and the virtual pinpad (drivers/pinpad/virtual.py).                     *)
(*                                                                         *)
(* /cancel does not take the lock: it reads the facade in use and calls it *)
(* from another thread, perhaps after that transaction has ended.  The     *)
(* native event loop (START, wait for completion, GET RECEIPT TAGS, END)   *)
(* and the bank are not in the repository; they are modelled from what the *)
(* facade makes of their results: as it takes them, a positive code other  *)
(* than a timeout, a cancellation and a lost host is the status of a       *)
(* refused START and never comes from a transaction that has started.      *)
(***************************************************************************)
EXTENDS Integers, FiniteSets

CONSTANTS Purchase,   \* card payments, each requested once
          None,       \* no purchase, or not answered yet
          MaxSessions \* bound on the uses of the pinpad

\* What the till is told of a purchase.
Answer == {"ok", "refused", "refusedStart", "noResult", "timeout", "cancelled",
           "noHost", "code", "error"}

ASSUME PinpadAssumption == None \notin Purchase \cup Answer /\ MaxSessions \in Nat

VARIABLES
    virtual,   \* the configured driver is "virtual"
    job,       \* the request that holds the pinpad's lock
    session,   \* number of the facade it made
    active,    \* PinpadEntry.active_pinpad; 0: None
    bank,      \* what became of the transaction on the terminal and the bank
    cancelled, \* the flag the event loop polls
    cancels,   \* facades that a /cancel has read and not called yet
    asked,     \* facades that some /cancel has read
    charged, voided, \* purchases the bank has approved, voided
    told,      \* the answers to purchases
    voids      \* void requests answered ok=true, per purchase

vars == <<virtual, job, session, active, bank, cancelled, cancels, asked,
          charged, voided, told, voids>>
money == <<charged, voided, told, voids>>

Idle == [kind |-> "idle", of |-> None, at |-> "start"]
Kind == {"purchase", "void", "other", "idle"}

TypeOK ==
    /\ virtual \in BOOLEAN
    /\ job \in [kind : Kind, of : Purchase \cup {None}, at : {"start", "loop"}]
    /\ session \in 0..MaxSessions /\ active \in {0, session}
    /\ bank \in {"waiting", "approved", "declined"}
    /\ cancelled \in BOOLEAN
    /\ cancels \subseteq 1..session /\ asked \subseteq 1..session
    /\ charged \subseteq Purchase /\ voided \subseteq charged
    /\ told \in [Purchase -> Answer \cup {None}]
    /\ voids \in [Purchase -> 0..MaxSessions]

Init ==
    /\ virtual \in BOOLEAN
    /\ job = Idle /\ session = 0 /\ active = 0
    /\ bank = "waiting" /\ cancelled = FALSE /\ cancels = {} /\ asked = {}
    /\ charged = {} /\ voided = {}
    /\ told = [p \in Purchase |-> None] /\ voids = [p \in Purchase |-> 0]

-----------------------------------------------------------------------------
(* A request: the lock, the facade, the thread of its call.                *)

\* A purchase is posted once.
Payments == {[Idle EXCEPT !.kind = "purchase", !.of = p] : p \in {q \in Purchase : told[q] = None}}

\* The parameters of a void name the purchase (RRN and code) to the bank.
Voids == {[Idle EXCEPT !.kind = "void", !.of = p] : p \in Purchase}

\* Information, status, ping, end of day, a test of the connection.
Others == {[Idle EXCEPT !.kind = "other"]}

Requests == Others \cup Payments \cup Voids

\* make_pinpad: a new native device has no cancel pending; the virtual
\* pinpads of one id share their event.
FreshFlag == IF virtual THEN cancelled ELSE FALSE

\* open(): a pinpad that cannot be created or opened (or is not there)
\* raises, nothing is published, and the lock is free.
CannotOpen(r) ==
    /\ ~virtual
    /\ told' = IF r.kind = "purchase" THEN [told EXCEPT ![r.of] = "error"] ELSE told
    /\ UNCHANGED <<job, active, cancelled, bank>>

\* with_pinpad: lock, make, open, publish for /cancel.
Acquire(r) ==
    /\ job = Idle /\ session < MaxSessions
    /\ session' = session + 1
    /\ \/ /\ job' = r /\ active' = session + 1 /\ cancelled' = FreshFlag
          /\ bank' = "waiting" /\ UNCHANGED told
       \/ CannotOpen(r)
    /\ UNCHANGED <<virtual, cancels, asked, charged, voided, voids>>

\* The thread enters run_transaction; the virtual pinpad clears its event.
EnterLoop ==
    /\ job # Idle /\ job.at = "start"
    /\ job' = [job EXCEPT !.at = "loop"]
    /\ cancelled' = IF virtual /\ job.kind = "purchase" THEN FALSE ELSE cancelled
    /\ UNCHANGED <<virtual, session, active, bank, cancels, asked, money>>

\* Mutant: the facade is left published.
ReleaseLockOnly == job' = Idle /\ UNCHANGED active

\* finally: active_pinpad = None, close and destroy, free the lock.
Release == job' = Idle /\ active' = 0

\* Mutant: the results are not looked at when there are none.
ApprovedByDefault(tags) == tags.result # "nonzero" /\ tags.error # "nonzero"

\* ok: DF05 is there and all zeros, and DF06 is absent or all zeros.
Approved(tags) == tags.result = "zero" /\ tags.error # "nonzero"

\* The receipt tags of a completed transaction; none if they were not read.
Tag == {"absent", "zero", "nonzero"}
TagsOf(outcome) ==
    IF outcome = "approved"
    THEN {t \in [result : Tag, error : Tag] : t.result = "zero" /\ t.error # "nonzero"}
    ELSE {t \in [result : Tag, error : Tag] : "nonzero" \in {t.result, t.error}}

NoTags == [result |-> "absent", error |-> "absent"]

\* _run_transaction: the answer to receipt tags.  They were copied before the
\* library's buffer is freed: if that fails, memory leaks and they stay.
Parsed(tags) ==
    IF Approved(tags) THEN "ok"
    ELSE IF "nonzero" \in {tags.result, tags.error} THEN "refused"
    ELSE "noResult"

Tell(answer) ==
    CASE job.kind = "purchase" ->
            told' = [told EXCEPT ![job.of] = answer] /\ UNCHANGED voids
      [] job.kind = "void" ->
            voids' = [voids EXCEPT ![job.of] = @ + (IF answer = "ok" THEN 1 ELSE 0)]
            /\ UNCHANGED told
      [] OTHER -> UNCHANGED <<told, voids>>

\* ret = 0: the transaction is complete; its tags may have been lost.
Complete ==
    /\ job # Idle /\ job.at = "loop" /\ bank # "waiting"
    /\ \E tags \in TagsOf(bank) \cup (IF virtual THEN {} ELSE {NoTags}) : Tell(Parsed(tags))
    /\ Release
    /\ UNCHANGED <<virtual, session, bank, cancelled, cancels, asked, charged, voided>>

\* Mutant: every positive code is a refusal of the pinpad's.
ErrorBySign(ret) == IF ret > 0 THEN "refusedStart" ELSE "code"

\* ret # 0: three codes have a name; any other positive one is the status with
\* which the pinpad refused the start (refused_N), a negative one the library's
\* own (error_N).
ErrorOf(ret) ==
    CASE ret = 9  -> "timeout"
      [] ret = 18 -> "cancelled"
      [] ret = 50 -> "noHost"
      [] ret > 0 /\ ret \notin {9, 18, 50} -> "refusedStart"
      [] OTHER -> "code"

\* What a refused START may return: "end of day required", no host.
StartStatus == {50, 52}

\* The pinpad refuses the START; END follows without waiting.
StartRefused ==
    /\ ~virtual /\ job # Idle /\ job.at = "start"
    /\ \E ret \in StartStatus : Tell(ErrorOf(ret))
    /\ Release
    /\ UNCHANGED <<virtual, session, bank, cancelled, cancels, asked, charged, voided>>

\* Mutant: the loop never gives up.
GivesUpNever == {}

\* What a loop that gives up returns, whatever the bank may have done
\* meanwhile; the virtual pinpad names its timeout and cancellation itself.
GivesUp ==
    {9} \cup (IF cancelled THEN {18} ELSE {}) \cup IF virtual THEN {} ELSE {50, -1}

LoopGivesUp ==
    /\ job # Idle /\ job.at = "loop"
    /\ virtual => job.kind = "purchase" /\ bank = "waiting"
    /\ \E ret \in GivesUp : Tell(ErrorOf(ret))
    /\ Release
    /\ UNCHANGED <<virtual, session, bank, cancelled, cancels, asked, charged, voided>>

-----------------------------------------------------------------------------
(* The terminal and the bank.                                              *)

\* A purchase that was approved and not voided.
Voidable(p) == p \in charged \ voided

Decide ==
    /\ job # Idle /\ job.at = "loop" /\ bank = "waiting"
    /\ \/ /\ bank' = "approved" /\ job.kind = "purchase"
          /\ charged' = charged \cup {job.of} /\ UNCHANGED voided
       \/ /\ bank' = "approved" /\ job.kind = "void" /\ Voidable(job.of)
          /\ voided' = voided \cup {job.of} /\ UNCHANGED charged
       \/ /\ bank' = "approved" /\ job.kind = "other" /\ UNCHANGED <<charged, voided>>
       \/ /\ bank' = "declined" /\ job.kind # "other" /\ UNCHANGED <<charged, voided>>
    /\ UNCHANGED <<virtual, job, session, active, cancelled, cancels, asked, told, voids>>

-----------------------------------------------------------------------------
(* POST /cancel.                                                           *)

\* The route reads active_pinpad; with none it answers "no active transaction".
ReadActive ==
    /\ active # 0 /\ active \notin asked
    /\ cancels' = cancels \cup {active} /\ asked' = asked \cup {active}
    /\ UNCHANGED <<virtual, job, session, active, bank, cancelled, money>>

\* Mutant: the cancel goes to whatever runs now.
ReachesAny(s) == job # Idle

\* request_cancel: a closed native facade has no device to signal.
Reaches(s) == virtual \/ (job # Idle /\ s = session)

\* Its thread calls request_cancel of the facade it was given.
CallCancel(s) ==
    /\ s \in cancels
    /\ cancels' = cancels \ {s}
    /\ cancelled' = (cancelled \/ Reaches(s))
    /\ UNCHANGED <<virtual, job, session, active, bank, asked, money>>

-----------------------------------------------------------------------------
WorkerStep == StartRefused \/ EnterLoop \/ Complete \/ LoopGivesUp

Next ==
    \/ \E r \in Requests : Acquire(r)
    \/ WorkerStep \/ Decide
    \/ ReadActive
    \/ \E s \in 1..MaxSessions : CallCancel(s)

Spec == Init /\ [][Next]_vars

\* The worker thread runs, the event loop has a timeout, and the virtual
\* pinpad is its own bank.
FairSpec ==
    /\ Spec
    /\ WF_vars(EnterLoop) /\ WF_vars(Complete \/ LoopGivesUp) /\ WF_vars(virtual /\ Decide)

-----------------------------------------------------------------------------
(* Properties.                                                             *)

\* A purchase the till was told is paid has been charged; a void it was told
\* is done took the money back, and the same purchase never twice, though
\* voids are posted again and the receipt tags of any transaction may be lost.
OkIsTheBanks ==
    \A p \in Purchase :
        /\ told[p] = "ok" => p \in charged
        /\ voids[p] > 0 => p \in voided
        /\ voids[p] <= 1

\* An answer that tells the till the card was not charged (the pinpad refused
\* the start, the pinpad or the bank refused the payment, the pinpad could not
\* be opened) is given only when it was not.  A real pinpad's loop that gives
\* up after the approval, by a timeout, a cancellation, a lost host or a code
\* of the library, must be told as just that and never as a refusal.  The
\* virtual pinpad is its own bank: no answer but ok is given for a payment it
\* has taken, so its timeouts and cancellations do mean not charged.
RefusedIsNotCharged ==
    \A p \in Purchase :
        /\ told[p] \in {"refused", "refusedStart", "error"} => p \notin charged
        /\ virtual /\ told[p] \notin {"ok", None} => p \notin charged

\* A purchase is answered "cancelled" only when a /cancel was sent while
\* this very facade was in use: one that comes too late for its transaction
\* does not stop the next (the virtual pinpads share an event, and it may).
CancelOnlyItsOwn ==
    [][\A p \in Purchase :
         told[p] # told'[p] /\ told'[p] = "cancelled" /\ ~virtual => session \in asked]_vars

\* Every request is answered and frees the pinpad for the next one, whatever
\* the customer, the bank and /cancel do.
EveryRequestEnds ==
    \A n \in 1..MaxSessions : (session = n /\ job # Idle) ~> (job = Idle \/ session > n)
=============================================================================
