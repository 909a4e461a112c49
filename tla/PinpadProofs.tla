----------------------------- MODULE PinpadProofs -----------------------------
(***************************************************************************)
(* What Pinpad promises of card payments, proved for any purchases and any *)
(* number of sessions: the type invariant, the agreement of the answers    *)
(* with the bank, and the reach of /cancel.                                *)
(***************************************************************************)
EXTENDS Pinpad, TLAPS

-----------------------------------------------------------------------------
(* The inductive invariant.                                                *)

\* A request that holds the lock names what it is about, and its facade is
\* the last one made; without one nothing is published.
JobIsWhole ==
    /\ job = Idle => active = 0
    /\ job # Idle => job.kind # "idle" /\ session \in 1..MaxSessions
    /\ job.kind \in {"purchase", "void"} => job.of \in Purchase
    /\ job # Idle /\ job.at = "start" => bank = "waiting"

\* A purchase that runs was not answered before, and one that is charged was
\* answered or is the one that runs.
ChargedOnce ==
    /\ job.kind = "purchase" => told[job.of] = None
    /\ job.kind = "purchase" /\ bank = "approved" => job.of \in charged
    /\ \A p \in charged :
          told[p] = None => job.kind = "purchase" /\ job.of = p /\ bank = "approved"

\* A void that the bank has approved is the first one of its purchase.
VoidedOnce ==
    /\ \A p \in Purchase : voids[p] \in {0, 1} /\ (voids[p] = 1 => p \in voided)
    /\ job.kind = "void" /\ bank = "approved" => job.of \in voided /\ voids[job.of] = 0

\* The flag of a native facade in use was set by a /cancel that read it.
CancelWasAsked ==
    /\ cancels \subseteq asked
    /\ job # Idle /\ cancelled /\ ~virtual => session \in asked

IInv ==
    /\ TypeOK /\ JobIsWhole /\ ChargedOnce /\ VoidedOnce /\ CancelWasAsked
    /\ RefusedIsNotCharged
    /\ \A p \in Purchase : told[p] = "ok" => p \in charged

-----------------------------------------------------------------------------
(* What a transaction can be answered.                                     *)

\* An approved transaction is never refused, and only an approved one is ok.
LEMMA AnswersFollowTheBank ==
    ASSUME bank \in {"approved", "declined"},
           NEW tags \in TagsOf(bank) \cup {NoTags}
    PROVE  /\ Parsed(tags) \in {"ok", "refused", "noResult"}
           /\ Parsed(tags) = "ok" => bank = "approved"
           /\ Parsed(tags) = "refused" => bank = "declined"
           /\ bank = "approved" /\ tags \in TagsOf(bank) => Parsed(tags) = "ok"
<1>1. CASE tags = NoTags /\ tags \notin TagsOf(bank)
  BY <1>1 DEF NoTags, Parsed, Approved
<1>2. CASE tags \in TagsOf(bank)
  <2>1. tags \in [result : Tag, error : Tag]
    BY <1>2 DEF TagsOf
  <2>2. CASE bank = "approved"
    <3>1. tags.result = "zero" /\ tags.error # "nonzero"
      BY <1>2, <2>2 DEF TagsOf
    <3> QED
      BY <2>2, <3>1 DEF Parsed, Approved
  <2>3. CASE bank = "declined"
    <3>1. "nonzero" \in {tags.result, tags.error}
      BY <1>2, <2>3 DEF TagsOf
    <3> QED
      BY <2>1, <2>3, <3>1 DEF Parsed, Approved, Tag
  <2> QED
    BY <2>2, <2>3
<1> QED
  BY <1>1, <1>2

\* A loop that gives up is told as such, and as "cancelled" only when the
\* flag is set.
LEMMA GivingUpIsNoVerdict ==
    ASSUME NEW ret \in GivesUp
    PROVE  /\ ErrorOf(ret) \in {"timeout", "cancelled", "noHost", "code"}
           /\ ErrorOf(ret) = "cancelled" => cancelled
BY DEF GivesUp, ErrorOf

\* A refused start is told as a refusal, or as the lost host it names.
LEMMA StartStatusIsNamed ==
    ASSUME NEW ret \in StartStatus
    PROVE  ErrorOf(ret) \in {"noHost", "refusedStart"}
BY DEF StartStatus, ErrorOf

-----------------------------------------------------------------------------
(* Every step preserves the invariant.                                     *)

LEMMA InitEstablishes == Init => IInv
<1> SUFFICES ASSUME Init PROVE IInv
  OBVIOUS
<1> USE PinpadAssumption DEF Init
<1>1. /\ job \in [kind : Kind, of : Purchase \cup {None}, at : {"start", "loop"}]
      /\ job.kind = "idle"
  BY DEF Idle, Kind
<1>2. told \in [Purchase -> Answer \cup {None}] /\ voids \in [Purchase -> 0..MaxSessions]
  OBVIOUS
<1>3. TypeOK
  <2>1. virtual \in BOOLEAN /\ cancelled \in BOOLEAN
    OBVIOUS
  <2>2. session \in 0..MaxSessions /\ active \in {0, session}
    OBVIOUS
  <2> QED
    BY <1>1, <1>2, <2>1, <2>2 DEF TypeOK
<1>4. \A p \in Purchase : told[p] \notin Answer
  OBVIOUS
<1>5. RefusedIsNotCharged /\ \A p \in Purchase : told[p] = "ok" => p \in charged
  BY <1>4 DEF RefusedIsNotCharged, Answer
<1> QED
  BY <1>1, <1>3, <1>5 DEF IInv, JobIsWhole, ChargedOnce, VoidedOnce, CancelWasAsked

\* with_pinpad, with a pinpad that opens or raises.
LEMMA AcquirePreserves ==
    ASSUME IInv, NEW r \in Requests, Acquire(r)
    PROVE  IInv'
<1> USE PinpadAssumption
<1>1. /\ r \in [kind : Kind, of : Purchase \cup {None}, at : {"start", "loop"}]
      /\ r.kind \in {"purchase", "void", "other"} /\ r.at = "start"
      /\ r.kind = "purchase" => r.of \in Purchase /\ told[r.of] = None
      /\ r.kind = "void" => r.of \in Purchase
  BY DEF Requests, Others, Payments, Voids, Idle, Kind
<1>2. /\ job = Idle /\ session \in Nat /\ session < MaxSessions /\ active = 0
      /\ session' = session + 1 /\ session' \in 1..MaxSessions
      /\ UNCHANGED <<virtual, cancels, asked, charged, voided, voids>>
  BY DEF Acquire, IInv, TypeOK, JobIsWhole
<1>3. job.kind = "idle"
  BY <1>2 DEF Idle
<1>4. CASE CannotOpen(r)
  <2>1. told' \in [Purchase -> Answer \cup {None}]
    BY <1>1, <1>4 DEF CannotOpen, IInv, TypeOK, Answer
  <2>2. TypeOK'
    BY <1>2, <1>4, <2>1 DEF CannotOpen, IInv, TypeOK
  <2>3. JobIsWhole' /\ CancelWasAsked'
    BY <1>2, <1>3, <1>4 DEF CannotOpen, IInv, JobIsWhole, CancelWasAsked, Idle
  <2>4. \A p \in Purchase : told'[p] = told[p] \/ (told[p] = None /\ told'[p] = "error")
    BY <1>1, <1>4 DEF CannotOpen, IInv, TypeOK
  <2>5. \A p \in charged : told[p] # None
    BY <1>3 DEF IInv, ChargedOnce
  <2>6. ChargedOnce' /\ RefusedIsNotCharged' /\ \A p \in Purchase : told'[p] = "ok" => p \in charged'
    BY <1>2, <1>3, <1>4, <2>4, <2>5
    DEF CannotOpen, IInv, TypeOK, ChargedOnce, RefusedIsNotCharged
  <2>7. VoidedOnce'
    BY <1>2, <1>3, <1>4 DEF CannotOpen, IInv, VoidedOnce
  <2> QED
    BY <2>2, <2>3, <2>6, <2>7 DEF IInv
<1>5. CASE job' = r /\ active' = session + 1 /\ cancelled' = FreshFlag
           /\ bank' = "waiting" /\ UNCHANGED told
  <2>1. TypeOK'
    <3>1. job' \in [kind : Kind, of : Purchase \cup {None}, at : {"start", "loop"}]
      BY <1>1, <1>5
    <3>2. cancelled' \in BOOLEAN
      BY <1>5 DEF FreshFlag, IInv, TypeOK
    <3>3. cancels' \subseteq 1..session' /\ asked' \subseteq 1..session'
      BY <1>2 DEF IInv, TypeOK
    <3> QED
      BY <1>2, <1>5, <3>1, <3>2, <3>3 DEF IInv, TypeOK
  <2>2. JobIsWhole'
    BY <1>1, <1>2, <1>5 DEF JobIsWhole, Idle
  <2>3. \A p \in charged : told[p] # None
    BY <1>3 DEF IInv, ChargedOnce
  <2>4. ChargedOnce' /\ VoidedOnce'
    BY <1>1, <1>2, <1>5, <2>3 DEF IInv, ChargedOnce, VoidedOnce
  <2>5. CancelWasAsked'
    BY <1>2, <1>5 DEF IInv, CancelWasAsked, FreshFlag
  <2> QED
    BY <1>2, <1>5, <2>1, <2>2, <2>4, <2>5 DEF IInv, RefusedIsNotCharged
<1> QED
  BY <1>4, <1>5 DEF Acquire

LEMMA EnterLoopPreserves ==
    ASSUME IInv, EnterLoop
    PROVE  IInv'
<1>1. /\ job \in [kind : Kind, of : Purchase \cup {None}, at : {"start", "loop"}]
      /\ job # Idle /\ job' # Idle
      /\ job'.kind = job.kind /\ job'.of = job.of /\ job'.at = "loop"
      /\ job' \in [kind : Kind, of : Purchase \cup {None}, at : {"start", "loop"}]
      /\ UNCHANGED <<virtual, session, active, bank, cancels, asked, charged, voided, told, voids>>
      /\ cancelled' = IF virtual /\ job.kind = "purchase" THEN FALSE ELSE cancelled
  BY DEF EnterLoop, IInv, TypeOK, Idle, money
<1>2. TypeOK'
  BY <1>1 DEF IInv, TypeOK
<1>3. JobIsWhole' /\ ChargedOnce' /\ VoidedOnce' /\ CancelWasAsked'
  BY <1>1 DEF IInv, JobIsWhole, ChargedOnce, VoidedOnce, CancelWasAsked
<1> QED
  BY <1>1, <1>2, <1>3 DEF IInv, RefusedIsNotCharged

\* The end of a transaction whose answer agrees with the bank.
LEMMA TellPreserves ==
    ASSUME IInv, job # Idle, job' = Idle, active' = 0,
           UNCHANGED <<virtual, session, bank, cancelled, cancels, asked, charged, voided>>,
           NEW answer \in Answer \ {"error"}, Tell(answer),
           answer = "ok" => bank = "approved",
           answer \in {"refused", "refusedStart"} => bank # "approved",
           virtual /\ answer # "ok" => bank # "approved"
    PROVE  IInv'
<1> USE PinpadAssumption
<1>1. job'.kind = "idle" /\ job.kind # "idle"
      /\ job' \in [kind : Kind, of : Purchase \cup {None}, at : {"start", "loop"}]
  BY DEF Idle, Kind, IInv, JobIsWhole
<1>2. JobIsWhole' /\ CancelWasAsked'
  BY <1>1 DEF JobIsWhole, CancelWasAsked, IInv
<1>3. MaxSessions >= 1
  BY DEF IInv, TypeOK, JobIsWhole
<1>4. CASE job.kind = "purchase"
  <2>1. /\ told' = [told EXCEPT ![job.of] = answer] /\ voids' = voids
        /\ job.of \in Purchase /\ answer # None
        /\ told' \in [Purchase -> Answer \cup {None}]
        /\ \A p \in Purchase : told'[p] = IF p = job.of THEN answer ELSE told[p]
    BY <1>4 DEF Tell, IInv, TypeOK, JobIsWhole
  <2>2. TypeOK'
    BY <1>1, <2>1 DEF IInv, TypeOK
  <2>3. ChargedOnce' /\ VoidedOnce'
    BY <1>1, <1>4, <2>1 DEF IInv, TypeOK, ChargedOnce, VoidedOnce
  <2>4. job.of \in charged <=> bank = "approved"
    BY <1>4 DEF IInv, ChargedOnce
  <2>5. RefusedIsNotCharged' /\ \A p \in Purchase : told'[p] = "ok" => p \in charged'
    BY <2>1, <2>4 DEF IInv, RefusedIsNotCharged
  <2> QED
    BY <1>2, <2>2, <2>3, <2>5 DEF IInv
<1>5. CASE job.kind = "void"
  <2>1. /\ voids' = [voids EXCEPT ![job.of] = @ + (IF answer = "ok" THEN 1 ELSE 0)]
        /\ told' = told /\ job.of \in Purchase
    BY <1>5 DEF Tell, IInv, JobIsWhole
  <2>2. \A p \in Purchase :
           /\ voids'[p] \in {0, 1} /\ (voids'[p] = 1 => p \in voided)
    BY <1>5, <2>1 DEF IInv, TypeOK, VoidedOnce
  <2>3. voids' \in [Purchase -> 0..MaxSessions]
    BY <1>3, <2>1, <2>2 DEF IInv, TypeOK
  <2>4. TypeOK'
    BY <1>1, <2>1, <2>3 DEF IInv, TypeOK
  <2>5. ChargedOnce'
    BY <1>1, <1>5, <2>1 DEF IInv, ChargedOnce
  <2>6. VoidedOnce'
    BY <1>1, <2>2 DEF VoidedOnce
  <2> QED
    BY <1>2, <2>1, <2>4, <2>5, <2>6 DEF IInv, RefusedIsNotCharged
<1>6. CASE job.kind \notin {"purchase", "void"}
  <2>1. told' = told /\ voids' = voids
    BY <1>6 DEF Tell
  <2> QED
    BY <1>1, <1>2, <1>6, <2>1
    DEF IInv, TypeOK, ChargedOnce, VoidedOnce, RefusedIsNotCharged
<1> QED
  BY <1>4, <1>5, <1>6

LEMMA CompletePreserves ==
    ASSUME IInv, Complete
    PROVE  IInv'
<1> USE PinpadAssumption
<1>1. /\ job # Idle /\ job.at = "loop" /\ bank \in {"approved", "declined"}
      /\ job' = Idle /\ active' = 0
      /\ UNCHANGED <<virtual, session, bank, cancelled, cancels, asked, charged, voided>>
  BY DEF Complete, Release, IInv, TypeOK
<1>2. PICK tags \in TagsOf(bank) \cup (IF virtual THEN {} ELSE {NoTags}) : Tell(Parsed(tags))
  BY DEF Complete
<1>3. /\ Parsed(tags) \in {"ok", "refused", "noResult"}
      /\ Parsed(tags) = "ok" => bank = "approved"
      /\ Parsed(tags) = "refused" => bank = "declined"
      /\ bank = "approved" /\ tags \in TagsOf(bank) => Parsed(tags) = "ok"
  BY <1>1, AnswersFollowTheBank
<1>4. virtual => tags \in TagsOf(bank)
  OBVIOUS
<1> QED
  BY <1>1, <1>2, <1>3, <1>4, TellPreserves DEF Answer

LEMMA StartRefusedPreserves ==
    ASSUME IInv, StartRefused
    PROVE  IInv'
<1>1. /\ job # Idle /\ job' = Idle /\ active' = 0 /\ ~virtual
      /\ UNCHANGED <<virtual, session, bank, cancelled, cancels, asked, charged, voided>>
  BY DEF StartRefused, Release
<1>2. bank = "waiting"
  BY DEF StartRefused, IInv, JobIsWhole
<1>3. PICK ret \in StartStatus : Tell(ErrorOf(ret))
  BY DEF StartRefused
<1>4. ErrorOf(ret) \in {"noHost", "refusedStart"}
  BY StartStatusIsNamed
<1> QED
  BY <1>1, <1>2, <1>3, <1>4, TellPreserves DEF Answer

LEMMA LoopGivesUpPreserves ==
    ASSUME IInv, LoopGivesUp
    PROVE  IInv'
<1>1. /\ job # Idle /\ job' = Idle /\ active' = 0
      /\ UNCHANGED <<virtual, session, bank, cancelled, cancels, asked, charged, voided>>
  BY DEF LoopGivesUp, Release
<1>2. virtual => bank = "waiting"
  BY DEF LoopGivesUp
<1>3. PICK ret \in GivesUp : Tell(ErrorOf(ret))
  BY DEF LoopGivesUp
<1>4. ErrorOf(ret) \in {"timeout", "cancelled", "noHost", "code"}
  BY GivingUpIsNoVerdict
<1> QED
  BY <1>1, <1>2, <1>3, <1>4, TellPreserves DEF Answer

LEMMA DecidePreserves ==
    ASSUME IInv, Decide
    PROVE  IInv'
<1> USE PinpadAssumption
<1>1. /\ job # Idle /\ job.at = "loop" /\ bank = "waiting"
      /\ UNCHANGED <<virtual, job, session, active, cancelled, cancels, asked, told, voids>>
  BY DEF Decide
<1>2. JobIsWhole' /\ CancelWasAsked'
  BY <1>1 DEF IInv, JobIsWhole, CancelWasAsked
<1>3. \A p \in charged : told[p] # None
  BY <1>1 DEF IInv, ChargedOnce
<1>4. CASE /\ bank' = "approved" /\ job.kind = "purchase"
           /\ charged' = charged \cup {job.of} /\ UNCHANGED voided
  <2>1. job.of \in Purchase /\ told[job.of] = None
    BY <1>4 DEF IInv, JobIsWhole, ChargedOnce
  <2>2. TypeOK'
    BY <1>1, <1>4, <2>1 DEF IInv, TypeOK
  <2>3. ChargedOnce' /\ VoidedOnce'
    BY <1>1, <1>3, <1>4, <2>1 DEF IInv, ChargedOnce, VoidedOnce
  <2>4. RefusedIsNotCharged'
    <3>1. told[job.of] = None /\ told[job.of] \notin {"refused", "refusedStart", "error"}
      BY <2>1 DEF Answer
    <3> QED
      BY <1>1, <1>4, <3>1 DEF IInv, RefusedIsNotCharged
  <2> QED
    BY <1>1, <1>2, <1>4, <2>2, <2>3, <2>4 DEF IInv
<1>5. CASE /\ bank' = "approved" /\ job.kind = "void" /\ Voidable(job.of)
           /\ voided' = voided \cup {job.of} /\ UNCHANGED charged
  <2>1. job.of \in Purchase /\ job.of \in charged /\ voids[job.of] = 0
    BY <1>5 DEF IInv, JobIsWhole, VoidedOnce, Voidable
  <2>2. TypeOK'
    BY <1>1, <1>5, <2>1 DEF IInv, TypeOK
  <2>3. ChargedOnce' /\ VoidedOnce'
    BY <1>1, <1>3, <1>5, <2>1 DEF IInv, ChargedOnce, VoidedOnce
  <2> QED
    BY <1>1, <1>2, <1>5, <2>2, <2>3 DEF IInv, RefusedIsNotCharged
<1>6. CASE /\ UNCHANGED <<charged, voided>>
           /\ \/ bank' = "approved" /\ job.kind = "other"
              \/ bank' = "declined" /\ job.kind # "other"
  <2>1. TypeOK'
    BY <1>1, <1>6 DEF IInv, TypeOK
  <2>2. ChargedOnce' /\ VoidedOnce'
    BY <1>1, <1>3, <1>6 DEF IInv, ChargedOnce, VoidedOnce
  <2> QED
    BY <1>1, <1>2, <1>6, <2>1, <2>2 DEF IInv, RefusedIsNotCharged
<1> QED
  BY <1>4, <1>5, <1>6 DEF Decide

LEMMA CancelPreserves ==
    ASSUME IInv, ReadActive \/ \E s \in 1..MaxSessions : CallCancel(s)
    PROVE  IInv'
<1>1. UNCHANGED <<virtual, job, session, active, bank, charged, voided, told, voids>>
  BY DEF ReadActive, CallCancel, money
<1>2. CASE ReadActive
  <2>3. /\ active # 0 /\ cancels' = cancels \cup {active} /\ asked' = asked \cup {active}
        /\ cancelled' = cancelled
    BY <1>2 DEF ReadActive
  <2>4. active \in 1..session
    BY <2>3, PinpadAssumption DEF IInv, TypeOK
  <2>5. cancels' \subseteq 1..session /\ asked' \subseteq 1..session
    BY <2>3, <2>4 DEF IInv, TypeOK
  <2>1. TypeOK'
    BY <1>1, <2>3, <2>5 DEF IInv, TypeOK
  <2>2. CancelWasAsked'
    BY <1>2 DEF ReadActive, IInv, CancelWasAsked
  <2> QED
    BY <1>1, <2>1, <2>2
    DEF IInv, JobIsWhole, ChargedOnce, VoidedOnce, RefusedIsNotCharged
<1>3. CASE \E s \in 1..MaxSessions : CallCancel(s)
  <2>1. PICK s \in 1..MaxSessions : CallCancel(s)
    BY <1>3
  <2>2. s \in cancels /\ cancels' \subseteq cancels /\ asked' = asked
    BY <2>1 DEF CallCancel
  <2>3. cancelled' \in BOOLEAN /\ (cancelled' => cancelled \/ Reaches(s))
    <3>1. cancelled' = (cancelled \/ Reaches(s))
      BY <2>1 DEF CallCancel
    <3> QED
      BY <3>1, Zenon
  <2>4. TypeOK'
    BY <1>1, <2>2, <2>3 DEF IInv, TypeOK
  <2>5. Reaches(s) /\ ~virtual => s = session
    BY DEF Reaches
  <2>6. CancelWasAsked'
    BY <1>1, <2>2, <2>3, <2>5 DEF IInv, CancelWasAsked
  <2> QED
    BY <1>1, <2>4, <2>6
    DEF IInv, JobIsWhole, ChargedOnce, VoidedOnce, RefusedIsNotCharged
<1> QED
  BY <1>2, <1>3

LEMMA NextPreserves == IInv /\ [Next]_vars => IInv'
<1> SUFFICES ASSUME IInv, [Next]_vars PROVE IInv'
  OBVIOUS
<1>1. CASE \E r \in Requests : Acquire(r)
  BY <1>1, AcquirePreserves
<1>2. CASE WorkerStep
  BY <1>2, StartRefusedPreserves, EnterLoopPreserves, CompletePreserves, LoopGivesUpPreserves
  DEF WorkerStep
<1>3. CASE Decide
  BY <1>3, DecidePreserves
<1>4. CASE ReadActive \/ \E s \in 1..MaxSessions : CallCancel(s)
  BY <1>4, CancelPreserves
<1>5. CASE UNCHANGED vars
  BY <1>5 DEF vars, IInv, TypeOK, JobIsWhole, ChargedOnce, VoidedOnce, CancelWasAsked,
              RefusedIsNotCharged
<1> QED
  BY <1>1, <1>2, <1>3, <1>4, <1>5 DEF Next

-----------------------------------------------------------------------------
(* The theorems.                                                           *)

\* The invariant holds in every state of the routes of a pinpad.
THEOREM PinpadInvariant == Spec => []IInv
  BY InitEstablishes, NextPreserves, PTL DEF Spec

\* Every variable of the pinpad routes keeps its type.
THEOREM PinpadTypeCorrect == Spec => []TypeOK
<1>1. IInv => TypeOK
  BY DEF IInv
<1> QED
  BY <1>1, PinpadInvariant, PTL

\* A purchase told ok is charged, and a purchase is voided at most once,
\* though _run_transaction may lose the receipt tags of any transaction.
THEOREM PaidIsCharged == Spec => []OkIsTheBanks
<1>1. IInv => OkIsTheBanks
  <2> SUFFICES ASSUME IInv, NEW p \in Purchase
               PROVE  /\ told[p] = "ok" => p \in charged
                      /\ voids[p] > 0 => p \in voided
                      /\ voids[p] <= 1
    BY DEF OkIsTheBanks
  <2>1. voids[p] \in {0, 1} /\ (voids[p] = 1 => p \in voided)
    BY DEF IInv, VoidedOnce
  <2> QED
    BY <2>1 DEF IInv
<1> QED
  BY <1>1, PinpadInvariant, PTL

\* A purchase that the till is told was refused, by the pinpad at its start or
\* by the bank, or that could not reach the pinpad, was not charged: no timeout,
\* cancellation or code of _run_transaction's loop is told as a refusal after
\* the approval, and the virtual pinpad tells nothing but ok of what it took.
THEOREM RefusedWasNotCharged == Spec => []RefusedIsNotCharged
<1>1. IInv => RefusedIsNotCharged
  BY DEF IInv
<1> QED
  BY <1>1, PinpadInvariant, PTL

\* pinpad_cancel stops no transaction but that of the facade it read.
THEOREM CancelReachesItsOwn == Spec => CancelOnlyItsOwn
<1>1. IInv /\ [Next]_vars
      => [\A p \in Purchase :
           told[p] # told'[p] /\ told'[p] = "cancelled" /\ ~virtual => session \in asked]_vars
  <2> SUFFICES ASSUME IInv, Next, NEW p \in Purchase,
                      told[p] # told'[p], told'[p] = "cancelled", ~virtual
               PROVE  session \in asked
    OBVIOUS
  <2>1. CASE \E r \in Requests : Acquire(r)
    BY <2>1 DEF Acquire, CannotOpen, IInv, TypeOK
  <2>2. CASE Complete
    <3>1. PICK tags \in TagsOf(bank) \cup {NoTags} : Tell(Parsed(tags))
      BY <2>2 DEF Complete
    <3>2. Parsed(tags) # "cancelled"
      BY <2>2, AnswersFollowTheBank DEF Complete, IInv, TypeOK
    <3> QED
      BY <3>1, <3>2 DEF Tell, IInv, TypeOK
  <2>3. CASE LoopGivesUp
    <3>1. PICK ret \in GivesUp : Tell(ErrorOf(ret))
      BY <2>3 DEF LoopGivesUp
    <3>2. ErrorOf(ret) = "cancelled"
      BY <3>1 DEF Tell, IInv, TypeOK
    <3>3. cancelled /\ job # Idle
      BY <2>3, <3>2, GivingUpIsNoVerdict DEF LoopGivesUp
    <3> QED
      BY <3>3 DEF IInv, CancelWasAsked
  <2>4. CASE StartRefused
    <3>1. PICK ret \in StartStatus : Tell(ErrorOf(ret))
      BY <2>4 DEF StartRefused
    <3>2. ErrorOf(ret) # "cancelled"
      BY StartStatusIsNamed
    <3> QED
      BY <3>1, <3>2 DEF Tell, IInv, TypeOK
  <2>5. CASE EnterLoop \/ Decide \/ ReadActive \/ \E s \in 1..MaxSessions : CallCancel(s)
    BY <2>5 DEF EnterLoop, Decide, ReadActive, CallCancel, money
  <2> QED
    BY <2>1, <2>2, <2>3, <2>4, <2>5 DEF Next, WorkerStep
<1> QED
  BY <1>1, PinpadInvariant, PTL DEF Spec, CancelOnlyItsOwn

=============================================================================
