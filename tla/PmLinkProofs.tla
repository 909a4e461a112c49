----------------------------- MODULE PmLinkProofs -----------------------------
(***************************************************************************)
(* Theorems about PmLink, for any commands, sequence numbers, attempts,    *)
(* calls and connections: the link implements CommandOnce, as long as a    *)
(* user gives up before the sequence numbers come round without an answer, *)
(* and late answers make at most a call after a failed one fail.           *)
(***************************************************************************)
EXTENDS PmLink, SequenceTheorems, TLAPS

-----------------------------------------------------------------------------
(* The inductive invariant.                                                *)

\* Calls are made on the latest connection.
InSession ==
    /\ \A i \in 1..Current : calls[i].session <= session
    /\ \A i, j \in 1..Current : i <= j => calls[i].session <= calls[j].session

\* Only the last call waits; an abandoned one is the last of its connection.
Ends ==
    \A i \in 1..Current :
        /\ calls[i].state = "waiting" => i = Current /\ open /\ calls[i].session = session
        /\ calls[i].state = "abandoned" =>
              /\ open => calls[i].session < session
              /\ \A j \in 1..Current : i < j => calls[i].session < calls[j].session

\* Calls of a connection that are close together have different numbers.
Numbered ==
    \A i, j \in 1..Current :
        i < j /\ calls[i].session = calls[j].session /\ j - i < SeqCount =>
            calls[j].seq \in {calls[i].seq + (j - i), calls[i].seq + (j - i) - SeqCount}

\* Before a call, not more calls of its connection than a user puts up with
\* have failed in a row.
Streaks ==
    \A i, j \in 1..Current :
        /\ i < j /\ calls[i].session = calls[j].session
        /\ \A k \in i..(j-1) : calls[k].state = "failed"
        => j - i <= MaxFailures

Done(i) == \E n \in 1..Len(executed) : executed[n] = i

\* Commands are executed in their order.
Executions ==
    /\ \A n \in 1..Len(executed) : executed[n] <= last
    /\ \A m, n \in 1..Len(executed) : m < n => executed[m] < executed[n]
    /\ last # 0 => Done(last)

\* Requests arrive in order, none before the last one handled.
Requests ==
    /\ \A m, n \in 1..Len(toDevice) : m <= n => toDevice[m] <= toDevice[n]
    /\ \A n \in 1..Len(toDevice) : last <= toDevice[n]

\* So do answers, and each is the answer of its own execution.
Replies ==
    /\ \A m \in 1..Len(toHost) : toHost[m] # Noise =>
          /\ toHost[m].to \in 1..Current /\ toHost[m].to <= last
          /\ toHost[m].of = toHost[m].to /\ Done(toHost[m].to)
          /\ calls[toHost[m].to].session = session
    /\ \A m, n \in 1..Len(toHost) :
          m <= n /\ toHost[m] # Noise /\ toHost[n] # Noise => toHost[m].to <= toHost[n].to

\* A call that returned brought its own answer, and no answer of a call
\* before it is still to be read.
Returned ==
    \A k \in 1..Current :
        IF calls[k].state = "returned"
        THEN /\ calls[k].answer = k /\ Done(k)
             /\ \A m \in 1..Len(toHost) : toHost[m] # Noise => k <= toHost[m].to
        ELSE calls[k].answer = 0

CallsInv == InSession /\ Ends /\ Numbered /\ Streaks
IInv == TypeOK /\ CallsInv /\ Executions /\ Requests /\ Replies /\ Returned

LEMMA LinkTypes ==
    ASSUME TypeOK
    PROVE  /\ SeqCount \in Nat /\ Retries \in Nat \ {0} /\ MaxFailures \in Nat
           /\ MaxFailures + 1 < SeqCount /\ MaxCalls \in Nat /\ MaxSessions \in Nat
           /\ Current \in Nat /\ Len(toDevice) \in Nat /\ Len(toHost) \in Nat
           /\ Len(executed) \in Nat /\ session \in Nat /\ last \in Nat
           /\ \A i \in 1..Current :
                /\ calls[i] \in CallRecord /\ calls[i].session \in Nat
                /\ calls[i].seq \in 0..SeqCount-1 /\ calls[i].state \in CallState
                /\ calls[i].answer \in Nat
           /\ \A n \in 1..Len(toDevice) : toDevice[n] \in 1..Current
           /\ \A m \in 1..Len(toHost) : toHost[m] \in Frame
           /\ \A n \in 1..Len(executed) : executed[n] \in 1..Current
<1>1. /\ calls \in Seq(CallRecord) /\ toDevice \in Seq(1..Current)
      /\ toHost \in Seq(Frame) /\ executed \in Seq(1..Current)
  BY DEF TypeOK
<1>2. /\ Len(calls) \in Nat /\ Len(toDevice) \in Nat /\ Len(toHost) \in Nat /\ Len(executed) \in Nat
  BY <1>1, LenProperties
<1>3. /\ \A i \in 1..Len(calls) : calls[i] \in CallRecord
      /\ \A n \in 1..Len(toDevice) : toDevice[n] \in 1..Current
      /\ \A m \in 1..Len(toHost) : toHost[m] \in Frame
      /\ \A n \in 1..Len(executed) : executed[n] \in 1..Current
  BY <1>1, ElementOfSeq
<1>4. session \in Nat /\ last \in Nat
  BY <1>2, LinkAssumption DEF TypeOK, Current
<1> QED
  BY <1>2, <1>3, <1>4, LinkAssumption DEF Current, CallRecord

\* The call that waits is a call.
LEMMA CurrentCall ==
    ASSUME TypeOK, Waiting
    PROVE  /\ Current \in 1..Current /\ calls \in Seq(CallRecord)
           /\ calls[Current] \in CallRecord /\ calls[Current].clean \in BOOLEAN
<1>1. Current \in Nat /\ Current > 0
  BY LinkTypes DEF Waiting
<1>2. Current \in 1..Current
  BY <1>1
<1>3. calls[Current] \in CallRecord
  BY <1>2, LinkTypes
<1>4. calls \in Seq(CallRecord)
  BY DEF TypeOK
<1> QED
  BY <1>2, <1>3, <1>4 DEF CallRecord

-----------------------------------------------------------------------------
(* Sequence numbers.                                                       *)

\* A call that has the number of an earlier one of its connection comes
\* after a call between them that did not fail.
LEMMA NumbersDiffer ==
    ASSUME TypeOK, Numbered, Streaks,
           NEW i \in 1..Current, NEW j \in 1..Current, i < j,
           calls[i].session = calls[j].session, InSession,
           \A k \in (i+1)..(j-1) : calls[k].state = "failed"
    PROVE  calls[i].seq # calls[j].seq
<1>0. /\ Current \in Nat /\ SeqCount \in Nat /\ MaxFailures \in Nat /\ MaxFailures + 1 < SeqCount
      /\ \A k \in 1..Current : calls[k].session \in Nat /\ calls[k].seq \in 0..SeqCount-1
  BY LinkTypes
<1>1. j - i <= MaxFailures + 1
  <2>1. CASE j = i + 1
    BY <1>0, <2>1
  <2>2. CASE j # i + 1
    <3>1. i + 1 \in 1..Current /\ i + 1 < j
      BY <1>0, <2>2
    <3>2. calls[i + 1].session = calls[j].session
      <4>1. /\ calls[i].session <= calls[i + 1].session
            /\ calls[i + 1].session <= calls[j].session
        BY <1>0, <3>1 DEF InSession
      <4> QED
        BY <1>0, <3>1, <4>1
    <3>3. j - (i + 1) <= MaxFailures
      BY <3>1, <3>2 DEF Streaks
    <3> QED
      BY <1>0, <3>3
  <2> QED
    BY <2>1, <2>2
<1>2. j - i < SeqCount /\ j - i > 0
  BY <1>0, <1>1
<1>3. calls[j].seq \in {calls[i].seq + (j - i), calls[i].seq + (j - i) - SeqCount}
  BY <1>2 DEF Numbered
<1> QED
  BY <1>0, <1>2, <1>3

\* An answer that matches the current call is its own (_exchange).
LEMMA MatchesItsOwn ==
    ASSUME IInv, Waiting, NEW m \in 1..Len(toHost), toHost[m] # Noise, Matches(toHost[m])
    PROVE  toHost[m].to = Current
<1> DEFINE i == toHost[m].to
<1>0. /\ Current \in Nat /\ session \in Nat
      /\ \A k \in 1..Current : calls[k].session \in Nat /\ calls[k].state \in CallState
  BY LinkTypes DEF IInv
<1>1. /\ i \in 1..Current /\ calls[i].session = session /\ Current \in 1..Current
      /\ calls[Current].session = session /\ open
  <2>1. i \in 1..Current /\ calls[i].session = session
    BY DEF IInv, Replies
  <2>2. Current \in 1..Current /\ calls[Current].state = "waiting"
    BY CurrentCall DEF IInv, Waiting
  <2> QED
    BY <2>1, <2>2 DEF IInv, CallsInv, Ends
<1>2. ASSUME i # Current PROVE FALSE
  <2>1. i < Current
    BY <1>1, <1>2, LinkTypes DEF IInv
  <2>2. ASSUME NEW k \in (i+1)..(Current-1)
        PROVE  calls[k].state = "failed"
    <3>1. k \in 1..Current /\ i < k /\ k < Current /\ i \in Nat /\ k \in Nat
      BY <1>0, <1>1
    <3>2. calls[k].state # "waiting"
      BY <3>1 DEF IInv, CallsInv, Ends
    <3>3. calls[k].session = session
      <4>1. calls[i].session <= calls[k].session /\ calls[k].session <= session
        BY <1>1, <3>1 DEF IInv, CallsInv, InSession
      <4> QED
        BY <1>0, <1>1, <3>1, <4>1
    <3>4. calls[k].state # "abandoned"
      BY <1>0, <1>1, <3>1, <3>3 DEF IInv, CallsInv, Ends
    <3>5. calls[k].state # "returned"
      <4>1. calls[k].state = "returned" => k <= i
        BY <1>1, <3>1 DEF IInv, Returned
      <4> QED
        BY <3>1, <4>1
    <3> QED
      BY <1>0, <3>1, <3>2, <3>4, <3>5 DEF CallState
  <2>3. calls[i].seq # calls[Current].seq
    BY <1>1, <2>1, <2>2, NumbersDiffer DEF IInv, CallsInv
  <2> QED
    BY <2>3 DEF Matches
<1> QED
  BY <1>2

\* The device takes a request for a repetition only when it is one.
LEMMA RepeatsItself ==
    ASSUME IInv, toDevice # <<>>, Repeats(Head(toDevice))
    PROVE  last = Head(toDevice)
<1> DEFINE i == Head(toDevice)
<1>0. /\ Current \in Nat /\ session \in Nat /\ last \in Nat
      /\ \A k \in 1..Current : calls[k].session \in Nat /\ calls[k].state \in CallState
  BY LinkTypes DEF IInv
<1>1. 1 \in 1..Len(toDevice) /\ i = toDevice[1]
  BY LinkTypes, LenProperties, EmptySeq DEF IInv, TypeOK
<1>2. i \in 1..Current /\ last \in 1..Current /\ last <= i
  <2>1. i \in 1..Current /\ last <= i
    BY <1>1, LinkTypes DEF IInv, Requests
  <2> QED
    BY <1>0, <2>1 DEF Repeats
<1>3. ASSUME last # i PROVE FALSE
  <2>1. last < i /\ calls[last].session = calls[i].session
    BY <1>2, <1>3 DEF Repeats
  <2>2. ASSUME NEW k \in (last+1)..(i-1)
        PROVE  calls[k].state = "failed"
    <3>1. k \in 1..Current /\ last < k /\ k < i /\ k \in Nat /\ i \in Nat
      BY <1>0, <1>2
    <3>2. calls[k].state # "waiting"
      BY <1>0, <1>2, <3>1 DEF IInv, CallsInv, Ends
    <3>3. calls[k].session = calls[i].session
      <4>1. /\ calls[last].session <= calls[k].session
            /\ calls[k].session <= calls[i].session
        BY <1>0, <1>2, <3>1 DEF IInv, CallsInv, InSession
      <4> QED
        BY <1>0, <1>2, <2>1, <3>1, <4>1
    <3>4. calls[k].state # "abandoned"
      <4>1. calls[k].state = "abandoned" => calls[k].session < calls[i].session
        BY <1>2, <3>1 DEF IInv, CallsInv, Ends
      <4> QED
        BY <1>0, <1>2, <3>1, <3>3, <4>1
    <3>5. calls[k].state # "returned"
      <4>1. calls[k].state = "returned" => Done(k)
        BY <3>1 DEF IInv, Returned
      <4>2. Done(k) => k <= last
        BY DEF IInv, Executions, Done
      <4> QED
        BY <1>0, <3>1, <4>1, <4>2
    <3> QED
      BY <1>0, <3>1, <3>2, <3>4, <3>5 DEF CallState
  <2>3. calls[last].seq # calls[i].seq
    BY <1>2, <2>1, <2>2, NumbersDiffer DEF IInv, CallsInv
  <2> QED
    BY <2>3 DEF Repeats
<1> QED
  BY <1>3

-----------------------------------------------------------------------------
(* What a step leaves true of the calls, the requests and the answers.     *)

\* A call that ends keeps its connection and its number.
LEMMA CallsEnd ==
    ASSUME TypeOK, TypeOK', CallsInv, Current' = Current, session <= session',
           \A i \in 1..Current :
              /\ calls'[i].session = calls[i].session /\ calls'[i].seq = calls[i].seq
              /\ calls'[i].state = "waiting" =>
                    calls[i].state = "waiting" /\ open' /\ session' = session
              /\ calls'[i].state = "abandoned" =>
                    \/ calls[i].state = "abandoned" /\ (open' => open \/ session < session')
                    \/ i = Current /\ ~open'
              /\ calls'[i].state = "failed" => calls[i].state = "failed" \/ i = Current
    PROVE  CallsInv'
<1>0. /\ Current \in Nat /\ session \in Nat /\ session' \in Nat
      /\ \A i \in 1..Current : calls[i].session \in Nat
  <2>1. session' \in Nat
    BY LinkAssumption DEF TypeOK
  <2> QED
    BY <2>1, LinkTypes
<1>1. InSession'
  BY <1>0 DEF CallsInv, InSession
<1>2. Ends'
  <2> SUFFICES ASSUME NEW i \in 1..Current
               PROVE  /\ calls'[i].state = "waiting" =>
                            i = Current /\ open' /\ calls'[i].session = session'
                      /\ calls'[i].state = "abandoned" =>
                            /\ open' => calls'[i].session < session'
                            /\ \A j \in 1..Current : i < j => calls'[i].session < calls'[j].session
    BY DEF Ends
  <2>1. calls'[i].state = "waiting" => i = Current /\ open' /\ calls'[i].session = session'
    BY DEF CallsInv, Ends
  <2>2. ASSUME calls'[i].state = "abandoned", calls[i].state = "abandoned",
               open' => open \/ session < session'
        PROVE  /\ open' => calls'[i].session < session'
               /\ \A j \in 1..Current : i < j => calls'[i].session < calls'[j].session
    BY <1>0, <2>2 DEF CallsInv, Ends, InSession
  <2>3. ASSUME i = Current, ~open'
        PROVE  /\ open' => calls'[i].session < session'
               /\ \A j \in 1..Current : i < j => calls'[i].session < calls'[j].session
    BY <1>0, <2>3
  <2> QED
    BY <2>1, <2>2, <2>3
<1>3. Numbered'
  BY <1>0 DEF CallsInv, Numbered
<1>4. Streaks'
  <2> SUFFICES ASSUME NEW i \in 1..Current, NEW j \in 1..Current, i < j,
                      calls'[i].session = calls'[j].session,
                      \A k \in i..(j-1) : calls'[k].state = "failed"
               PROVE  j - i <= MaxFailures
    BY DEF Streaks
  <2>1. \A k \in i..(j-1) : k \in 1..Current /\ k # Current
    BY <1>0
  <2>2. \A k \in i..(j-1) : calls[k].state = "failed"
    BY <2>1
  <2> QED
    BY <2>2 DEF CallsInv, Streaks
<1> QED
  BY <1>1, <1>2, <1>3, <1>4 DEF CallsInv

\* Requests and answers that are read, lost, damaged or repeated keep their
\* order, and no answer that was overtaken comes back.
LEMMA OnTheWay ==
    ASSUME IInv, TypeOK', UNCHANGED <<last, executed>>, Current <= Current',
           \A i \in 1..Current : calls'[i].session = calls[i].session,
           NEW d \in Nat, NEW e \in Nat,
           \A m \in 1..Len(toHost') :
              \/ toHost'[m] = Noise
              \/ /\ m + d \in 1..Len(toHost) /\ toHost'[m] = toHost[m + d]
                 /\ session' = session,
           \A n \in 1..Len(toDevice') :
              \/ n + e \in 1..Len(toDevice) /\ toDevice'[n] = toDevice[n + e]
              \/ n = Len(toDevice') /\ toDevice'[n] = Current'
    PROVE  /\ Executions' /\ Requests' /\ Replies'
           /\ \A k \in 1..Current :
                (\A m \in 1..Len(toHost) : toHost[m] # Noise => k <= toHost[m].to) =>
                (\A m \in 1..Len(toHost') : toHost'[m] # Noise => k <= toHost'[m].to)
<1>0. /\ Current \in Nat /\ Current' \in Nat /\ last \in Nat /\ last <= Current
      /\ Len(toHost) \in Nat /\ Len(toHost') \in Nat
      /\ Len(toDevice) \in Nat /\ Len(toDevice') \in Nat
      /\ \A n \in 1..Len(toDevice) : toDevice[n] \in 1..Current
      /\ \A n \in 1..Len(toDevice') : toDevice'[n] \in 1..Current'
      /\ \A m \in 1..Len(toHost) : toHost[m].to \in Nat
  <2>1. /\ Current \in Nat /\ last \in Nat
        /\ Len(toHost) \in Nat /\ Len(toDevice) \in Nat
        /\ \A n \in 1..Len(toDevice) : toDevice[n] \in 1..Current
        /\ \A m \in 1..Len(toHost) : toHost[m].to \in Nat
    BY LinkTypes DEF IInv, Frame
  <2>2. /\ calls' \in Seq(CallRecord) /\ toDevice' \in Seq(1..Current') /\ toHost' \in Seq(Frame)
    BY DEF TypeOK, CallRecord, Frame, CallState
  <2>3. /\ Len(calls') \in Nat /\ Len(toHost') \in Nat /\ Len(toDevice') \in Nat
        /\ \A n \in 1..Len(toDevice') : toDevice'[n] \in 1..Current'
    BY <2>2, LenProperties, ElementOfSeq
  <2> QED
    BY <2>1, <2>3 DEF IInv, TypeOK, Current
<1>1. Executions'
  BY DEF IInv, Executions, Done
<1>2. Requests'
  <2>1. ASSUME NEW n \in 1..Len(toDevice')
        PROVE  last <= toDevice'[n]
    BY <1>0 DEF IInv, Requests
  <2>2. ASSUME NEW m \in 1..Len(toDevice'), NEW n \in 1..Len(toDevice'), m <= n
        PROVE  toDevice'[m] <= toDevice'[n]
    <3>1. CASE n = Len(toDevice') /\ toDevice'[n] = Current'
      BY <1>0, <3>1
    <3>2. CASE n + e \in 1..Len(toDevice) /\ toDevice'[n] = toDevice[n + e]
      <4>1. CASE m + e \in 1..Len(toDevice) /\ toDevice'[m] = toDevice[m + e]
        <5>1. m + e <= n + e
          BY <1>0, <2>2
        <5> QED
          BY <3>2, <4>1, <5>1 DEF IInv, Requests
      <4>2. CASE m = Len(toDevice') /\ toDevice'[m] = Current'
        <5>1. m = n
          BY <1>0, <2>2, <4>2
        <5> QED
          BY <1>0, <5>1
      <4> QED
        BY <4>1, <4>2
    <3> QED
      BY <3>1, <3>2
  <2> QED
    BY <2>1, <2>2 DEF Requests
<1>3. Replies'
  <2>1. ASSUME NEW m \in 1..Len(toHost'), toHost'[m] # Noise
        PROVE  /\ toHost'[m].to \in 1..Current' /\ toHost'[m].to <= last
               /\ toHost'[m].of = toHost'[m].to /\ Done(toHost'[m].to)
               /\ calls'[toHost'[m].to].session = session'
    <3>1. m + d \in 1..Len(toHost) /\ toHost'[m] = toHost[m + d] /\ session' = session
      BY <2>1
    <3>2. /\ toHost[m + d].to \in 1..Current /\ toHost[m + d].to <= last
          /\ toHost[m + d].of = toHost[m + d].to /\ Done(toHost[m + d].to)
          /\ calls[toHost[m + d].to].session = session
      BY <2>1, <3>1 DEF IInv, Replies
    <3> QED
      BY <1>0, <3>1, <3>2
  <2>2. ASSUME NEW m \in 1..Len(toHost'), NEW n \in 1..Len(toHost'), m <= n,
               toHost'[m] # Noise, toHost'[n] # Noise
        PROVE  toHost'[m].to <= toHost'[n].to
    <3>1. /\ m + d \in 1..Len(toHost) /\ toHost'[m] = toHost[m + d]
          /\ n + d \in 1..Len(toHost) /\ toHost'[n] = toHost[n + d]
      BY <2>2
    <3>2. m + d <= n + d
      BY <1>0, <2>2
    <3> QED
      BY <2>2, <3>1, <3>2 DEF IInv, Replies
  <2>3. \A k : Done(k) => Done(k)'
    BY DEF Done
  <2>4. Noise' = Noise
    BY DEF Noise
  <2> QED
    BY <2>1, <2>2, <2>3, <2>4 DEF Replies
<1>4. \A k \in 1..Current :
        (\A m \in 1..Len(toHost) : toHost[m] # Noise => k <= toHost[m].to) =>
        (\A m \in 1..Len(toHost') : toHost'[m] # Noise => k <= toHost'[m].to)
  BY <1>0
<1> QED
  BY <1>1, <1>2, <1>3, <1>4

\* A step in which no call returns disturbs no answer.
LEMMA NoneReturns ==
    ASSUME IInv, TypeOK', UNCHANGED executed, Current <= Current',
           \A i \in 1..Current :
              /\ calls'[i].answer = calls[i].answer
              /\ calls'[i].state = "returned" <=> calls[i].state = "returned",
           \A i \in 1..Current' :
              i > Current => calls'[i].state # "returned" /\ calls'[i].answer = 0,
           \A k \in 1..Current :
                (\A m \in 1..Len(toHost) : toHost[m] # Noise => k <= toHost[m].to) =>
                (\A m \in 1..Len(toHost') : toHost'[m] # Noise => k <= toHost'[m].to)
    PROVE  Returned'
<1>0. Current \in Nat
  BY LinkTypes DEF IInv
<1>1. ASSUME NEW k \in 1..Current'
      PROVE  IF calls'[k].state = "returned"
             THEN /\ calls'[k].answer = k /\ Done(k)'
                  /\ \A m \in 1..Len(toHost') : toHost'[m] # Noise => k <= toHost'[m].to
             ELSE calls'[k].answer = 0
  <2>0. Current' \in Nat
    BY LenProperties DEF TypeOK, Current, CallRecord, CallState
  <2>1. CASE k <= Current
    <3>1. k \in 1..Current
      BY <1>0, <2>0, <2>1
    <3> QED
      BY <3>1 DEF IInv, Returned, Done
  <2>2. CASE k > Current
    BY <2>2
  <2> QED
    BY <1>0, <2>0, <2>1, <2>2
<1> QED
  BY <1>1 DEF Returned, Noise

-----------------------------------------------------------------------------
(* The steps.                                                              *)

\* What a change of the current call leaves of the others.
LEMMA OneCallChanges ==
    ASSUME TypeOK, Waiting, NEW r \in CallRecord, calls' = [calls EXCEPT ![Current] = r]
    PROVE  /\ calls' \in Seq(CallRecord) /\ Current' = Current /\ Current \in 1..Current
           /\ \A i \in 1..Current : calls'[i] = IF i = Current THEN r ELSE calls[i]
<1>1. calls \in Seq(CallRecord) /\ Current \in Nat
  BY LinkTypes DEF TypeOK
<1>2. Current \in 1..Len(calls)
  BY <1>1 DEF Waiting, Current
<1> QED
  BY <1>1, <1>2, ExceptSeq DEF Current

\* What becomes of the current call when an attempt brought no answer: it
\* waits again, its request written once more, or has failed.
LEMMA NextAttemptDoes ==
    ASSUME TypeOK, Waiting, NEW clean \in BOOLEAN, NextAttempt(clean)
    PROVE  /\ calls' \in Seq(CallRecord) /\ Current' = Current /\ Current \in 1..Current
           /\ attempts' \in 0..Retries
           /\ \A i \in 1..Current :
                /\ calls'[i].session = calls[i].session /\ calls'[i].seq = calls[i].seq
                /\ calls'[i].answer = calls[i].answer
                /\ \/ calls'[i].state = calls[i].state
                   \/ i = Current /\ calls'[i].state = "failed"
           /\ toDevice' \in Seq(1..Current)
           /\ \A n \in 1..Len(toDevice') :
                \/ n \in 1..Len(toDevice) /\ toDevice'[n] = toDevice[n]
                \/ n = Len(toDevice') /\ toDevice'[n] = Current
<1>0. /\ Current \in Nat /\ Current \in 1..Current /\ Retries \in Nat
      /\ calls \in Seq(CallRecord) /\ toDevice \in Seq(1..Current) /\ attempts \in 0..Retries
      /\ calls[Current] \in CallRecord /\ Len(toDevice) \in Nat
  BY LinkTypes DEF TypeOK, Waiting
<1>1. CASE attempts < Retries
  <2> DEFINE r == [calls[Current] EXCEPT !.clean = clean]
  <2>1. r \in CallRecord /\ r.session = calls[Current].session /\ r.seq = calls[Current].seq
        /\ r.answer = calls[Current].answer /\ r.state = calls[Current].state
    BY <1>0 DEF CallRecord
  <2>2. calls' = [calls EXCEPT ![Current] = r] /\ attempts' = attempts + 1
        /\ toDevice' = Append(toDevice, Current)
    BY <1>1 DEF NextAttempt
  <2>3. /\ calls' \in Seq(CallRecord) /\ Current' = Current
        /\ \A i \in 1..Current : calls'[i] = IF i = Current THEN r ELSE calls[i]
    BY <2>1, <2>2, OneCallChanges
  <2>4. /\ toDevice' \in Seq(1..Current) /\ Len(toDevice') = Len(toDevice) + 1
        /\ \A n \in 1..Len(toDevice) : toDevice'[n] = toDevice[n]
        /\ toDevice'[Len(toDevice) + 1] = Current
    BY <1>0, <2>2, AppendProperties
  <2>5. attempts' \in 0..Retries
    BY <1>0, <1>1, <2>2
  <2>6. \A n \in 1..Len(toDevice') :
                \/ n \in 1..Len(toDevice) /\ toDevice'[n] = toDevice[n]
                \/ n = Len(toDevice') /\ toDevice'[n] = Current
    BY <1>0, <2>4
  <2> HIDE DEF r
  <2> QED
    BY <1>0, <2>1, <2>3, <2>4, <2>5, <2>6
<1>2. CASE ~(attempts < Retries)
  <2> DEFINE r == [calls[Current] EXCEPT !.state = "failed", !.clean = clean]
  <2>1. r \in CallRecord /\ r.session = calls[Current].session /\ r.seq = calls[Current].seq
        /\ r.answer = calls[Current].answer /\ r.state = "failed"
    BY <1>0 DEF CallRecord, CallState
  <2>2. calls' = [calls EXCEPT ![Current] = r] /\ attempts' = attempts /\ toDevice' = toDevice
    BY <1>2 DEF NextAttempt
  <2>3. /\ calls' \in Seq(CallRecord) /\ Current' = Current
        /\ \A i \in 1..Current : calls'[i] = IF i = Current THEN r ELSE calls[i]
    BY <2>1, <2>2, OneCallChanges
  <2> HIDE DEF r
  <2> QED
    BY <1>0, <2>1, <2>2, <2>3
<1> QED
  BY <1>1, <1>2

\* The first call of a connection.
LEMMA NextSeqIs ==
    ASSUME TypeOK, InSession
    PROVE  /\ NextSeq \in 0..SeqCount-1
           /\ (\E i \in 1..Current : calls[i].session = session) =>
                /\ Current \in 1..Current /\ calls[Current].session = session
                /\ NextSeq = IF calls[Current].seq = SeqCount - 1 THEN 0
                             ELSE calls[Current].seq + 1
<1>0. /\ Current \in Nat /\ SeqCount \in Nat /\ SeqCount > 0 /\ session \in Nat
      /\ \A i \in 1..Current : calls[i].session \in Nat /\ calls[i].seq \in 0..SeqCount-1
  BY LinkTypes
<1>1. CASE CallsOf(session) = {}
  BY <1>0, <1>1 DEF NextSeq, CallsOf
<1>2. CASE CallsOf(session) # {}
  <2>1. PICK i \in 1..Current : calls[i].session = session
    BY <1>2 DEF CallsOf
  <2>2. Current \in 1..Current
    BY <1>0
  <2>3. calls[Current].session = session
    BY <1>0, <2>1, <2>2 DEF InSession
  <2>4. NextSeq = IF calls[Current].seq = SeqCount - 1 THEN 0 ELSE calls[Current].seq + 1
    BY <1>2 DEF NextSeq
  <2> QED
    BY <1>0, <2>2, <2>3, <2>4
<1> QED
  BY <1>1, <1>2

LEMMA ConnectKeeps ==
    ASSUME IInv, Connect
    PROVE  IInv'
<1>0. /\ Current \in Nat /\ session \in Nat /\ MaxSessions \in Nat
      /\ Len(toDevice) \in Nat /\ Len(<<>>) = 0
      /\ session' = session + 1 /\ open' /\ toHost' = <<>> /\ ~open
      /\ calls' = calls /\ toDevice' = toDevice /\ Current' = Current
      /\ last' = last /\ executed' = executed
  BY LinkTypes, EmptySeq DEF IInv, Connect, Current
<1>1. TypeOK'
  <2>1. session' \in 0..MaxSessions
    BY <1>0 DEF IInv, TypeOK, Connect
  <2>2. toHost' \in Seq(Frame) /\ toDevice' \in Seq(1..Current')
    BY <1>0, EmptySeq DEF IInv, TypeOK
  <2> QED
    BY <1>0, <2>1, <2>2 DEF IInv, TypeOK, Connect, CallRecord, CallState, Frame
<1>2. CallsInv'
  <2>1. \A i \in 1..Current : calls[i].state # "waiting"
    BY <1>0 DEF IInv, CallsInv, Ends
  <2> QED
    BY <1>0, <1>1, <2>1, CallsEnd DEF IInv
<1>3. /\ Executions' /\ Requests' /\ Replies'
      /\ \A k \in 1..Current :
          (\A m \in 1..Len(toHost) : toHost[m] # Noise => k <= toHost[m].to) =>
          (\A m \in 1..Len(toHost') : toHost'[m] # Noise => k <= toHost'[m].to)
  <2>1. \A n \in 1..Len(toDevice') : n + 0 \in 1..Len(toDevice) /\ toDevice'[n] = toDevice[n + 0]
    BY <1>0
  <2>2. \A m \in 1..Len(toHost') : FALSE
    BY <1>0
  <2> QED
    BY <1>0, <1>1, <2>1, <2>2, OnTheWay
<1>4. Returned'
  BY <1>0, <1>1, <1>3, NoneReturns
<1> QED
  BY <1>1, <1>2, <1>3, <1>4 DEF IInv

LEMMA DisconnectKeeps ==
    ASSUME IInv, Disconnect
    PROVE  IInv'
<1>0. /\ Current \in Nat /\ session \in Nat
      /\ Len(toDevice) \in Nat /\ Len(<<>>) = 0
      /\ session' = session /\ ~open' /\ toHost' = <<>> /\ ~Waiting
      /\ calls' = calls /\ toDevice' = toDevice /\ Current' = Current
      /\ last' = last /\ executed' = executed
  BY LinkTypes, EmptySeq DEF IInv, Disconnect, Current
<1>1. TypeOK'
  <2>1. toHost' \in Seq(Frame) /\ toDevice' \in Seq(1..Current') /\ open' \in BOOLEAN
    BY <1>0, EmptySeq DEF IInv, TypeOK, Disconnect
  <2> QED
    BY <1>0, <2>1 DEF IInv, TypeOK, Disconnect, CallRecord, CallState, Frame
<1>2. CallsInv'
  <2>1. \A i \in 1..Current : calls[i].state # "waiting"
    BY <1>0 DEF IInv, CallsInv, Ends, Waiting
  <2> QED
    BY <1>0, <1>1, <2>1, CallsEnd DEF IInv
<1>3. /\ Executions' /\ Requests' /\ Replies'
      /\ \A k \in 1..Current :
          (\A m \in 1..Len(toHost) : toHost[m] # Noise => k <= toHost[m].to) =>
          (\A m \in 1..Len(toHost') : toHost'[m] # Noise => k <= toHost'[m].to)
  <2>1. \A n \in 1..Len(toDevice') : n + 0 \in 1..Len(toDevice) /\ toDevice'[n] = toDevice[n + 0]
    BY <1>0
  <2>2. \A m \in 1..Len(toHost') : FALSE
    BY <1>0
  <2> QED
    BY <1>0, <1>1, <2>1, <2>2, OnTheWay
<1>4. Returned'
  BY <1>0, <1>1, <1>3, NoneReturns
<1> QED
  BY <1>1, <1>2, <1>3, <1>4 DEF IInv

LEMMA AbandonKeeps ==
    ASSUME IInv, Abandon
    PROVE  IInv'
<1> DEFINE r == [calls[Current] EXCEPT !.state = "abandoned"]
<1>0. /\ Current \in Nat /\ Current \in 1..Current /\ session \in Nat
      /\ Len(toDevice) \in Nat /\ Len(<<>>) = 0 /\ toDevice \in Seq(1..Current)
      /\ session' = session /\ ~open' /\ toHost' = <<>> /\ Waiting
      /\ calls[Current] \in CallRecord /\ calls[Current].state = "waiting"
      /\ last' = last /\ executed' = executed /\ attempts' = attempts
      /\ calls' = [calls EXCEPT ![Current] = r]
  BY LinkTypes, EmptySeq DEF IInv, TypeOK, Abandon, Waiting
<1>r. /\ r \in CallRecord /\ r.session = calls[Current].session /\ r.seq = calls[Current].seq
      /\ r.answer = calls[Current].answer /\ r.state = "abandoned"
  BY <1>0 DEF CallRecord, CallState
<1> HIDE DEF r
<1>c. /\ calls' \in Seq(CallRecord) /\ Current' = Current
      /\ \A i \in 1..Current : calls'[i] = IF i = Current THEN r ELSE calls[i]
  BY <1>0, <1>r, OneCallChanges DEF IInv
<1>d. /\ toDevice' \in Seq(1..Current)
      /\ \A n \in 1..Len(toDevice') :
           \/ n + 0 \in 1..Len(toDevice) /\ toDevice'[n] = toDevice[n + 0]
           \/ n = Len(toDevice') /\ toDevice'[n] = Current'
  <2>1. CASE toDevice' = toDevice
    BY <1>0, <2>1
  <2>2. CASE toDevice' = Append(toDevice, Current)
    <3>1. /\ toDevice' \in Seq(1..Current) /\ Len(toDevice') = Len(toDevice) + 1
          /\ \A n \in 1..Len(toDevice) : toDevice'[n] = toDevice[n]
          /\ toDevice'[Len(toDevice) + 1] = Current
      BY <1>0, <2>2, AppendProperties
    <3> QED
      BY <1>0, <1>c, <3>1
  <2> QED
    BY <2>1, <2>2 DEF Abandon
<1>1. TypeOK'
  <2>1. toHost' \in Seq(Frame) /\ open' \in BOOLEAN
    BY <1>0, EmptySeq DEF Abandon
  <2> QED
    BY <1>0, <1>c, <1>d, <2>1 DEF IInv, TypeOK, CallRecord, CallState, Frame
<1>2. CallsInv'
  <2>1. \A i \in 1..Current : calls[i].state = "waiting" => i = Current
    BY DEF IInv, CallsInv, Ends
  <2>2. \A i \in 1..Current :
          /\ calls'[i].session = calls[i].session /\ calls'[i].seq = calls[i].seq
          /\ calls'[i].state # "waiting"
          /\ calls'[i].state = "abandoned" => i = Current \/ calls[i].state = "abandoned"
          /\ calls'[i].state = "failed" => calls[i].state = "failed"
    BY <1>r, <1>c, <2>1
  <2> QED
    BY <1>0, <1>1, <1>c, <2>2, CallsEnd DEF IInv
<1>3. /\ Executions' /\ Requests' /\ Replies'
      /\ \A k \in 1..Current :
          (\A m \in 1..Len(toHost) : toHost[m] # Noise => k <= toHost[m].to) =>
          (\A m \in 1..Len(toHost') : toHost'[m] # Noise => k <= toHost'[m].to)
  <2>1. \A m \in 1..Len(toHost') : FALSE
    BY <1>0
  <2>2. \A i \in 1..Current : calls'[i].session = calls[i].session
    BY <1>r, <1>c
  <2>3. UNCHANGED <<last, executed>> /\ Current <= Current' /\ 0 \in Nat
    BY <1>0, <1>c
  <2> QED
    BY <1>1, <1>d, <2>1, <2>2, <2>3, OnTheWay
<1>4. Returned'
  <2>1. \A i \in 1..Current :
          /\ calls'[i].answer = calls[i].answer
          /\ calls'[i].state = "returned" <=> calls[i].state = "returned"
    BY <1>0, <1>r, <1>c
  <2> QED
    BY <1>0, <1>1, <1>3, <1>c, <2>1, NoneReturns
<1> QED
  BY <1>1, <1>2, <1>3, <1>4 DEF IInv

\* The number after y, when y is d numbers after x.
LEMMA NumberAfter ==
    ASSUME NEW N \in Nat, NEW x \in 0..N-1, NEW y \in 0..N-1,
           NEW d \in Nat, d + 1 < N, y \in {x + d, x + d - N}
    PROVE  (IF y = N - 1 THEN 0 ELSE y + 1) \in {x + (d + 1), x + (d + 1) - N}
  OBVIOUS

\* The new call's number differs from those of the calls before it, since the
\* user has not given up.
LEMMA SendKeeps ==
    ASSUME IInv, NEW c \in Cmd, Send(c)
    PROVE  IInv'
<1> DEFINE r == [session |-> session, seq |-> NextSeq, cmd |-> c,
                 state |-> "waiting", answer |-> 0, clean |-> TRUE]
<1>0. /\ Current \in Nat /\ session \in Nat /\ SeqCount \in Nat /\ Len(toDevice) \in Nat
      /\ Len(toHost) \in Nat /\ MaxFailures \in Nat /\ Retries \in Nat \ {0} /\ MaxCalls \in Nat
      /\ toDevice \in Seq(1..Current) /\ calls \in Seq(CallRecord)
      /\ \A i \in 1..Current : calls[i].session \in Nat /\ calls[i].seq \in 0..SeqCount-1
      /\ open /\ open' = open /\ session' = session /\ toHost' = toHost
      /\ ~Waiting /\ ~GaveUp /\ Current < MaxCalls
      /\ last' = last /\ executed' = executed /\ attempts' = 1
  BY LinkTypes DEF IInv, TypeOK, Send
<1>a. calls' = Append(calls, r) /\ toDevice' = Append(toDevice, Current + 1)
  BY DEF Send
<1>n. /\ NextSeq \in 0..SeqCount-1
      /\ (\E i \in 1..Current : calls[i].session = session) =>
                /\ Current \in 1..Current /\ calls[Current].session = session
                /\ NextSeq = IF calls[Current].seq = SeqCount - 1 THEN 0
                             ELSE calls[Current].seq + 1
  BY NextSeqIs DEF IInv, CallsInv
<1>r. /\ r \in CallRecord /\ r.session = session /\ r.seq = NextSeq
      /\ r.answer = 0 /\ r.state = "waiting"
  BY <1>0, <1>n DEF CallRecord, CallState
<1> HIDE DEF r
<1>c. /\ calls' \in Seq(CallRecord) /\ Current' = Current + 1
      /\ \A i \in 1..Current : calls'[i] = calls[i]
      /\ calls'[Current + 1] = r
  BY <1>0, <1>a, <1>r, AppendProperties DEF Current
<1>i. /\ \A i \in 1..Current' : i \in 1..Current \/ i = Current + 1
      /\ \A i \in 1..Current : i \in 1..Current' /\ i \in Nat /\ i <= Current
  BY <1>0, <1>c
<1>d. /\ toDevice' \in Seq(1..Current')
      /\ \A n \in 1..Len(toDevice') :
           \/ n + 0 \in 1..Len(toDevice) /\ toDevice'[n] = toDevice[n + 0]
           \/ n = Len(toDevice') /\ toDevice'[n] = Current'
  <2>1. 1..Current \subseteq 1..Current' /\ Current + 1 \in 1..Current'
    BY <1>0, <1>c
  <2>2. toDevice \in Seq(1..Current')
    BY <1>0, <2>1, SeqMonotonic
  <2>3. /\ toDevice' \in Seq(1..Current') /\ Len(toDevice') = Len(toDevice) + 1
        /\ \A n \in 1..Len(toDevice) : toDevice'[n] = toDevice[n]
        /\ toDevice'[Len(toDevice) + 1] = Current + 1
    BY <1>0, <1>a, <2>1, <2>2, AppendProperties
  <2> QED
    BY <1>0, <1>c, <2>3
<1>1. TypeOK'
  <2>1. executed' \in Seq(1..Current')
    <3>1. executed \in Seq(1..Current) /\ 1..Current \subseteq 1..Current'
      BY <1>0, <1>c DEF IInv, TypeOK
    <3> QED
      BY <1>0, <3>1, SeqMonotonic
  <2>2. last' \in 0..Current' /\ attempts' \in 0..Retries /\ Current' <= MaxCalls
    BY <1>0, <1>c DEF IInv, TypeOK
  <2> QED
    BY <1>0, <1>c, <1>d, <2>1, <2>2 DEF IInv, TypeOK, CallRecord, CallState, Frame
<1>2. CallsInv'
  <2>1. InSession'
    <3>1. \A i \in 1..Current' : calls'[i].session <= session'
      <4> SUFFICES ASSUME NEW i \in 1..Current' PROVE calls'[i].session <= session'
        OBVIOUS
      <4>1. i \in 1..Current \/ i = Current + 1
        BY <1>0, <1>c
      <4>2. CASE i \in 1..Current
        BY <1>0, <1>c, <4>2 DEF IInv, CallsInv, InSession
      <4>3. CASE i = Current + 1
        BY <1>0, <1>c, <1>r, <4>3
      <4> QED
        BY <4>1, <4>2, <4>3
    <3>2. ASSUME NEW i \in 1..Current', NEW j \in 1..Current', i <= j
          PROVE  calls'[i].session <= calls'[j].session
      <4>1. CASE j = Current + 1
        BY <1>0, <1>c, <1>r, <3>1, <4>1
      <4>2. CASE i \in 1..Current /\ j \in 1..Current
        BY <1>c, <3>2, <4>2 DEF IInv, CallsInv, InSession
      <4> QED
        BY <1>0, <1>c, <3>2, <4>1, <4>2
    <3> QED
      BY <3>1, <3>2 DEF InSession
  <2>2. Ends'
    <3>1. ASSUME NEW i \in 1..Current
          PROVE  /\ calls'[i].state # "waiting"
                 /\ calls'[i].state = "abandoned" =>
                       /\ open' => calls'[i].session < session'
                       /\ \A j \in 1..Current' : i < j => calls'[i].session < calls'[j].session
      <4>1. calls[i].state # "waiting"
        BY <1>0 DEF IInv, CallsInv, Ends, Waiting
      <4>2. ASSUME calls[i].state = "abandoned", NEW j \in 1..Current', i < j
            PROVE  calls'[i].session < calls'[j].session
        <5>1. CASE j = Current + 1
          BY <1>0, <1>c, <1>r, <4>2, <5>1 DEF IInv, CallsInv, Ends
        <5>2. CASE j \in 1..Current
          BY <1>c, <4>2, <5>2 DEF IInv, CallsInv, Ends
        <5> QED
          BY <1>0, <1>c, <5>1, <5>2
      <4>3. calls[i].state = "abandoned" => calls[i].session < session
        BY <1>0 DEF IInv, CallsInv, Ends
      <4> QED
        BY <1>0, <1>c, <4>1, <4>2, <4>3
    <3>2. calls'[Current + 1].state = "waiting" /\ calls'[Current + 1].session = session'
      BY <1>0, <1>c, <1>r
    <3>3. \A i \in 1..Current' : i \in 1..Current \/ i = Current + 1
      BY <1>0, <1>c
    <3> QED
      BY <1>0, <1>c, <3>1, <3>2, <3>3 DEF Ends
  <2>3. Numbered'
    <3> SUFFICES ASSUME NEW i \in 1..Current', NEW j \in 1..Current', i < j,
                        calls'[i].session = calls'[j].session, j - i < SeqCount
                 PROVE  calls'[j].seq \in {calls'[i].seq + (j - i),
                                           calls'[i].seq + (j - i) - SeqCount}
      BY DEF Numbered
    <3>1. CASE j \in 1..Current
      <4>1. i \in 1..Current
        BY <1>0, <3>1
      <4> QED
        BY <1>c, <3>1, <4>1 DEF IInv, CallsInv, Numbered
    <3>2. CASE j = Current + 1
      <4>1. i \in 1..Current /\ calls[i].session = session
        <5>1. i \in 1..Current
          BY <1>0, <3>2
        <5> QED
          BY <1>0, <1>c, <1>r, <3>2, <5>1
      <4>2. /\ Current \in 1..Current /\ calls[Current].session = session
            /\ NextSeq = IF calls[Current].seq = SeqCount - 1 THEN 0
                         ELSE calls[Current].seq + 1
        BY <1>n, <4>1
      <4>3. i < Current => calls[Current].seq \in {calls[i].seq + (Current - i),
                                              calls[i].seq + (Current - i) - SeqCount}
        <5>1. Current - i < SeqCount
          BY <1>0, <3>2
        <5> QED
          BY <4>1, <4>2, <5>1 DEF IInv, CallsInv, Numbered
      <4>4. /\ calls[i].seq \in 0..SeqCount-1 /\ calls[Current].seq \in 0..SeqCount-1
            /\ i \in Nat /\ i <= Current
        BY <1>0, <4>1, <4>2
      <4>5. NextSeq \in {calls[i].seq + (Current + 1 - i), calls[i].seq + (Current + 1 - i) - SeqCount}
        <5>1. CASE i = Current
          BY <1>0, <4>2, <4>4, <5>1
        <5>2. CASE i < Current
          <6>1. Current - i \in Nat /\ (Current - i) + 1 < SeqCount
            BY <1>0, <3>2, <4>4
          <6>2. NextSeq \in {calls[i].seq + ((Current - i) + 1),
                             calls[i].seq + ((Current - i) + 1) - SeqCount}
            BY <1>0, <4>2, <4>3, <4>4, <5>2, <6>1, NumberAfter
          <6>3. (Current - i) + 1 = Current + 1 - i
            BY <1>0, <4>4
          <6> QED
            BY <6>2, <6>3
        <5> QED
          BY <1>0, <4>4, <5>1, <5>2
      <4>6. calls'[i].seq = calls[i].seq /\ calls'[j].seq = NextSeq
        BY <1>c, <1>r, <3>2, <4>1
      <4>7. j - i = Current + 1 - i
        BY <1>0, <3>2, <4>4
      <4> QED
        BY <4>5, <4>6, <4>7
    <3> QED
      BY <1>0, <1>c, <3>1, <3>2
  <2>4. Streaks'
    <3> SUFFICES ASSUME NEW i \in 1..Current', NEW j \in 1..Current', i < j,
                        calls'[i].session = calls'[j].session,
                        \A k \in i..(j-1) : calls'[k].state = "failed"
                 PROVE  j - i <= MaxFailures
      BY DEF Streaks
    <3>0. i \in 1..Current /\ \A k \in i..(j-1) : k \in 1..Current /\ calls[k].state = "failed"
      <4>1. i \in 1..Current /\ \A k \in i..(j-1) : k \in 1..Current
        BY <1>0, <1>c
      <4> QED
        BY <1>c, <4>1
    <3>1. CASE j \in 1..Current
      BY <1>c, <3>0, <3>1 DEF IInv, CallsInv, Streaks
    <3>2. CASE j = Current + 1
      <4>1. calls[i].session = session
        BY <1>0, <1>c, <1>r, <3>0, <3>2
      <4>2. ASSUME NEW k \in i..Current
            PROVE  calls[k].session = session /\ calls[k].state = "failed"
        <5>1. k \in i..(j-1) /\ k \in 1..Current /\ i <= k
          BY <1>0, <3>0, <3>2
        <5>2. calls[i].session <= calls[k].session /\ calls[k].session <= session
          BY <3>0, <5>1 DEF IInv, CallsInv, InSession
        <5> QED
          BY <1>0, <3>0, <4>1, <5>1, <5>2
      <4>3. ~(Current - i >= MaxFailures)
        BY <1>0, <3>0, <4>2 DEF GaveUp
      <4> QED
        BY <1>0, <3>0, <3>2, <4>3
    <3> QED
      BY <1>i, <3>1, <3>2
  <2> QED
    BY <2>1, <2>2, <2>3, <2>4 DEF CallsInv
<1>3. /\ Executions' /\ Requests' /\ Replies'
      /\ \A k \in 1..Current :
          (\A m \in 1..Len(toHost) : toHost[m] # Noise => k <= toHost[m].to) =>
          (\A m \in 1..Len(toHost') : toHost'[m] # Noise => k <= toHost'[m].to)
  <2>1. \A m \in 1..Len(toHost') : /\ m + 0 \in 1..Len(toHost) /\ toHost'[m] = toHost[m + 0]
                                  /\ session' = session
    BY <1>0
  <2>2. \A i \in 1..Current : calls'[i].session = calls[i].session
    BY <1>c
  <2>3. UNCHANGED <<last, executed>> /\ Current <= Current' /\ 0 \in Nat
    BY <1>0, <1>c
  <2> QED
    BY <1>1, <1>d, <2>1, <2>2, <2>3, OnTheWay
<1>4. Returned'
  <2>1. \A i \in 1..Current :
          /\ calls'[i].answer = calls[i].answer
          /\ calls'[i].state = "returned" <=> calls[i].state = "returned"
    BY <1>c
  <2>2. \A i \in 1..Current' :
          i > Current => calls'[i].state # "returned" /\ calls'[i].answer = 0
    BY <1>0, <1>r, <1>c
  <2>3. UNCHANGED executed /\ Current <= Current'
    BY <1>0, <1>c
  <2> QED
    BY <1>1, <1>3, <2>1, <2>2, <2>3, NoneReturns
<1> QED
  BY <1>1, <1>2, <1>3, <1>4 DEF IInv

\* An attempt without an answer, whatever was read meanwhile.
LEMMA AttemptKeeps ==
    ASSUME IInv, open, Waiting, NEW clean \in BOOLEAN, NextAttempt(clean),
           UNCHANGED <<session, open, last, executed>>, toHost' \in Seq(Frame),
           NEW d \in Nat,
           \A m \in 1..Len(toHost') : m + d \in 1..Len(toHost) /\ toHost'[m] = toHost[m + d]
    PROVE  IInv'
<1>0. /\ Current \in Nat /\ session \in Nat /\ Len(toDevice) \in Nat
  BY LinkTypes DEF IInv
<1>c. /\ calls' \in Seq(CallRecord) /\ Current' = Current /\ Current \in 1..Current
      /\ attempts' \in 0..Retries
      /\ \A i \in 1..Current :
           /\ calls'[i].session = calls[i].session /\ calls'[i].seq = calls[i].seq
           /\ calls'[i].answer = calls[i].answer
           /\ \/ calls'[i].state = calls[i].state
              \/ i = Current /\ calls'[i].state = "failed"
      /\ toDevice' \in Seq(1..Current)
      /\ \A n \in 1..Len(toDevice') :
           \/ n \in 1..Len(toDevice) /\ toDevice'[n] = toDevice[n]
           \/ n = Len(toDevice') /\ toDevice'[n] = Current
  BY NextAttemptDoes DEF IInv
<1>w. calls[Current].state = "waiting"
  BY DEF Waiting
<1>1. TypeOK'
  BY <1>c DEF IInv, TypeOK, CallRecord, CallState, Frame
<1>2. CallsInv'
  <2>1. \A i \in 1..Current :
          /\ calls'[i].session = calls[i].session /\ calls'[i].seq = calls[i].seq
          /\ calls'[i].state = "waiting" => calls[i].state = "waiting"
          /\ calls'[i].state = "abandoned" => calls[i].state = "abandoned"
          /\ calls'[i].state = "failed" => calls[i].state = "failed" \/ i = Current
    BY <1>c
  <2> QED
    BY <1>0, <1>1, <1>c, <2>1, CallsEnd DEF IInv
<1>3. /\ Executions' /\ Requests' /\ Replies'
      /\ \A k \in 1..Current :
          (\A m \in 1..Len(toHost) : toHost[m] # Noise => k <= toHost[m].to) =>
          (\A m \in 1..Len(toHost') : toHost'[m] # Noise => k <= toHost'[m].to)
  <2>1. \A n \in 1..Len(toDevice') :
           \/ n + 0 \in 1..Len(toDevice) /\ toDevice'[n] = toDevice[n + 0]
           \/ n = Len(toDevice') /\ toDevice'[n] = Current'
    <3> SUFFICES ASSUME NEW n \in 1..Len(toDevice')
                 PROVE  \/ n + 0 \in 1..Len(toDevice) /\ toDevice'[n] = toDevice[n + 0]
                        \/ n = Len(toDevice') /\ toDevice'[n] = Current'
      OBVIOUS
    <3>1. n \in 1..Len(toDevice) => n + 0 = n
      BY <1>0
    <3> QED
      BY <1>c, <3>1
  <2>2. \A i \in 1..Current : calls'[i].session = calls[i].session
    BY <1>c
  <2>3. Current <= Current' /\ 0 \in Nat
    BY <1>0, <1>c
  <2> QED
    BY <1>1, <2>1, <2>2, <2>3, OnTheWay
<1>4. Returned'
  <2>1. \A i \in 1..Current :
          /\ calls'[i].answer = calls[i].answer
          /\ calls'[i].state = "returned" <=> calls[i].state = "returned"
    BY <1>c, <1>w
  <2>2. /\ Current <= Current' /\ \A i \in 1..Current' : ~(i > Current)
    BY <1>0, <1>c
  <2> QED
    BY <1>1, <1>3, <2>1, <2>2, NoneReturns
<1> QED
  BY <1>1, <1>2, <1>3, <1>4 DEF IInv

LEMMA TimeoutKeeps ==
    ASSUME IInv, Timeout
    PROVE  IInv'
<1>1. /\ open /\ Waiting /\ NextAttempt(FALSE) /\ FALSE \in BOOLEAN
      /\ UNCHANGED <<session, open, last, executed>> /\ toHost' = toHost
  BY DEF Timeout
<1>2. toHost' \in Seq(Frame) /\ Len(toHost) \in Nat
  BY <1>1, LinkTypes DEF IInv, TypeOK
<1>3. \A m \in 1..Len(toHost') : m + 0 \in 1..Len(toHost) /\ toHost'[m] = toHost[m + 0]
  BY <1>1, <1>2
<1> QED
  BY <1>1, <1>2, <1>3, AttemptKeeps

\* The call that returns has its own answer, and what is left to read is not
\* of a call before it.
LEMMA ReturnKeeps ==
    ASSUME IInv, open, Waiting, toHost # <<>>, Head(toHost) # Noise, Matches(Head(toHost)),
           calls' = [calls EXCEPT ![Current].state = "returned",
                                  ![Current].answer = Head(toHost).of],
           UNCHANGED <<session, open, attempts, toDevice, last, executed>>,
           toHost' \in Seq(Frame), NEW d \in Nat,
           \A m \in 1..Len(toHost') : m + d \in 1..Len(toHost) /\ toHost'[m] = toHost[m + d]
    PROVE  /\ IInv' /\ Current \in 1..Current /\ Current' = Current
           /\ \A i \in 1..Current :
                calls'[i].answer = IF i = Current THEN Current ELSE calls[i].answer
           /\ calls[Current].answer = 0 /\ Done(Current)
<1> DEFINE r == [calls[Current] EXCEPT !.state = "returned", !.answer = Current]
<1>0. /\ Current \in Nat /\ session \in Nat /\ Len(toDevice) \in Nat /\ Len(toHost) \in Nat
      /\ Current \in 1..Current /\ calls[Current] \in CallRecord
      /\ calls[Current].state = "waiting" /\ toHost \in Seq(Frame)
      /\ \A m \in 1..Len(toHost) : toHost[m].to \in Nat
  <2>1. /\ Current \in Nat /\ session \in Nat /\ Len(toDevice) \in Nat /\ Len(toHost) \in Nat
        /\ \A i \in 1..Current : calls[i] \in CallRecord
        /\ \A m \in 1..Len(toHost) : toHost[m] \in Frame
        /\ toHost \in Seq(Frame)
    BY LinkTypes DEF IInv, TypeOK
  <2>2. Current \in 1..Current /\ calls[Current].state = "waiting"
    BY <2>1 DEF Waiting
  <2>3. \A f \in Frame : f.to \in Nat
    BY DEF Frame
  <2> QED
    BY <2>1, <2>2, <2>3
<1>h. 1 \in 1..Len(toHost) /\ Head(toHost) = toHost[1]
  BY <1>0, EmptySeq
<1>o. /\ toHost[1].to = Current /\ toHost[1].of = Current /\ Done(Current)
  BY <1>h, MatchesItsOwn DEF IInv, Replies
<1>r. /\ r \in CallRecord /\ r.session = calls[Current].session /\ r.seq = calls[Current].seq
      /\ r.answer = Current /\ r.state = "returned"
  BY <1>0 DEF CallRecord, CallState
<1>e. calls' = [calls EXCEPT ![Current] = r]
  BY <1>h, <1>o
<1> HIDE DEF r
<1>c. /\ calls' \in Seq(CallRecord) /\ Current' = Current
      /\ \A i \in 1..Current : calls'[i] = IF i = Current THEN r ELSE calls[i]
  BY <1>e, <1>r, OneCallChanges DEF IInv
<1>1. TypeOK'
  BY <1>c DEF IInv, TypeOK, CallRecord, CallState, Frame
<1>2. CallsInv'
  <2>1. \A i \in 1..Current :
          /\ calls'[i].session = calls[i].session /\ calls'[i].seq = calls[i].seq
          /\ calls'[i].state = "waiting" => calls[i].state = "waiting"
          /\ calls'[i].state = "abandoned" => calls[i].state = "abandoned"
          /\ calls'[i].state = "failed" => calls[i].state = "failed"
    BY <1>c, <1>r
  <2> QED
    BY <1>0, <1>1, <1>c, <2>1, CallsEnd DEF IInv
<1>3. /\ Executions' /\ Requests' /\ Replies'
      /\ \A k \in 1..Current :
          (\A m \in 1..Len(toHost) : toHost[m] # Noise => k <= toHost[m].to) =>
          (\A m \in 1..Len(toHost') : toHost'[m] # Noise => k <= toHost'[m].to)
  <2>1. \A n \in 1..Len(toDevice') : n + 0 \in 1..Len(toDevice) /\ toDevice'[n] = toDevice[n + 0]
    BY <1>0
  <2>2. \A i \in 1..Current : calls'[i].session = calls[i].session
    BY <1>c, <1>r
  <2>3. Current <= Current' /\ 0 \in Nat
    BY <1>0, <1>c
  <2> QED
    BY <1>1, <2>1, <2>2, <2>3, OnTheWay
<1>4. Returned'
  <2>1. \A m \in 1..Len(toHost) : toHost[m] # Noise => Current <= toHost[m].to
    <3> SUFFICES ASSUME NEW m \in 1..Len(toHost), toHost[m] # Noise
                 PROVE  Current <= toHost[m].to
      OBVIOUS
    <3>1. 1 <= m /\ toHost[1] # Noise
      BY <1>0, <1>h
    <3> QED
      BY <1>h, <1>o, <3>1 DEF IInv, Replies
  <2>2. Noise' = Noise /\ \A k : Done(k)' <=> Done(k)
    BY DEF Noise, Done
  <2>3. ASSUME NEW k \in 1..Current
        PROVE  IF calls'[k].state = "returned"
               THEN /\ calls'[k].answer = k /\ Done(k)
                    /\ \A m \in 1..Len(toHost') : toHost'[m] # Noise => k <= toHost'[m].to
               ELSE calls'[k].answer = 0
    <3>1. CASE k = Current
      BY <1>3, <1>c, <1>o, <1>r, <2>1, <3>1
    <3>2. CASE k # Current
      BY <1>3, <1>c, <3>2 DEF IInv, Returned
    <3> QED
      BY <3>1, <3>2
  <2> QED
    BY <1>c, <2>2, <2>3 DEF Returned
<1>5. /\ \A i \in 1..Current :
           calls'[i].answer = IF i = Current THEN Current ELSE calls[i].answer
      /\ calls[Current].answer = 0
  <2>1. calls[Current].answer = 0
    BY <1>0 DEF IInv, Returned
  <2>2. ASSUME NEW i \in 1..Current
        PROVE  calls'[i].answer = IF i = Current THEN Current ELSE calls[i].answer
    <3>1. CASE i = Current
      <4>1. calls'[i] = r
        BY <1>c, <3>1
      <4>2. calls'[i].answer = Current
        BY <1>r, <4>1
      <4> QED
        BY <3>1, <4>2
    <3>2. CASE i # Current
      BY <1>c, <3>2
    <3> QED
      BY <3>1, <3>2
  <2> QED
    BY <2>1, <2>2
<1> QED
  BY <1>0, <1>c, <1>o, <1>1, <1>2, <1>3, <1>4, <1>5 DEF IInv

\* One frame is read: an attempt without an answer, or the call returns.
LEMMA ReceiveDoes ==
    ASSUME IInv, Receive
    PROVE  /\ IInv' /\ Current' = Current /\ executed' = executed
           /\ \/ \A i \in 1..Current : calls'[i].answer = calls[i].answer
              \/ /\ Current \in 1..Current /\ calls[Current].answer = 0 /\ Done(Current)
                 /\ \A i \in 1..Current :
                      calls'[i].answer = IF i = Current THEN Current ELSE calls[i].answer
<1>0. /\ open /\ Waiting /\ toHost # <<>> /\ executed' = executed
      /\ UNCHANGED <<session, open, last, executed>>
  BY DEF Receive
<1>1. PICK d \in 1..Len(toHost) : toHost' = SubSeq(toHost, d + 1, Len(toHost))
  BY DEF Receive
<1>2. /\ d \in Nat /\ toHost' \in Seq(Frame)
      /\ \A m \in 1..Len(toHost') : m + d \in 1..Len(toHost) /\ toHost'[m] = toHost[m + d]
  <2>1. /\ Len(toHost) \in Nat /\ \A m \in 1..Len(toHost) : toHost[m] \in Frame
    BY LinkTypes DEF IInv
  <2>2. d + 1 \in Int /\ Len(toHost) \in Int /\ \A m \in (d+1)..Len(toHost) : toHost[m] \in Frame
    BY <2>1
  <2>3. /\ toHost' \in Seq(Frame)
        /\ Len(toHost') = IF d + 1 <= Len(toHost) THEN Len(toHost) - (d + 1) + 1 ELSE 0
        /\ \A m \in 1..(Len(toHost) - (d + 1) + 1) : toHost'[m] = toHost[(d + 1) + m - 1]
    BY <1>1, <2>2, SubSeqProperties
  <2> QED
    BY <2>1, <2>3
<1>3. ASSUME NEW clean \in BOOLEAN, NextAttempt(clean)
      PROVE  /\ IInv' /\ Current' = Current
             /\ \A i \in 1..Current : calls'[i].answer = calls[i].answer
  <2>1. IInv'
    BY <1>0, <1>2, <1>3, AttemptKeeps
  <2> QED
    BY <1>0, <1>3, <2>1, NextAttemptDoes DEF IInv
<1>4. CASE Head(toHost) # Noise /\ Matches(Head(toHost))
           /\ calls' = [calls EXCEPT ![Current].state = "returned",
                                     ![Current].answer = Head(toHost).of]
           /\ UNCHANGED <<attempts, toDevice>>
  <2>1. UNCHANGED <<session, open, attempts, toDevice, last, executed>>
    BY <1>0, <1>4
  <2> QED
    BY <1>0, <1>2, <1>4, <2>1, ReturnKeeps
<1>5. CASE NextAttempt(calls[Current].clean)
  <2>1. calls[Current].clean \in BOOLEAN
    BY <1>0, LinkTypes DEF IInv, Waiting, CallRecord
  <2> QED
    BY <1>0, <1>3, <1>5, <2>1
<1>6. CASE NextAttempt(FALSE)
  BY <1>0, <1>3, <1>6
<1> QED
  BY <1>4, <1>5, <1>6 DEF Receive

\* The device executes the next request, or repeats the answer of its own
\* earlier execution.
LEMMA HandleDoes ==
    ASSUME IInv, Handle
    PROVE  /\ IInv' /\ calls' = calls
           /\ \/ executed' = executed
              \/ \E i \in 1..Current :
                   /\ executed' = Append(executed, i)
                   /\ \A n \in 1..Len(executed) : executed[n] < i
<1>0. /\ Current \in Nat /\ session \in Nat /\ last \in Nat /\ Len(toDevice) \in Nat
      /\ Len(toHost) \in Nat /\ Len(executed) \in Nat
      /\ toDevice # <<>> /\ toDevice' = Tail(toDevice)
      /\ toDevice \in Seq(1..Current) /\ toHost \in Seq(Frame) /\ executed \in Seq(1..Current)
      /\ \A n \in 1..Len(executed) : executed[n] \in 1..Current
      /\ \A n \in 1..Len(toDevice) : toDevice[n] \in 1..Current
      /\ session' = session /\ open' = open /\ calls' = calls /\ attempts' = attempts
      /\ Current' = Current
  BY LinkTypes DEF IInv, TypeOK, Handle, Current
<1>i. PICK i \in 1..Current : i = Head(toDevice)
  BY <1>0, EmptySeq
<1> DEFINE f == [to |-> i, of |-> i]
<1>h. /\ 1 \in 1..Len(toDevice) /\ i = toDevice[1] /\ i \in 1..Current /\ last <= i
      /\ toDevice' \in Seq(1..Current) /\ Len(toDevice') = Len(toDevice) - 1
      /\ \A n \in 1..Len(toDevice') : toDevice'[n] = toDevice[n + 1]
  <2>1. 1 \in 1..Len(toDevice) /\ i = toDevice[1]
    BY <1>0, <1>i, EmptySeq
  <2>2. /\ toDevice' \in Seq(1..Current) /\ Len(toDevice') = Len(toDevice) - 1
        /\ \A n \in 1..Len(toDevice') : toDevice'[n] = toDevice[n + 1]
    BY <1>0, HeadTailProperties
  <2> QED
    BY <1>0, <2>1, <2>2 DEF IInv, Requests
<1>f. f \in Frame /\ f # Noise /\ f.to = i /\ f.of = i
  BY <1>0, <1>h DEF Frame, Noise
<1>e. /\ last' = i
      /\ \/ executed' = executed /\ last = i
         \/ executed' = Append(executed, i) /\ last < i
      /\ toHost' = IF open /\ calls[i].session = session THEN Append(toHost, f) ELSE toHost
  <2>1. CASE Repeats(i)
    <3>1. last = i
      BY <1>0, <1>i, <2>1, RepeatsItself
    <3> QED
      BY <1>i, <2>1, <3>1 DEF Handle, Reply
  <2>2. CASE ~Repeats(i)
    <3>1. last # i
      BY <1>h, <2>2 DEF Repeats
    <3> QED
      BY <1>0, <1>i, <1>h, <2>2, <3>1 DEF Handle, Reply
  <2> QED
    BY <2>1, <2>2
<1> HIDE DEF f
<1>x. /\ executed' \in Seq(1..Current) /\ Done(i)' /\ \A k : Done(k) => Done(k)'
      /\ \A n \in 1..Len(executed') : executed'[n] <= i
      /\ \A m, n \in 1..Len(executed') : m < n => executed'[m] < executed'[n]
      /\ last < i => \A n \in 1..Len(executed) : executed[n] < i
  <2>1. \A n \in 1..Len(executed) : executed[n] <= last /\ executed[n] \in Nat
    BY <1>0 DEF IInv, Executions
  <2>2. CASE executed' = executed /\ last = i
    <3>1. Done(last)
      BY <1>h, <2>2 DEF IInv, Executions
    <3>2. Done(i)' /\ \A k : Done(k) => Done(k)'
      BY <2>2, <3>1 DEF Done
    <3>3. \A m, n \in 1..Len(executed') : m < n => executed'[m] < executed'[n]
      BY <2>2 DEF IInv, Executions
    <3> QED
      BY <1>0, <1>h, <2>1, <2>2, <3>2, <3>3
  <2>3. CASE executed' = Append(executed, i) /\ last < i
    <3>1. /\ executed' \in Seq(1..Current) /\ Len(executed') = Len(executed) + 1
          /\ \A n \in 1..Len(executed) : executed'[n] = executed[n]
          /\ executed'[Len(executed) + 1] = i
      BY <1>0, <1>h, <2>3, AppendProperties
    <3>2. \A n \in 1..Len(executed) : executed[n] < i
      BY <1>0, <1>h, <2>1, <2>3
    <3>3. /\ \A n \in 1..Len(executed') : n \in 1..Len(executed) \/ n = Len(executed) + 1
          /\ \A n \in 1..Len(executed) : n \in 1..Len(executed') /\ n < Len(executed) + 1
          /\ Len(executed) + 1 \in 1..Len(executed')
      BY <1>0, <3>1
    <3>4. \A n \in 1..Len(executed') : executed'[n] <= i
      <4> SUFFICES ASSUME NEW n \in 1..Len(executed') PROVE executed'[n] <= i
        OBVIOUS
      <4>1. CASE n \in 1..Len(executed)
        <5>1. executed[n] \in Nat /\ i \in Nat /\ executed[n] < i
          BY <1>0, <2>1, <3>2, <4>1
        <5> QED
          BY <3>1, <4>1, <5>1
      <4>2. CASE n = Len(executed) + 1
        BY <1>0, <1>h, <3>1, <4>2
      <4> QED
        BY <3>3, <4>1, <4>2
    <3>5. ASSUME NEW m \in 1..Len(executed'), NEW n \in 1..Len(executed'), m < n
          PROVE  executed'[m] < executed'[n]
      <4>1. m \in 1..Len(executed)
        BY <1>0, <3>1, <3>5
      <4>2. CASE n \in 1..Len(executed)
        BY <3>1, <3>5, <4>1, <4>2 DEF IInv, Executions
      <4>3. CASE n = Len(executed) + 1
        BY <3>1, <3>2, <4>1, <4>3
      <4> QED
        BY <3>3, <4>2, <4>3
    <3>6. Done(i)' /\ \A k : Done(k) => Done(k)'
      BY <3>1, <3>3 DEF Done
    <3> QED
      BY <3>1, <3>2, <3>4, <3>5, <3>6
  <2> QED
    BY <1>e, <2>2, <2>3
<1>t. /\ toHost' \in Seq(Frame)
      /\ \A m \in 1..Len(toHost') :
           \/ m \in 1..Len(toHost) /\ toHost'[m] = toHost[m]
           \/ m = Len(toHost') /\ toHost'[m] = f /\ calls[i].session = session
  <2>1. CASE toHost' = toHost
    BY <1>0, <2>1
  <2>2. CASE toHost' = Append(toHost, f) /\ calls[i].session = session
    <3>1. /\ toHost' \in Seq(Frame) /\ Len(toHost') = Len(toHost) + 1
          /\ \A m \in 1..Len(toHost) : toHost'[m] = toHost[m]
          /\ toHost'[Len(toHost) + 1] = f
      BY <1>0, <1>f, <2>2, AppendProperties
    <3> QED
      BY <1>0, <2>2, <3>1
  <2> QED
    BY <1>e, <2>1, <2>2
<1>1. TypeOK'
  BY <1>0, <1>h, <1>e, <1>x, <1>t DEF IInv, TypeOK, CallRecord, CallState, Frame
<1>2. CallsInv'
  BY <1>0 DEF IInv, CallsInv, InSession, Ends, Numbered, Streaks
<1>3. Executions'
  BY <1>e, <1>x DEF Executions
<1>4. Requests'
  <2>1. \A n \in 1..Len(toDevice') : n + 1 \in 1..Len(toDevice)
    BY <1>0, <1>h
  <2>2. ASSUME NEW m \in 1..Len(toDevice'), NEW n \in 1..Len(toDevice'), m <= n
        PROVE  toDevice'[m] <= toDevice'[n]
    <3>1. m + 1 <= n + 1
      BY <1>0, <1>h, <2>2
    <3> QED
      BY <1>h, <2>1, <3>1 DEF IInv, Requests
  <2>3. ASSUME NEW n \in 1..Len(toDevice')
        PROVE  i <= toDevice'[n]
    <3>1. 1 <= n + 1
      BY <1>0, <1>h
    <3> QED
      BY <1>h, <2>1, <3>1 DEF IInv, Requests
  <2> QED
    BY <1>e, <2>2, <2>3 DEF Requests
<1>5. Replies'
  <2>1. Noise' = Noise
    BY DEF Noise
  <2>2. \A m \in 1..Len(toHost) : toHost[m] # Noise => toHost[m].to \in 1..Current /\ toHost[m].to <= i
    BY <1>0, <1>h DEF IInv, Replies
  <2>3. ASSUME NEW m \in 1..Len(toHost'), toHost'[m] # Noise
        PROVE  /\ toHost'[m].to \in 1..Current /\ toHost'[m].to <= i
               /\ toHost'[m].of = toHost'[m].to
               /\ \E n \in 1..Len(executed') : executed'[n] = toHost'[m].to
               /\ calls[toHost'[m].to].session = session
    <3>1. CASE m \in 1..Len(toHost) /\ toHost'[m] = toHost[m]
      <4>1. /\ toHost[m].of = toHost[m].to /\ Done(toHost[m].to)
            /\ calls[toHost[m].to].session = session
        BY <2>3, <3>1 DEF IInv, Replies
      <4>2. \E n \in 1..Len(executed') : executed'[n] = toHost[m].to
        BY <1>x, <4>1 DEF Done
      <4> QED
        BY <2>2, <2>3, <3>1, <4>1, <4>2
    <3>2. CASE toHost'[m] = f /\ calls[i].session = session
      <4>1. \E n \in 1..Len(executed') : executed'[n] = i
        BY <1>x DEF Done
      <4> QED
        BY <1>0, <1>f, <1>h, <3>2, <4>1
    <3> QED
      BY <1>t, <3>1, <3>2
  <2>4. ASSUME NEW m \in 1..Len(toHost'), NEW n \in 1..Len(toHost'), m <= n,
               toHost'[m] # Noise, toHost'[n] # Noise
        PROVE  toHost'[m].to <= toHost'[n].to
    <3>1. CASE toHost'[n] = f
      BY <1>f, <2>3, <2>4, <3>1
    <3>2. CASE n \in 1..Len(toHost) /\ toHost'[n] = toHost[n] /\ toHost'[n] # f
      <4>1. m \in 1..Len(toHost)
        BY <1>0, <2>4, <3>2
      <4>2. toHost'[m] = toHost[m]
        <5>1. CASE m = Len(toHost')
          <6>1. m = n
            BY <1>0, <1>t, <2>4, <3>2, <5>1, LenProperties
          <6> QED
            BY <3>2, <6>1
        <5>2. CASE m # Len(toHost')
          BY <1>t, <5>2
        <5> QED
          BY <5>1, <5>2
      <4> QED
        BY <2>4, <3>2, <4>1, <4>2 DEF IInv, Replies
    <3> QED
      BY <1>t, <3>1, <3>2
  <2> QED
    BY <1>0, <1>e, <2>1, <2>3, <2>4 DEF Replies, Done
<1>6. Returned'
  <2>1. Noise' = Noise
    BY DEF Noise
  <2>2. ASSUME NEW k \in 1..Current, calls[k].state = "returned"
        PROVE  /\ calls[k].answer = k /\ Done(k)'
               /\ \A m \in 1..Len(toHost') : toHost'[m] # Noise => k <= toHost'[m].to
    <3>1. /\ calls[k].answer = k /\ Done(k)
          /\ \A m \in 1..Len(toHost) : toHost[m] # Noise => k <= toHost[m].to
      BY <2>2 DEF IInv, Returned
    <3>2. k <= i
      <4>1. k <= last
        BY <3>1 DEF Done, IInv, Executions
      <4> QED
        BY <1>0, <1>h, <4>1
    <3>3. ASSUME NEW m \in 1..Len(toHost'), toHost'[m] # Noise
          PROVE  k <= toHost'[m].to
      BY <1>f, <1>t, <3>1, <3>2, <3>3
    <3> QED
      BY <1>x, <3>1, <3>3
  <2>3. ASSUME NEW k \in 1..Current, calls[k].state # "returned"
        PROVE  calls[k].answer = 0
    BY <2>3 DEF IInv, Returned
  <2> QED
    BY <1>0, <2>1, <2>2, <2>3 DEF Returned
<1>7. \/ executed' = executed
      \/ \E j \in 1..Current :
           /\ executed' = Append(executed, j)
           /\ \A n \in 1..Len(executed) : executed[n] < j
  BY <1>e, <1>h, <1>x
<1> QED
  BY <1>0, <1>1, <1>2, <1>3, <1>4, <1>5, <1>6, <1>7 DEF IInv

\* A request is lost, or only noise comes back for it.
LEMMA LoseRequestKeeps ==
    ASSUME IInv, LoseRequest
    PROVE  IInv'
<1>0. /\ Current \in Nat /\ session \in Nat /\ Len(toDevice) \in Nat /\ Len(toHost) \in Nat
      /\ toDevice # <<>> /\ toDevice' = Tail(toDevice)
      /\ toDevice \in Seq(1..Current) /\ toHost \in Seq(Frame)
      /\ session' = session /\ open' = open /\ calls' = calls /\ attempts' = attempts
      /\ last' = last /\ executed' = executed /\ Current' = Current
  BY LinkTypes DEF IInv, TypeOK, LoseRequest, Current
<1>d. /\ toDevice' \in Seq(1..Current) /\ Len(toDevice') = Len(toDevice) - 1
      /\ \A n \in 1..Len(toDevice') : toDevice'[n] = toDevice[n + 1]
  BY <1>0, HeadTailProperties
<1>t. /\ toHost' \in Seq(Frame)
      /\ \A m \in 1..Len(toHost') :
           \/ toHost'[m] = Noise
           \/ m + 0 \in 1..Len(toHost) /\ toHost'[m] = toHost[m + 0]
  <2>1. CASE toHost' = toHost
    BY <1>0, <2>1
  <2>2. CASE toHost' = Append(toHost, Noise)
    <3>1. Noise \in Frame
      BY DEF Noise, Frame
    <3>2. /\ toHost' \in Seq(Frame) /\ Len(toHost') = Len(toHost) + 1
          /\ \A m \in 1..Len(toHost) : toHost'[m] = toHost[m]
          /\ toHost'[Len(toHost) + 1] = Noise
      BY <1>0, <2>2, <3>1, AppendProperties
    <3>3. \A m \in 1..Len(toHost') :
            \/ m = Len(toHost) + 1
            \/ m \in 1..Len(toHost) /\ m + 0 \in 1..Len(toHost) /\ m + 0 = m
      BY <1>0, <3>2
    <3> QED
      BY <3>2, <3>3
  <2> QED
    BY <2>1, <2>2 DEF LoseRequest, Reply
<1>1. TypeOK'
  BY <1>0, <1>d, <1>t DEF IInv, TypeOK, CallRecord, CallState, Frame
<1>2. CallsInv'
  BY <1>0 DEF IInv, CallsInv, InSession, Ends, Numbered, Streaks
<1>3. /\ Executions' /\ Requests' /\ Replies'
      /\ \A k \in 1..Current :
          (\A m \in 1..Len(toHost) : toHost[m] # Noise => k <= toHost[m].to) =>
          (\A m \in 1..Len(toHost') : toHost'[m] # Noise => k <= toHost'[m].to)
  <2>1. \A n \in 1..Len(toDevice') : n + 1 \in 1..Len(toDevice) /\ toDevice'[n] = toDevice[n + 1]
    BY <1>0, <1>d
  <2>2. /\ UNCHANGED <<last, executed>> /\ Current <= Current' /\ 0 \in Nat /\ 1 \in Nat
        /\ \A i \in 1..Current : calls'[i].session = calls[i].session
    BY <1>0
  <2> QED
    BY <1>0, <1>1, <1>t, <2>1, <2>2, OnTheWay
<1>4. Returned'
  BY <1>0, <1>1, <1>3, NoneReturns
<1> QED
  BY <1>1, <1>2, <1>3, <1>4 DEF IInv

\* An answer is lost or damaged on its way.
LEMMA LoseAnswerKeeps ==
    ASSUME IInv, LoseAnswer
    PROVE  IInv'
<1>0. /\ Current \in Nat /\ session \in Nat /\ Len(toDevice) \in Nat /\ Len(toHost) \in Nat
      /\ toHost # <<>> /\ toHost \in Seq(Frame) /\ toDevice' = toDevice
      /\ session' = session /\ open' = open /\ calls' = calls /\ attempts' = attempts
      /\ last' = last /\ executed' = executed /\ Current' = Current
  BY LinkTypes DEF IInv, TypeOK, LoseAnswer, Current
<1>h. /\ Tail(toHost) \in Seq(Frame) /\ Len(Tail(toHost)) = Len(toHost) - 1
      /\ \A m \in 1..Len(Tail(toHost)) : Tail(toHost)[m] = toHost[m + 1]
  BY <1>0, HeadTailProperties
<1>t. /\ toHost' \in Seq(Frame)
      /\ \E d \in {0, 1} : \A m \in 1..Len(toHost') :
           \/ toHost'[m] = Noise
           \/ m + d \in 1..Len(toHost) /\ toHost'[m] = toHost[m + d]
  <2>1. CASE toHost' = Tail(toHost)
    <3>1. \A m \in 1..Len(toHost') : m + 1 \in 1..Len(toHost) /\ toHost'[m] = toHost[m + 1]
      BY <1>0, <1>h, <2>1
    <3> QED
      BY <1>h, <2>1, <3>1
  <2>2. CASE toHost' = <<Noise>> \o Tail(toHost)
    <3>1. /\ Noise \in Frame /\ <<Noise>> \in Seq(Frame) /\ Len(<<Noise>>) = 1
          /\ <<Noise>>[1] = Noise
      BY DEF Noise, Frame
    <3>2. /\ toHost' \in Seq(Frame) /\ Len(toHost') = 1 + Len(Tail(toHost))
          /\ \A m \in 1..1 + Len(Tail(toHost)) :
               toHost'[m] = IF m <= 1 THEN <<Noise>>[m] ELSE Tail(toHost)[m - 1]
      BY <1>h, <2>2, <3>1, ConcatProperties
    <3>3. \A m \in 1..Len(toHost') :
           \/ toHost'[m] = Noise
           \/ m + 0 \in 1..Len(toHost) /\ toHost'[m] = toHost[m + 0]
      <4> SUFFICES ASSUME NEW m \in 1..Len(toHost')
                   PROVE  \/ toHost'[m] = Noise
                          \/ m + 0 \in 1..Len(toHost) /\ toHost'[m] = toHost[m + 0]
        OBVIOUS
      <4>0. m \in 1..1 + Len(Tail(toHost)) /\ m \in Nat
        BY <1>0, <1>h, <3>2
      <4>1. CASE m = 1
        BY <3>1, <3>2, <4>0, <4>1
      <4>2. CASE m # 1
        <5>1. m - 1 \in 1..Len(Tail(toHost)) /\ m \in 1..Len(toHost) /\ ~(m <= 1)
          BY <1>0, <1>h, <4>0, <4>2
        <5>2. toHost'[m] = toHost[(m - 1) + 1]
          BY <1>h, <3>2, <4>0, <5>1
        <5> QED
          BY <4>0, <5>1, <5>2
      <4> QED
        BY <4>1, <4>2
    <3> QED
      BY <3>2, <3>3
  <2> QED
    BY <2>1, <2>2 DEF LoseAnswer
<1>1. TypeOK'
  BY <1>0, <1>t DEF IInv, TypeOK, CallRecord, CallState, Frame
<1>2. CallsInv'
  BY <1>0 DEF IInv, CallsInv, InSession, Ends, Numbered, Streaks
<1>3. /\ Executions' /\ Requests' /\ Replies'
      /\ \A k \in 1..Current :
          (\A m \in 1..Len(toHost) : toHost[m] # Noise => k <= toHost[m].to) =>
          (\A m \in 1..Len(toHost') : toHost'[m] # Noise => k <= toHost'[m].to)
  <2>1. PICK d \in {0, 1} : \A m \in 1..Len(toHost') :
           \/ toHost'[m] = Noise
           \/ m + d \in 1..Len(toHost) /\ toHost'[m] = toHost[m + d]
    BY <1>t
  <2>2. /\ UNCHANGED <<last, executed>> /\ Current <= Current' /\ 0 \in Nat /\ d \in Nat
        /\ \A i \in 1..Current : calls'[i].session = calls[i].session
        /\ \A n \in 1..Len(toDevice') : n + 0 \in 1..Len(toDevice) /\ toDevice'[n] = toDevice[n + 0]
    BY <1>0
  <2> QED
    BY <1>0, <1>1, <2>1, <2>2, OnTheWay
<1>4. Returned'
  BY <1>0, <1>1, <1>3, NoneReturns
<1> QED
  BY <1>1, <1>2, <1>3, <1>4 DEF IInv

-----------------------------------------------------------------------------
(* The theorems.                                                           *)

LEMMA LinkInit ==
    ASSUME Init
    PROVE  IInv
<1>0. /\ Len(<<>>) = 0 /\ 1..0 = {} /\ Current = 0
      /\ calls = <<>> /\ toDevice = <<>> /\ toHost = <<>> /\ executed = <<>>
  BY EmptySeq DEF Init, Current
<1>1. TypeOK
  <2>1. <<>> \in Seq(CallRecord) /\ <<>> \in Seq(1..Current) /\ <<>> \in Seq(Frame)
    BY EmptySeq
  <2>2. /\ 0 \in 0..MaxSessions /\ 0 \in 0..Retries /\ 0 \in 0..Current /\ Current <= MaxCalls
    BY <1>0, LinkAssumption
  <2> QED
    BY <1>0, <2>1, <2>2 DEF Init, TypeOK
<1>2. CallsInv
  BY <1>0 DEF CallsInv, InSession, Ends, Numbered, Streaks
<1>3. Executions /\ Requests /\ Replies /\ Returned
  BY <1>0 DEF Init, Executions, Requests, Replies, Returned
<1> QED
  BY <1>1, <1>2, <1>3 DEF IInv

LEMMA LinkStep ==
    ASSUME IInv, [Next]_vars
    PROVE  IInv'
<1>1. CASE Connect
  BY <1>1, ConnectKeeps
<1>2. CASE Disconnect
  BY <1>2, DisconnectKeeps
<1>3. CASE Abandon
  BY <1>3, AbandonKeeps
<1>4. CASE \E c \in Cmd : Send(c)
  BY <1>4, SendKeeps
<1>5. CASE Timeout
  BY <1>5, TimeoutKeeps
<1>6. CASE Receive
  BY <1>6, ReceiveDoes
<1>7. CASE Handle
  BY <1>7, HandleDoes
<1>8. CASE LoseRequest
  BY <1>8, LoseRequestKeeps
<1>9. CASE LoseAnswer
  BY <1>9, LoseAnswerKeeps
<1>10. CASE UNCHANGED vars
  BY <1>10 DEF vars, IInv, TypeOK, CallsInv, InSession, Ends, Numbered, Streaks, Done,
     Executions, Requests, Replies, Returned, Current, CallRecord, CallState, Frame, Noise
<1> QED
  BY <1>1, <1>2, <1>3, <1>4, <1>5, <1>6, <1>7, <1>8, <1>9, <1>10 DEF Next, HostStep

\* Requests and answers keep their order, a late answer never has the number
\* of the current call, and a device repeats only the answer of the request
\* it is asked again (_exchange, _next_seq).
THEOREM LinkInvariant == Spec => []IInv
<1>1. Init => IInv
  BY LinkInit
<1>2. IInv /\ [Next]_vars => IInv'
  BY LinkStep
<1> QED
  BY <1>1, <1>2, PTL DEF Spec

\* The connection, the calls, the requests and the answers have their types.
THEOREM LinkTypeCorrect == Spec => []TypeOK
<1>1. IInv => TypeOK
  BY DEF IInv
<1> QED
  BY <1>1, LinkInvariant, PTL

AnswersOfCalls ==
    /\ Answers \in Seq(Nat) /\ Len(Answers) = Current
    /\ \A i \in 1..Current : Answers[i] = calls[i].answer

LEMMA AnswersAre == TypeOK => AnswersOfCalls
<1> SUFFICES ASSUME TypeOK PROVE AnswersOfCalls
  OBVIOUS
<1>0. Current \in Nat /\ \A i \in 1..Current : calls[i].answer \in Nat
  BY LinkTypes
<1>1. Answers \in [1..Current -> Nat]
  BY <1>0 DEF Answers
<1>2. Answers \in Seq(Nat)
  BY <1>0, <1>1, SeqDef
<1>3. Len(Answers) = Current
  BY <1>0, <1>1, <1>2, LenProperties
<1> QED
  BY <1>2, <1>3 DEF Answers, AnswersOfCalls

\* Every step is a call, an execution, a return or nothing of CommandOnce.
LEMMA StepIsOnce ==
    ASSUME IInv, [Next]_vars
    PROVE  [Once!Next]_(Once!vars)
<1>0. /\ TypeOK /\ TypeOK' /\ Current \in Nat
  BY LinkStep, LinkTypes DEF IInv
<1>a. /\ Answers \in Seq(Nat) /\ Len(Answers) = Current
      /\ \A i \in 1..Current : Answers[i] = calls[i].answer
  BY <1>0, AnswersAre DEF AnswersOfCalls
<1>b. /\ Answers' \in Seq(Nat) /\ Len(Answers') = Current'
      /\ \A i \in 1..Current' : Answers'[i] = calls'[i].answer
  <2>1. TypeOK' => AnswersOfCalls'
    BY AnswersAre, PTL
  <2> QED
    BY <1>0, <2>1 DEF AnswersOfCalls
<1>s. ASSUME Current' = Current, executed' = executed,
             \A i \in 1..Current : calls'[i].answer = calls[i].answer
      PROVE  UNCHANGED Once!vars
  <2>1. /\ Answers \in Seq(Nat) /\ Answers' \in Seq(Nat) /\ Len(Answers') = Len(Answers)
        /\ \A i \in 1..Len(Answers) : Answers'[i] = Answers[i]
    BY <1>a, <1>b, <1>s
  <2>2. Answers' = Answers
    BY <2>1, SeqEqual
  <2> QED
    BY <1>s, <2>2 DEF Once!vars
<1>1. CASE Connect \/ Disconnect \/ LoseRequest \/ LoseAnswer \/ UNCHANGED vars
  <2>1. calls' = calls /\ executed' = executed
    BY <1>1 DEF Connect, Disconnect, LoseRequest, LoseAnswer, vars
  <2> QED
    BY <1>s, <2>1 DEF Current
<1>2. CASE Abandon
  <2>1. Waiting /\ executed' = executed /\ calls' = [calls EXCEPT ![Current].state = "abandoned"]
    BY <1>2 DEF Abandon
  <2>2. calls \in Seq(CallRecord) /\ Current \in 1..Current /\ calls[Current] \in CallRecord
    BY <1>0, <2>1, CurrentCall
  <2> DEFINE r == [calls[Current] EXCEPT !.state = "abandoned"]
  <2>3. r \in CallRecord /\ r.answer = calls[Current].answer
    BY <2>2 DEF CallRecord, CallState
  <2>4. /\ Current' = Current
        /\ \A i \in 1..Current : calls'[i] = IF i = Current THEN r ELSE calls[i]
    BY <1>0, <2>1, <2>3, OneCallChanges
  <2> HIDE DEF r
  <2>5. \A i \in 1..Current : calls'[i].answer = calls[i].answer
    BY <2>3, <2>4
  <2> QED
    BY <1>s, <2>1, <2>4, <2>5
<1>3. CASE Timeout
  <2>1. Waiting /\ NextAttempt(FALSE) /\ executed' = executed /\ FALSE \in BOOLEAN
    BY <1>3 DEF Timeout
  <2>2. Current' = Current /\ \A i \in 1..Current : calls'[i].answer = calls[i].answer
    BY <1>0, <2>1, NextAttemptDoes
  <2> QED
    BY <1>s, <2>1, <2>2
<1>4. CASE \E c \in Cmd : Send(c)
  <2>1. PICK c \in Cmd : Send(c)
    BY <1>4
  <2> DEFINE r == [session |-> session, seq |-> NextSeq, cmd |-> c,
                   state |-> "waiting", answer |-> 0, clean |-> TRUE]
  <2>2. executed' = executed /\ calls' = Append(calls, r) /\ r.answer = 0
    BY <2>1 DEF Send
  <2>3. r \in CallRecord
    BY <1>0, NextSeqIs, LinkTypes DEF IInv, CallsInv, CallRecord, CallState
  <2> HIDE DEF r
  <2>4. /\ Current' = Current + 1 /\ \A i \in 1..Current : calls'[i] = calls[i]
        /\ calls'[Current + 1] = r
    BY <1>0, <2>2, <2>3, AppendProperties DEF TypeOK, Current
  <2>5. Answers' = Append(Answers, 0)
    <3>1. /\ Append(Answers, 0) \in Seq(Nat) /\ Len(Append(Answers, 0)) = Current + 1
          /\ \A i \in 1..Current : Append(Answers, 0)[i] = Answers[i]
          /\ Append(Answers, 0)[Current + 1] = 0
      BY <1>a, AppendProperties
    <3>2. ASSUME NEW i \in 1..Current + 1
          PROVE  Answers'[i] = Append(Answers, 0)[i]
      <4>1. CASE i \in 1..Current
        BY <1>a, <1>b, <2>4, <3>1, <4>1
      <4>2. CASE i = Current + 1
        BY <1>b, <2>2, <2>4, <3>1, <4>2
      <4>3. i \in 1..Current \/ i = Current + 1
        BY <1>0
      <4> QED
        BY <4>1, <4>2, <4>3
    <3> QED
      BY <1>b, <2>4, <3>1, <3>2, SeqEqual
  <2>6. Once!Call
    BY <2>2, <2>4, <2>5 DEF Once!Call
  <2> QED
    BY <2>6 DEF Once!Next
<1>5. CASE Receive
  <2>1. Current' = Current /\ executed' = executed
    BY <1>5, ReceiveDoes
  <2>2. CASE \A i \in 1..Current : calls'[i].answer = calls[i].answer
    BY <1>s, <2>1, <2>2
  <2>3. CASE /\ Current \in 1..Current /\ calls[Current].answer = 0 /\ Done(Current)
             /\ \A i \in 1..Current :
                  calls'[i].answer = IF i = Current THEN Current ELSE calls[i].answer
    <3>1. /\ [Answers EXCEPT ![Current] = Current] \in Seq(Nat)
          /\ Len([Answers EXCEPT ![Current] = Current]) = Current
          /\ \A i \in 1..Current : [Answers EXCEPT ![Current] = Current][i] =
               IF i = Current THEN Current ELSE Answers[i]
      BY <1>0, <1>a, <2>3, ExceptSeq
    <3>2. \A i \in 1..Current : Answers'[i] = [Answers EXCEPT ![Current] = Current][i]
      BY <1>a, <1>b, <2>1, <2>3, <3>1
    <3>3. Answers' = [Answers EXCEPT ![Current] = Current]
      BY <1>b, <2>1, <3>1, <3>2, SeqEqual
    <3>4. Once!Return(Current)
      BY <1>a, <2>1, <2>3, <3>3 DEF Once!Return, Done
    <3> QED
      BY <2>3, <3>4 DEF Once!Next
  <2> QED
    BY <1>5, <2>2, <2>3, ReceiveDoes
<1>6. CASE Handle
  <2>1. calls' = calls /\ Current' = Current
    BY <1>6, HandleDoes DEF Current
  <2>2. CASE executed' = executed
    BY <1>s, <2>1, <2>2
  <2>3. CASE \E i \in 1..Current :
               /\ executed' = Append(executed, i)
               /\ \A n \in 1..Len(executed) : executed[n] < i
    <3>1. PICK i \in 1..Current : /\ executed' = Append(executed, i)
                                 /\ \A n \in 1..Len(executed) : executed[n] < i
      BY <2>3
    <3>2. Answers' = Answers
      BY <2>1 DEF Answers
    <3>3. Once!Execute(i)
      BY <2>1, <3>1, <3>2 DEF Once!Execute
    <3> QED
      BY <3>3 DEF Once!Next
  <2> QED
    BY <1>6, <2>2, <2>3, HandleDoes
<1> QED
  BY <1>1, <1>2, <1>3, <1>4, <1>5, <1>6 DEF Next, HostStep

\* A command that is repeated or overtaken by a late answer is executed at
\* most once and in its turn, and what _exchange returns is the answer of
\* this very command.
THEOREM LinkRefinesCommandOnce == Spec => RefinesCommandOnce
<1>1. Init => Once!Init
  <2>1. ASSUME Init PROVE Current = 0 /\ executed = <<>> /\ Answers = <<>>
    <3>1. Current = 0 /\ executed = <<>>
      BY <2>1, EmptySeq DEF Init, Current
    <3>2. Answers = <<>>
      BY <3>1, <2>1, LinkInit, AnswersAre, EmptySeq DEF IInv, AnswersOfCalls
    <3> QED
      BY <3>1, <3>2
  <2> QED
    BY <2>1 DEF Once!Init
<1>2. IInv /\ [Next]_vars => [Once!Next]_(Once!vars)
  BY StepIsOnce
<1> QED
  BY <1>1, <1>2, LinkInvariant, PTL DEF Spec, RefinesCommandOnce, Once!Spec

\* What CommandOnce amounts to: of two executions the later one is of a later
\* call, so none is executed twice, and what _exchange has returned is the
\* answer to a command that the device executed, its own.
THEOREM CommandsInTurn ==
    Spec => [](/\ \A m, n \in 1..Len(executed) : m < n => executed[m] < executed[n]
               /\ \A i \in 1..Current : calls[i].state = "returned" =>
                     calls[i].answer = i /\ \E n \in 1..Len(executed) : executed[n] = i)
<1>1. IInv => /\ \A m, n \in 1..Len(executed) : m < n => executed[m] < executed[n]
              /\ \A i \in 1..Current : calls[i].state = "returned" =>
                    calls[i].answer = i /\ \E n \in 1..Len(executed) : executed[n] = i
  BY DEF IInv, Executions, Returned, Done
<1> QED
  BY <1>1, LinkInvariant, PTL
-----------------------------------------------------------------------------
(* Why late answers do not make the link fail for ever: each attempt of a  *)
(* call that is answered in time uses up one late answer, and there are    *)
(* fewer of these than attempts.                                           *)

\* From the first request or answer of the waiting call on, not more is on
\* its way than the attempts it has made.
Owed ==
    Waiting =>
        /\ \A m \in 1..Len(toHost) :
              toHost[m].to = Current => Len(toHost) - m + Len(toDevice) < attempts
        /\ \A n \in 1..Len(toDevice) :
              toDevice[n] = Current => Len(toDevice) - n < attempts

\* The call made last has returned on the connection that is open.
HasReturned ==
    open /\ Current > 0 /\ calls[Current].session = session
         /\ calls[Current].state = "returned"

\* A call that returned leaves less on its way than a call has attempts.
Drained == HasReturned => Len(toHost) + Len(toDevice) < Retries

\* The call before i failed, on the same connection.
AfterFailure(i) == i > 1 /\ calls[i-1].session = calls[i].session
                         /\ calls[i-1].state = "failed"

\* The waiting call was answered in time so far, and follows no failed one.
Clean == Waiting /\ calls[Current].clean /\ ~AfterFailure(Current)

\* Such a call has an attempt left for each late answer, read or to come.
Spared ==
    Clean =>
        /\ \A m \in 1..Len(toHost) :
              toHost[m].to \notin {0, Current} => m + attempts <= Retries
        /\ \A n \in 1..Len(toDevice) :
              toDevice[n] # Current /\ calls[toDevice[n]].session = session =>
                Len(toHost) + n + attempts <= Retries

StaleInv == Owed /\ Drained /\ Spared /\ StaleAnswersAreSkipped

\* What is on its way, in the terms of the proofs below.
LEMMA OnTheirWay ==
    ASSUME IInv
    PROVE  /\ Current \in Nat /\ session \in Nat /\ Len(toHost) \in Nat /\ Len(toDevice) \in Nat
           /\ attempts \in Nat /\ attempts <= Retries /\ Retries \in Nat \ {0}
           /\ \A m \in 1..Len(toHost) :
                /\ toHost[m].to \in 0..Current
                /\ toHost[m].to # 0 => calls[toHost[m].to].session = session
                /\ toHost[m].to = 0 <=> toHost[m] = Noise
           /\ \A n \in 1..Len(toDevice) : toDevice[n] \in 1..Current
           /\ \A i \in 1..Current : calls[i].session \in Nat /\ calls[i].state \in CallState
<1>1. TypeOK /\ Replies
  BY DEF IInv
<1>2. /\ Current \in Nat /\ session \in Nat /\ Len(toHost) \in Nat /\ Len(toDevice) \in Nat
      /\ Retries \in Nat \ {0}
      /\ \A n \in 1..Len(toDevice) : toDevice[n] \in 1..Current
      /\ \A i \in 1..Current : calls[i].session \in Nat /\ calls[i].state \in CallState
  BY <1>1, LinkTypes
<1>3. attempts \in Nat /\ attempts <= Retries
  BY <1>1, <1>2 DEF TypeOK
<1>4. ASSUME NEW m \in 1..Len(toHost)
      PROVE  /\ toHost[m].to \in 0..Current
             /\ toHost[m].to # 0 => calls[toHost[m].to].session = session
             /\ toHost[m].to = 0 <=> toHost[m] = Noise
  <2>1. CASE toHost[m] = Noise
    BY <1>2, <2>1 DEF Noise
  <2>2. CASE toHost[m] # Noise
    <3>1. toHost[m].to \in 1..Current /\ calls[toHost[m].to].session = session
      BY <1>1, <2>2 DEF Replies
    <3> QED
      BY <1>2, <2>2, <3>1
  <2> QED
    BY <2>1, <2>2
<1> QED
  BY <1>2, <1>3, <1>4

\* The wire and the device only move a request or its answer forward, lose
\* it or damage it.
LEMMA WireSpares ==
    ASSUME IInv, StaleInv, UNCHANGED <<session, open, calls, attempts>>,
           NEW d \in Nat, NEW e \in Nat,
           Len(toDevice') \in Nat, Len(toHost') \in Nat,
           Len(toDevice') = Len(toDevice) - e,
           \A n \in 1..Len(toDevice') : toDevice'[n] = toDevice[n + e],
           Len(toHost') <= Len(toHost) - d + e,
           \A m \in 1..Len(toHost') :
              \/ toHost'[m].to = 0
              \/ m + d \in 1..Len(toHost) /\ toHost'[m] = toHost[m + d]
              \/ /\ d = 0 /\ e = 1 /\ m = Len(toHost) + 1
                 /\ toHost'[m].to = toDevice[1] /\ calls[toDevice[1]].session = session
    PROVE  StaleInv'
<1>0. /\ Current \in Nat /\ Len(toHost) \in Nat /\ Len(toDevice) \in Nat
      /\ attempts \in Nat /\ Retries \in Nat /\ Current' = Current
      /\ \A n \in 1..Len(toDevice) : toDevice[n] \in 1..Current
  BY OnTheirWay DEF Current
<1>1. \A n \in 1..Len(toDevice') : n + e \in 1..Len(toDevice)
  BY <1>0
<1>2. Owed'
  <2> SUFFICES ASSUME Waiting
               PROVE  /\ \A m \in 1..Len(toHost') : toHost'[m].to = Current =>
                            Len(toHost') - m + Len(toDevice') < attempts
                      /\ \A n \in 1..Len(toDevice') : toDevice'[n] = Current =>
                            Len(toDevice') - n < attempts
    BY <1>0 DEF Owed, Waiting
  <2>0. Current > 0 /\ Current # 0
    BY <1>0 DEF Waiting
  <2>1. ASSUME NEW m \in 1..Len(toHost'), toHost'[m].to = Current
        PROVE  Len(toHost') - m + Len(toDevice') < attempts
    <3>1. CASE m + d \in 1..Len(toHost) /\ toHost'[m] = toHost[m + d]
      <4>1. Len(toHost) - (m + d) + Len(toDevice) < attempts
        BY <2>1, <3>1 DEF StaleInv, Owed
      <4> QED
        BY <1>0, <4>1
    <3>2. CASE /\ d = 0 /\ e = 1 /\ m = Len(toHost) + 1
               /\ toHost'[m].to = toDevice[1] /\ calls[toDevice[1]].session = session
      <4>1. 1 \in 1..Len(toDevice)
        BY <1>0, <3>2
      <4>2. Len(toDevice) - 1 < attempts
        BY <2>1, <3>2, <4>1 DEF StaleInv, Owed
      <4> QED
        BY <1>0, <3>2, <4>2
    <3> QED
      BY <2>0, <2>1, <3>1, <3>2
  <2>2. ASSUME NEW n \in 1..Len(toDevice'), toDevice'[n] = Current
        PROVE  Len(toDevice') - n < attempts
    <3>1. Len(toDevice) - (n + e) < attempts
      BY <1>1, <2>2 DEF StaleInv, Owed
    <3> QED
      BY <1>0, <3>1
  <2> QED
    BY <2>1, <2>2
<1>3. Drained'
  <2>1. HasReturned' => HasReturned
    BY <1>0 DEF HasReturned
  <2>2. HasReturned => Len(toHost) + Len(toDevice) < Retries
    BY DEF StaleInv, Drained
  <2>3. HasReturned => Len(toHost') + Len(toDevice') < Retries
    BY <1>0, <2>2
  <2> QED
    BY <2>1, <2>3 DEF Drained
<1>4. Spared'
  <2> SUFFICES ASSUME Clean
               PROVE  /\ \A m \in 1..Len(toHost') : toHost'[m].to \notin {0, Current} =>
                            m + attempts <= Retries
                      /\ \A n \in 1..Len(toDevice') :
                            toDevice'[n] # Current /\ calls[toDevice'[n]].session = session =>
                              Len(toHost') + n + attempts <= Retries
    BY <1>0 DEF Spared, Clean, Waiting, AfterFailure
  <2>1. ASSUME NEW m \in 1..Len(toHost'), toHost'[m].to \notin {0, Current}
        PROVE  m + attempts <= Retries
    <3>1. CASE m + d \in 1..Len(toHost) /\ toHost'[m] = toHost[m + d]
      <4>1. m + d + attempts <= Retries
        BY <2>1, <3>1 DEF StaleInv, Spared
      <4> QED
        BY <1>0, <4>1
    <3>2. CASE /\ d = 0 /\ e = 1 /\ m = Len(toHost) + 1
               /\ toHost'[m].to = toDevice[1] /\ calls[toDevice[1]].session = session
      <4>1. 1 \in 1..Len(toDevice)
        BY <1>0, <3>2
      <4>2. Len(toHost) + 1 + attempts <= Retries
        BY <2>1, <3>2, <4>1 DEF StaleInv, Spared
      <4> QED
        BY <1>0, <3>2, <4>2
    <3> QED
      BY <2>1, <3>1, <3>2
  <2>2. ASSUME NEW n \in 1..Len(toDevice'),
               toDevice'[n] # Current, calls[toDevice'[n]].session = session
        PROVE  Len(toHost') + n + attempts <= Retries
    <3>1. Len(toHost) + (n + e) + attempts <= Retries
      BY <1>1, <2>2 DEF StaleInv, Spared
    <3> QED
      BY <1>0, <3>1
  <2> QED
    BY <2>1, <2>2
<1>5. StaleAnswersAreSkipped'
  BY <1>0 DEF StaleInv, StaleAnswersAreSkipped
<1> QED
  BY <1>2, <1>3, <1>4, <1>5 DEF StaleInv

\* Another attempt, after a late answer was read or after a timeout.
LEMMA AttemptSpares ==
    ASSUME IInv, StaleInv, Waiting, UNCHANGED <<session, open>>,
           NEW clean \in BOOLEAN, NextAttempt(clean),
           NEW d \in Nat, Len(toHost') \in Nat, Len(toHost') = Len(toHost) - d,
           \A m \in 1..Len(toHost') : toHost'[m] = toHost[m + d],
           clean => /\ calls[Current].clean /\ d >= 1
                    /\ 1 \in 1..Len(toHost) /\ toHost[1].to \notin {0, Current}
    PROVE  StaleInv'
<1>0. /\ TypeOK /\ Current \in Nat /\ Len(toHost) \in Nat /\ Len(toDevice) \in Nat
      /\ attempts \in Nat /\ attempts <= Retries /\ Retries \in Nat
      /\ Current \in 1..Current /\ Current > 0
      /\ calls[Current] \in CallRecord /\ toDevice \in Seq(1..Current)
      /\ \A n \in 1..Len(toDevice) : toDevice[n] \in 1..Current
  <2>1. TypeOK
    BY DEF IInv
  <2>2. toDevice \in Seq(1..Current) /\ Current > 0
    BY <2>1 DEF TypeOK, Waiting
  <2> QED
    BY <2>1, <2>2, OnTheirWay, CurrentCall
<1>h. \A m \in 1..Len(toHost') : m + d \in 1..Len(toHost)
  BY <1>0
<1>1. CASE attempts < Retries
  <2> DEFINE r == [calls[Current] EXCEPT !.clean = clean]
  <2>1. /\ r \in CallRecord /\ r.session = calls[Current].session
        /\ r.state = "waiting" /\ r.clean = clean
    BY <1>0 DEF CallRecord, Waiting
  <2>2. /\ calls' = [calls EXCEPT ![Current] = r] /\ attempts' = attempts + 1
        /\ toDevice' = Append(toDevice, Current)
    BY <1>1 DEF NextAttempt
  <2>3. /\ Current' = Current
        /\ \A i \in 1..Current : calls'[i] = IF i = Current THEN r ELSE calls[i]
    BY <1>0, <2>1, <2>2, OneCallChanges
  <2>4. /\ Len(toDevice') = Len(toDevice) + 1
        /\ \A n \in 1..Len(toDevice) : toDevice'[n] = toDevice[n]
        /\ toDevice'[Len(toDevice) + 1] = Current
    BY <1>0, <2>2, AppendProperties
  <2> HIDE DEF r
  <2>5. \A i \in 1..Current : /\ calls'[i].session = calls[i].session
                              /\ calls'[i].state = calls[i].state
                              /\ i # Current => calls'[i] = calls[i]
    BY <2>1, <2>3 DEF Waiting
  <2>6. \A n \in 1..Len(toDevice') : n \in 1..Len(toDevice) \/ n = Len(toDevice) + 1
    BY <1>0, <2>4
  <2>7. Owed'
    <3>1. ASSUME NEW m \in 1..Len(toHost'), toHost'[m].to = Current
          PROVE  Len(toHost') - m + Len(toDevice') < attempts'
      <4>1. Len(toHost) - (m + d) + Len(toDevice) < attempts
        BY <1>h, <3>1 DEF StaleInv, Owed
      <4> QED
        BY <1>0, <2>2, <2>4, <4>1
    <3>2. ASSUME NEW n \in 1..Len(toDevice'), toDevice'[n] = Current
          PROVE  Len(toDevice') - n < attempts'
      <4>1. CASE n \in 1..Len(toDevice)
        <5>1. Len(toDevice) - n < attempts
          BY <2>4, <3>2, <4>1 DEF StaleInv, Owed
        <5> QED
          BY <1>0, <2>2, <2>4, <4>1, <5>1
      <4>2. CASE n = Len(toDevice) + 1
        BY <1>0, <2>2, <2>4, <4>2
      <4> QED
        BY <2>6, <4>1, <4>2
    <3> QED
      BY <2>3, <3>1, <3>2 DEF Owed
  <2>8. Drained'
    BY <1>0, <2>1, <2>3 DEF Drained, HasReturned
  <2>9. Spared'
    <3> SUFFICES ASSUME Clean'
                 PROVE  /\ \A m \in 1..Len(toHost') : toHost'[m].to \notin {0, Current} =>
                              m + attempts' <= Retries
                        /\ \A n \in 1..Len(toDevice') :
                              toDevice'[n] # Current /\ calls'[toDevice'[n]].session = session =>
                                Len(toHost') + n + attempts' <= Retries
      BY <2>3 DEF Spared
    <3>1. clean
      BY <1>0, <2>1, <2>3 DEF Clean
    <3>2. ~AfterFailure(Current)
      <4>1. (~AfterFailure(Current))'
        BY DEF Clean
      <4>2. Current - 1 \in 1..Current \/ ~(Current > 1)
        BY <1>0
      <4> QED
        BY <1>0, <2>3, <2>5, <4>1, <4>2 DEF AfterFailure
    <3>3. Clean
      BY <3>1, <3>2 DEF Clean
    <3>4. ASSUME NEW m \in 1..Len(toHost'), toHost'[m].to \notin {0, Current}
          PROVE  m + attempts' <= Retries
      <4>1. m + d + attempts <= Retries
        BY <1>h, <3>3, <3>4 DEF StaleInv, Spared
      <4> QED
        BY <1>0, <2>2, <3>1, <4>1
    <3>5. ASSUME NEW n \in 1..Len(toDevice'),
                 toDevice'[n] # Current, calls'[toDevice'[n]].session = session
          PROVE  Len(toHost') + n + attempts' <= Retries
      <4>1. n \in 1..Len(toDevice) /\ toDevice[n] = toDevice'[n]
        BY <2>4, <2>6, <3>5
      <4>2. calls[toDevice[n]].session = session
        BY <1>0, <2>5, <3>5, <4>1
      <4>3. Len(toHost) + n + attempts <= Retries
        BY <3>3, <3>5, <4>1, <4>2 DEF StaleInv, Spared
      <4> QED
        BY <1>0, <2>2, <3>1, <4>1, <4>3
    <3> QED
      BY <3>4, <3>5
  <2>10. StaleAnswersAreSkipped'
    <3> SUFFICES ASSUME NEW i \in 1..Current, calls'[i].state = "failed", calls'[i].clean
                 PROVE  i > 1 /\ calls'[i-1].session = calls'[i].session
                              /\ calls'[i-1].state = "failed"
      BY <2>3 DEF StaleAnswersAreSkipped
    <3>1. calls'[i] = calls[i]
      BY <2>1, <2>3, <2>5
    <3>2. i > 1 /\ calls[i-1].session = calls[i].session /\ calls[i-1].state = "failed"
      BY <3>1 DEF StaleInv, StaleAnswersAreSkipped
    <3>3. i - 1 \in 1..Current
      BY <1>0, <3>2
    <3> QED
      BY <2>5, <3>2, <3>3
  <2> QED
    BY <2>7, <2>8, <2>9, <2>10 DEF StaleInv
<1>2. CASE ~(attempts < Retries)
  <2> DEFINE r == [calls[Current] EXCEPT !.state = "failed", !.clean = clean]
  <2>1. /\ r \in CallRecord /\ r.session = calls[Current].session
        /\ r.state = "failed" /\ r.clean = clean
    BY <1>0 DEF CallRecord, CallState
  <2>2. calls' = [calls EXCEPT ![Current] = r]
    BY <1>2 DEF NextAttempt
  <2>3. /\ Current' = Current
        /\ \A i \in 1..Current : calls'[i] = IF i = Current THEN r ELSE calls[i]
    BY <1>0, <2>1, <2>2, OneCallChanges
  <2> HIDE DEF r
  <2>4. Owed' /\ Drained' /\ Spared'
    <3>1. calls'[Current].state = "failed"
      BY <1>0, <2>1, <2>3
    <3>2. ~Waiting' /\ ~HasReturned'
      BY <2>3, <3>1 DEF Waiting, HasReturned
    <3> QED
      BY <3>2 DEF Owed, Drained, Spared, Clean
  <2>5. StaleAnswersAreSkipped'
    <3> SUFFICES ASSUME NEW i \in 1..Current, calls'[i].state = "failed", calls'[i].clean
                 PROVE  i > 1 /\ calls'[i-1].session = calls'[i].session
                              /\ calls'[i-1].state = "failed"
      BY <2>3 DEF StaleAnswersAreSkipped
    <3>1. AfterFailure(i)
      <4>1. CASE i # Current
        BY <2>3, <4>1 DEF StaleInv, StaleAnswersAreSkipped, AfterFailure
      <4>2. CASE i = Current
        <5>1. clean
          BY <2>1, <2>3, <4>2
        <5>2. ~Spared \/ ~Clean
          BY <1>0, <1>2, <5>1 DEF Spared
        <5> QED
          BY <4>2, <5>1, <5>2 DEF StaleInv, Clean
      <4> QED
        BY <4>1, <4>2
    <3>2. i - 1 \in 1..Current /\ i - 1 # Current /\ i > 1
      BY <1>0, <3>1 DEF AfterFailure
    <3>3. calls'[i-1] = calls[i-1] /\ calls'[i].session = calls[i].session
      BY <2>1, <2>3, <3>2
    <3> QED
      BY <3>1, <3>2, <3>3 DEF AfterFailure
  <2> QED
    BY <2>4, <2>5 DEF StaleInv
<1> QED
  BY <1>1, <1>2

\* The call returns: of its requests, and of the answers to them, at most
\* one fewer than its attempts are left.
LEMMA ReturnSpares ==
    ASSUME IInv, StaleInv, Waiting, UNCHANGED <<session, open, toDevice>>,
           1 \in 1..Len(toHost), toHost[1].to = Current,
           Len(toHost') \in Nat, Len(toHost') < Len(toHost), NEW a \in Nat,
           calls' = [calls EXCEPT ![Current].state = "returned", ![Current].answer = a]
    PROVE  StaleInv'
<1>0. /\ TypeOK /\ Current \in Nat /\ Len(toHost) \in Nat /\ Len(toDevice) \in Nat
      /\ attempts \in Nat /\ attempts <= Retries /\ Retries \in Nat
      /\ Current \in 1..Current /\ calls[Current] \in CallRecord
  <2>1. TypeOK
    BY DEF IInv
  <2> QED
    BY <2>1, OnTheirWay, CurrentCall
<1> DEFINE r == [calls[Current] EXCEPT !.state = "returned", !.answer = a]
<1>1. r \in CallRecord /\ r.session = calls[Current].session /\ r.state = "returned"
  BY <1>0 DEF CallRecord, CallState
<1>2. calls' = [calls EXCEPT ![Current] = r]
  OBVIOUS
<1>3. /\ Current' = Current
      /\ \A i \in 1..Current : calls'[i] = IF i = Current THEN r ELSE calls[i]
  BY <1>0, <1>1, <1>2, OneCallChanges
<1> HIDE DEF r
<1>4. calls'[Current].state = "returned"
  BY <1>0, <1>1, <1>3
<1>5. Owed' /\ Spared'
  <2>1. ~Waiting'
    BY <1>3, <1>4 DEF Waiting
  <2> QED
    BY <2>1 DEF Owed, Spared, Clean
<1>6. Drained'
  <2>1. Len(toHost) - 1 + Len(toDevice) < attempts
    BY DEF StaleInv, Owed
  <2>2. Len(toHost') + Len(toDevice') < Retries
    BY <1>0, <2>1
  <2> QED
    BY <2>2 DEF Drained
<1>7. StaleAnswersAreSkipped'
  <2> SUFFICES ASSUME NEW i \in 1..Current, calls'[i].state = "failed", calls'[i].clean
               PROVE  i > 1 /\ calls'[i-1].session = calls'[i].session
                            /\ calls'[i-1].state = "failed"
    BY <1>3 DEF StaleAnswersAreSkipped
  <2>1. i # Current /\ calls'[i] = calls[i]
    BY <1>3, <1>4
  <2>2. i > 1 /\ calls[i-1].session = calls[i].session /\ calls[i-1].state = "failed"
    BY <2>1 DEF StaleInv, StaleAnswersAreSkipped
  <2>3. i - 1 \in 1..Current /\ i - 1 # Current
    BY <1>0, <2>2
  <2> QED
    BY <1>3, <2>1, <2>2, <2>3
<1> QED
  BY <1>5, <1>6, <1>7 DEF StaleInv

\* A new call: after one that returned there are fewer late answers than
\* attempts, and a new connection has none.
LEMMA SendSpares ==
    ASSUME IInv, StaleInv, NEW c \in Cmd, Send(c)
    PROVE  StaleInv'
<1>0. /\ TypeOK /\ Current \in Nat /\ session \in Nat
      /\ Len(toHost) \in Nat /\ Len(toDevice) \in Nat /\ Retries \in Nat \ {0}
      /\ open /\ ~Waiting /\ attempts' = 1 /\ toHost' = toHost
      /\ session' = session /\ open' = open
      /\ toDevice' = Append(toDevice, Current + 1)
      /\ \A n \in 1..Len(toDevice) : toDevice[n] \in 1..Current
  BY OnTheirWay DEF IInv, Send
<1> DEFINE r == [session |-> session, seq |-> NextSeq, cmd |-> c,
                 state |-> "waiting", answer |-> 0, clean |-> TRUE]
<1>1. r \in CallRecord /\ r.state = "waiting" /\ r.session = session
  BY <1>0, NextSeqIs, LinkTypes DEF IInv, CallsInv, CallRecord, CallState
<1>2. calls' = Append(calls, r)
  BY DEF Send
<1> HIDE DEF r
<1>3. /\ Current' = Current + 1 /\ \A i \in 1..Current : calls'[i] = calls[i]
      /\ calls'[Current + 1] = r
  BY <1>0, <1>1, <1>2, AppendProperties DEF TypeOK, Current
<1>4. /\ Len(toDevice') = Len(toDevice) + 1
      /\ \A n \in 1..Len(toDevice) : toDevice'[n] = toDevice[n]
      /\ toDevice'[Len(toDevice) + 1] = Current + 1
  <2>1. toDevice \in Seq(1..Current + 1) /\ Current + 1 \in 1..Current + 1
    <3>1. 1..Current \subseteq 1..Current + 1 /\ Current + 1 \in 1..Current + 1
      BY <1>0
    <3>2. toDevice \in Seq(1..Current)
      BY <1>0 DEF TypeOK
    <3> QED
      BY <1>0, <3>1, <3>2, SeqDef
  <2> QED
    BY <1>0, <2>1, AppendProperties
<1>5. \A n \in 1..Len(toDevice') : n \in 1..Len(toDevice) \/ n = Len(toDevice) + 1
  BY <1>0, <1>4
<1>6. Owed'
  <2>1. \A m \in 1..Len(toHost') : toHost'[m].to # Current + 1
    BY <1>0, OnTheirWay
  <2>2. ASSUME NEW n \in 1..Len(toDevice'), toDevice'[n] = Current + 1
        PROVE  Len(toDevice') - n < attempts'
    <3>1. CASE n \in 1..Len(toDevice)
      BY <1>0, <1>4, <2>2, <3>1
    <3>2. CASE n = Len(toDevice) + 1
      BY <1>0, <1>4, <3>2
    <3> QED
      BY <1>5, <3>1, <3>2
  <2> QED
    BY <1>3, <2>1, <2>2 DEF Owed
<1>7. Drained'
  <2>1. ~HasReturned'
    BY <1>1, <1>3 DEF HasReturned
  <2> QED
    BY <2>1 DEF Drained
<1>8. Spared'
  <2> SUFFICES ASSUME Clean'
               PROVE  /\ \A m \in 1..Len(toHost) : toHost[m].to \notin {0, Current + 1} =>
                            m + 1 <= Retries
                      /\ \A n \in 1..Len(toDevice') :
                            toDevice'[n] # Current + 1 /\ calls'[toDevice'[n]].session = session =>
                              Len(toHost) + n + 1 <= Retries
    BY <1>0, <1>3 DEF Spared
  <2>1. CASE HasReturned
    <3>1. Len(toHost) + Len(toDevice) < Retries
      BY <2>1 DEF StaleInv, Drained
    <3>2. \A m \in 1..Len(toHost) : m + 1 <= Retries
      BY <1>0, <3>1
    <3>3. \A n \in 1..Len(toDevice') : toDevice'[n] # Current + 1 => Len(toHost) + n + 1 <= Retries
      <4>1. \A n \in 1..Len(toDevice) : Len(toHost) + n + 1 <= Retries
        BY <1>0, <3>1
      <4> QED
        BY <1>4, <1>5, <4>1
    <3> QED
      BY <3>2, <3>3
  <2>2. CASE ~HasReturned
    <3>1. \A i \in 1..Current : calls[i].session # session
      <4> SUFFICES ASSUME NEW i \in 1..Current, calls[i].session = session
                   PROVE  FALSE
        OBVIOUS
      <4>1. Current \in 1..Current /\ Current > 0
        BY <1>0
      <4>2. calls[Current].session = session
        <5>1. calls[i].session <= calls[Current].session /\ calls[Current].session <= session
          BY <1>0, <4>1 DEF IInv, CallsInv, InSession
        <5> QED
          BY <1>0, <4>1, <5>1, OnTheirWay
      <4>3. calls[Current].state \notin {"waiting", "returned"}
        BY <1>0, <2>2, <4>1, <4>2 DEF Waiting, HasReturned
      <4>4. calls[Current].state # "abandoned"
        <5>1. calls[Current].state = "abandoned" => calls[Current].session < session
          BY <1>0, <4>1 DEF IInv, CallsInv, Ends
        <5> QED
          BY <1>0, <4>2, <5>1
      <4>5. calls[Current].state = "failed"
        BY <4>1, <4>3, <4>4, OnTheirWay DEF CallState
      <4>6. (~AfterFailure(Current))'
        BY DEF Clean
      <4>7. Current' - 1 = Current /\ Current' > 1
        BY <1>0, <1>3, <4>1
      <4>8. calls'[Current'].session = session /\ calls'[Current' - 1] = calls[Current]
        BY <1>1, <1>3, <4>1, <4>7
      <4> QED
        BY <4>2, <4>5, <4>6, <4>7, <4>8 DEF AfterFailure
    <3>2. ASSUME NEW m \in 1..Len(toHost) PROVE toHost[m].to = 0
      <4>1. /\ toHost[m].to \in 0..Current /\ Current \in Nat
            /\ toHost[m].to # 0 => calls[toHost[m].to].session = session
        BY <1>0, OnTheirWay
      <4> QED
        BY <3>1, <4>1
    <3>3. \A n \in 1..Len(toDevice') :
            toDevice'[n] # Current + 1 => calls'[toDevice'[n]].session # session
      <4>1. \A n \in 1..Len(toDevice) : calls'[toDevice[n]].session # session
        BY <1>0, <1>3, <3>1
      <4> QED
        BY <1>4, <1>5, <4>1
    <3> QED
      BY <3>2, <3>3
  <2> QED
    BY <2>1, <2>2
<1>9. StaleAnswersAreSkipped'
  <2> SUFFICES ASSUME NEW i \in 1..Current + 1, calls'[i].state = "failed", calls'[i].clean
               PROVE  i > 1 /\ calls'[i-1].session = calls'[i].session
                            /\ calls'[i-1].state = "failed"
    BY <1>3 DEF StaleAnswersAreSkipped
  <2>1. i \in 1..Current
    BY <1>0, <1>1, <1>3
  <2>2. i > 1 /\ calls[i-1].session = calls[i].session /\ calls[i-1].state = "failed"
    BY <1>3, <2>1 DEF StaleInv, StaleAnswersAreSkipped
  <2>3. i - 1 \in 1..Current
    BY <1>0, <2>1, <2>2
  <2> QED
    BY <1>3, <2>1, <2>2, <2>3
<1> QED
  BY <1>6, <1>7, <1>8, <1>9 DEF StaleInv

\* One frame is read, and what came in with its last bytes is dropped.
LEMMA ReceiveSpares ==
    ASSUME IInv, StaleInv, Receive
    PROVE  StaleInv'
<1>0. /\ TypeOK /\ Waiting /\ Len(toHost) \in Nat /\ toHost # <<>> /\ toHost \in Seq(Frame)
      /\ session' = session /\ open' = open
  BY OnTheirWay DEF Receive, IInv, TypeOK
<1>1. 1 \in 1..Len(toHost) /\ Head(toHost) = toHost[1]
  BY <1>0, HeadTailProperties
<1>2. PICK d \in 1..Len(toHost) : toHost' = SubSeq(toHost, d + 1, Len(toHost))
  BY DEF Receive
<1>3. /\ Len(toHost') \in Nat /\ Len(toHost') = Len(toHost) - d /\ d \in Nat /\ d >= 1
      /\ \A m \in 1..Len(toHost') : toHost'[m] = toHost[m + d]
  <2>1. /\ d \in Nat /\ d >= 1 /\ d + 1 \in 1..Len(toHost) + 1
    BY <1>0, <1>2
  <2>2. /\ Len(toHost') = Len(toHost) - d
        /\ \A m \in 1..Len(toHost) - d : toHost'[m] = toHost[(d + 1) + m - 1]
    BY <1>0, <1>2, <2>1, SubSeqProperties
  <2>3. \A m \in 1..Len(toHost) - d : (d + 1) + m - 1 = m + d
    BY <2>1, <1>0
  <2> QED
    BY <1>0, <1>2, <2>1, <2>2, <2>3
<1>4. CASE /\ Head(toHost) # Noise /\ Matches(Head(toHost))
           /\ calls' = [calls EXCEPT ![Current].state = "returned",
                                     ![Current].answer = Head(toHost).of]
           /\ UNCHANGED <<attempts, toDevice>>
  <2>0. toHost[1] # Noise /\ Matches(toHost[1])
    BY <1>1, <1>4
  <2>1. toHost[1].to = Current
    BY <1>0, <1>1, <2>0, MatchesItsOwn
  <2>a. toHost[1] \in Frame
    BY <1>0, <1>1, ElementOfSeq
  <2>2. Head(toHost).of \in Nat
    BY <1>1, <2>a DEF Frame
  <2>3. Len(toHost') < Len(toHost)
    BY <1>0, <1>3
  <2> QED
    BY <1>0, <1>1, <1>3, <1>4, <2>1, <2>2, <2>3, ReturnSpares
<1>5. CASE /\ Head(toHost) # Noise /\ ~Matches(Head(toHost))
           /\ NextAttempt(calls[Current].clean)
  <2>1. toHost[1].to \notin {0, Current}
    BY <1>1, <1>5, OnTheirWay DEF Matches
  <2>2. calls[Current].clean \in BOOLEAN
    BY <1>0, CurrentCall
  <2> QED
    BY <1>0, <1>1, <1>3, <1>5, <2>1, <2>2, AttemptSpares
<1>6. CASE Head(toHost) = Noise /\ NextAttempt(FALSE)
  BY <1>0, <1>3, <1>6, AttemptSpares
<1> QED
  BY <1>4, <1>5, <1>6 DEF Receive

\* The device handles a request, and its answer takes the request's place.
LEMMA HandleSpares ==
    ASSUME IInv, StaleInv, Handle
    PROVE  StaleInv'
<1> DEFINE i == Head(toDevice)
<1>0. /\ Len(toHost) \in Nat /\ Len(toDevice) \in Nat /\ toDevice # <<>>
      /\ toDevice \in Seq(1..Current) /\ toHost \in Seq(Frame)
      /\ toDevice' = Tail(toDevice) /\ UNCHANGED <<session, open, calls, attempts>>
  BY OnTheirWay DEF IInv, TypeOK, Handle
<1>a. /\ Head(toDevice) = toDevice[1] /\ Tail(toDevice) \in Seq(1..Current)
      /\ Len(Tail(toDevice)) = Len(toDevice) - 1
      /\ \A n \in 1..Len(Tail(toDevice)) : Tail(toDevice)[n] = toDevice[n + 1]
  BY <1>0, HeadTailProperties
<1>b. 1 \in 1..Len(toDevice)
  BY <1>0, EmptySeq
<1>c. toDevice[1] \in 1..Current
  BY <1>b, OnTheirWay
<1>1. /\ i = toDevice[1] /\ i \in 1..Current
      /\ Len(toDevice') \in Nat /\ Len(toDevice') = Len(toDevice) - 1
      /\ \A n \in 1..Len(toDevice') : toDevice'[n] = toDevice[n + 1]
  BY <1>0, <1>a, <1>c, LenProperties
<1>2. PICK f \in Frame : f.to = i /\ Reply(f, calls[i].session)
  <2>1. last \in Nat /\ i \in Nat
    BY <1>1, OnTheirWay, LinkTypes DEF IInv
  <2>2. [to |-> i, of |-> last] \in Frame /\ [to |-> i, of |-> i] \in Frame
    BY <2>1 DEF Frame
  <2> QED
    BY <2>2 DEF Handle
<1>3. CASE open /\ calls[i].session = session
  <2>1. toHost' = Append(toHost, f)
    BY <1>2, <1>3 DEF Reply
  <2>2. /\ Len(toHost') = Len(toHost) + 1 /\ toHost'[Len(toHost) + 1] = f
        /\ \A m \in 1..Len(toHost) : toHost'[m] = toHost[m]
    BY <1>0, <2>1, AppendProperties
  <2>3. \A m \in 1..Len(toHost') :
          \/ m + 0 \in 1..Len(toHost) /\ toHost'[m] = toHost[m + 0]
          \/ m = Len(toHost) + 1
    BY <1>0, <2>2
  <2>4. \A m \in 1..Len(toHost') :
          \/ toHost'[m].to = 0
          \/ m + 0 \in 1..Len(toHost) /\ toHost'[m] = toHost[m + 0]
          \/ /\ 0 = 0 /\ 1 = 1 /\ m = Len(toHost) + 1
             /\ toHost'[m].to = toDevice[1] /\ calls[toDevice[1]].session = session
    BY <1>1, <1>2, <1>3, <2>2, <2>3
  <2>5. Len(toHost') \in Nat /\ Len(toHost') <= Len(toHost) - 0 + 1
    BY <1>0, <2>2
  <2> HIDE DEF i
  <2> QED
    BY <1>0, <1>1, <2>4, <2>5, WireSpares
<1>4. CASE ~(open /\ calls[i].session = session)
  <2>1. toHost' = toHost
    BY <1>2, <1>4 DEF Reply
  <2>2. \A m \in 1..Len(toHost') : m + 0 \in 1..Len(toHost) /\ toHost'[m] = toHost[m + 0]
    BY <1>0, <2>1
  <2>3. Len(toHost') \in Nat /\ Len(toHost') <= Len(toHost) - 0 + 1
    BY <1>0, <2>1
  <2> HIDE DEF i
  <2> QED
    BY <1>0, <1>1, <2>2, <2>3, WireSpares
<1> QED
  BY <1>3, <1>4

\* A request is lost, or noise takes its place.
LEMMA LoseRequestSpares ==
    ASSUME IInv, StaleInv, LoseRequest
    PROVE  StaleInv'
<1>0. /\ Len(toHost) \in Nat /\ Len(toDevice) \in Nat /\ toDevice # <<>>
      /\ toDevice \in Seq(1..Current) /\ toHost \in Seq(Frame)
      /\ toDevice' = Tail(toDevice) /\ UNCHANGED <<session, open, calls, attempts>>
      /\ Noise \in Frame /\ Noise.to = 0
  BY OnTheirWay DEF IInv, TypeOK, LoseRequest, Noise, Frame
<1>1. /\ Len(toDevice') \in Nat /\ Len(toDevice') = Len(toDevice) - 1
      /\ \A n \in 1..Len(toDevice') : toDevice'[n] = toDevice[n + 1]
  BY <1>0, HeadTailProperties, LenProperties
<1>2. toHost' = toHost \/ toHost' = Append(toHost, Noise)
  BY DEF LoseRequest, Reply
<1>3. /\ Len(toHost') \in Nat /\ Len(toHost') <= Len(toHost) - 0 + 1
      /\ \A m \in 1..Len(toHost') :
           \/ toHost'[m].to = 0
           \/ m + 0 \in 1..Len(toHost) /\ toHost'[m] = toHost[m + 0]
  <2>1. CASE toHost' = toHost
    BY <1>0, <2>1
  <2>2. CASE toHost' = Append(toHost, Noise)
    <3>1. /\ Len(toHost') = Len(toHost) + 1 /\ toHost'[Len(toHost) + 1] = Noise
          /\ \A m \in 1..Len(toHost) : toHost'[m] = toHost[m]
      BY <1>0, <2>2, AppendProperties
    <3>2. \A m \in 1..Len(toHost') :
            (m + 0 \in 1..Len(toHost) /\ toHost'[m] = toHost[m + 0]) \/ m = Len(toHost) + 1
      BY <1>0, <3>1
    <3> QED
      BY <1>0, <3>1, <3>2
  <2> QED
    BY <1>2, <2>1, <2>2
<1>4. \A m \in 1..Len(toHost') :
           \/ toHost'[m].to = 0
           \/ m + 0 \in 1..Len(toHost) /\ toHost'[m] = toHost[m + 0]
           \/ /\ 0 = 0 /\ 1 = 1 /\ m = Len(toHost) + 1
              /\ toHost'[m].to = toDevice[1] /\ calls[toDevice[1]].session = session
  BY <1>3
<1>5. 0 \in Nat /\ 1 \in Nat
  OBVIOUS
<1> QED
  BY <1>0, <1>1, <1>3, <1>4, <1>5, WireSpares

\* An answer is lost, or noise takes its place.
LEMMA LoseAnswerSpares ==
    ASSUME IInv, StaleInv, LoseAnswer
    PROVE  StaleInv'
<1>0. /\ Len(toHost) \in Nat /\ Len(toDevice) \in Nat /\ toHost # <<>>
      /\ toHost \in Seq(Frame)
      /\ toDevice' = toDevice /\ UNCHANGED <<session, open, calls, attempts>>
      /\ Noise \in Frame /\ Noise.to = 0
  BY OnTheirWay DEF IInv, TypeOK, LoseAnswer, Noise, Frame
<1>1. /\ Tail(toHost) \in Seq(Frame) /\ Len(Tail(toHost)) = Len(toHost) - 1
      /\ \A m \in 1..Len(Tail(toHost)) : Tail(toHost)[m] = toHost[m + 1]
      /\ Len(Tail(toHost)) \in Nat
  BY <1>0, HeadTailProperties, LenProperties
<1>2. CASE toHost' = Tail(toHost)
  <2>1. /\ Len(toHost') \in Nat /\ Len(toHost') <= Len(toHost) - 1 + 0
        /\ \A m \in 1..Len(toHost') : m + 1 \in 1..Len(toHost) /\ toHost'[m] = toHost[m + 1]
    BY <1>0, <1>1, <1>2
  <2>2. /\ Len(toDevice') \in Nat /\ Len(toDevice') = Len(toDevice) - 0
        /\ \A n \in 1..Len(toDevice') : toDevice'[n] = toDevice[n + 0]
    BY <1>0
  <2>3. \A m \in 1..Len(toHost') :
           \/ toHost'[m].to = 0
           \/ m + 1 \in 1..Len(toHost) /\ toHost'[m] = toHost[m + 1]
           \/ /\ 1 = 0 /\ 0 = 1 /\ m = Len(toHost) + 1
              /\ toHost'[m].to = toDevice[1] /\ calls[toDevice[1]].session = session
    BY <2>1
  <2>4. 0 \in Nat /\ 1 \in Nat
    OBVIOUS
  <2> QED
    BY <1>0, <2>1, <2>2, <2>3, <2>4, WireSpares
<1>3. CASE toHost' = <<Noise>> \o Tail(toHost)
  <2>1. /\ <<Noise>> \in Seq(Frame) /\ Len(<<Noise>>) = 1 /\ <<Noise>>[1] = Noise
    BY <1>0
  <2>2. /\ toHost' \in Seq(Frame) /\ Len(toHost') = 1 + Len(Tail(toHost))
        /\ \A m \in 1..1 + Len(Tail(toHost)) :
             toHost'[m] = IF m <= 1 THEN <<Noise>>[m] ELSE Tail(toHost)[m - 1]
    BY <1>1, <1>3, <2>1, ConcatProperties
  <2>3. \A m \in 1..Len(toHost') :
          \/ toHost'[m].to = 0
          \/ m + 0 \in 1..Len(toHost) /\ toHost'[m] = toHost[m + 0]
    <3> SUFFICES ASSUME NEW m \in 1..Len(toHost')
                 PROVE  \/ toHost'[m] = Noise
                        \/ m + 0 \in 1..Len(toHost) /\ toHost'[m] = toHost[m + 0]
      BY <1>0
    <3>0. m \in 1..1 + Len(Tail(toHost)) /\ m \in Nat
      BY <1>1, <2>2
    <3>1. CASE m = 1
      BY <2>1, <2>2, <3>0, <3>1
    <3>2. CASE m # 1
      <4>1. m - 1 \in 1..Len(Tail(toHost)) /\ m \in 1..Len(toHost) /\ ~(m <= 1)
        BY <1>0, <1>1, <3>0, <3>2
      <4>2. toHost'[m] = toHost[(m - 1) + 1]
        BY <1>1, <2>2, <3>0, <4>1
      <4> QED
        BY <3>0, <4>1, <4>2
    <3> QED
      BY <3>1, <3>2
  <2>4. Len(toHost') \in Nat /\ Len(toHost') <= Len(toHost) - 0 + 0
    BY <1>0, <1>1, <2>2
  <2>5. /\ Len(toDevice') \in Nat /\ Len(toDevice') = Len(toDevice) - 0
        /\ \A n \in 1..Len(toDevice') : toDevice'[n] = toDevice[n + 0]
    BY <1>0
  <2>6. \A m \in 1..Len(toHost') :
           \/ toHost'[m].to = 0
           \/ m + 0 \in 1..Len(toHost) /\ toHost'[m] = toHost[m + 0]
           \/ /\ 0 = 0 /\ 0 = 1 /\ m = Len(toHost) + 1
              /\ toHost'[m].to = toDevice[1] /\ calls[toDevice[1]].session = session
    BY <2>3
  <2>7. 0 \in Nat
    OBVIOUS
  <2> QED
    BY <1>0, <2>4, <2>5, <2>6, <2>7, WireSpares
<1> QED
  BY <1>2, <1>3 DEF LoseAnswer

\* Opening, closing and giving up: no call waits.
LEMMA IdleSpares ==
    ASSUME IInv, StaleInv, Connect \/ Disconnect \/ Abandon
    PROVE  StaleInv'
<1>0. /\ TypeOK /\ Current \in Nat /\ session \in Nat
      /\ \A i \in 1..Current : calls[i].session \in Nat
  BY OnTheirWay DEF IInv
<1>1. CASE Connect
  <2>1. ~open /\ session' = session + 1 /\ calls' = calls /\ Current' = Current
    BY <1>1 DEF Connect, Current
  <2>2. ~Waiting'
    <3>1. Current > 0 => calls[Current].state # "waiting"
      BY <1>0, <2>1 DEF IInv, CallsInv, Ends
    <3> QED
      BY <2>1, <3>1 DEF Waiting
  <2>3. ~HasReturned'
    <3>1. Current > 0 => calls[Current].session <= session /\ calls[Current].session \in Nat
      BY <1>0 DEF IInv, CallsInv, InSession
    <3> QED
      BY <1>0, <2>1, <3>1 DEF HasReturned
  <2>4. StaleAnswersAreSkipped'
    BY <2>1 DEF StaleInv, StaleAnswersAreSkipped
  <2> QED
    BY <2>2, <2>3, <2>4 DEF StaleInv, Owed, Drained, Spared, Clean
<1>2. CASE Disconnect
  <2>1. ~open' /\ calls' = calls /\ Current' = Current /\ ~Waiting
    BY <1>2 DEF Disconnect, Current
  <2>2. ~Waiting' /\ ~HasReturned'
    BY <2>1 DEF Waiting, HasReturned
  <2>3. StaleAnswersAreSkipped'
    BY <2>1 DEF StaleInv, StaleAnswersAreSkipped
  <2> QED
    BY <2>2, <2>3 DEF StaleInv, Owed, Drained, Spared, Clean
<1>3. CASE Abandon
  <2>1. /\ Waiting /\ ~open' /\ calls' = [calls EXCEPT ![Current].state = "abandoned"]
        /\ Current \in 1..Current /\ calls[Current] \in CallRecord
    BY <1>0, <1>3, LinkTypes DEF Abandon, Waiting
  <2> DEFINE r == [calls[Current] EXCEPT !.state = "abandoned"]
  <2>2. r \in CallRecord /\ r.state = "abandoned" /\ r.session = calls[Current].session
    BY <2>1 DEF CallRecord, CallState
  <2>3. calls' = [calls EXCEPT ![Current] = r]
    BY <2>1
  <2>4. /\ Current' = Current
        /\ \A i \in 1..Current : calls'[i] = IF i = Current THEN r ELSE calls[i]
    BY <1>0, <2>1, <2>2, <2>3, OneCallChanges
  <2> HIDE DEF r
  <2>5. ~Waiting' /\ ~HasReturned'
    BY <2>1, <2>2, <2>4 DEF Waiting, HasReturned
  <2>6. StaleAnswersAreSkipped'
    <3> SUFFICES ASSUME NEW i \in 1..Current, calls'[i].state = "failed", calls'[i].clean
                 PROVE  i > 1 /\ calls'[i-1].session = calls'[i].session
                              /\ calls'[i-1].state = "failed"
      BY <2>4 DEF StaleAnswersAreSkipped
    <3>1. i # Current /\ calls'[i] = calls[i]
      BY <2>2, <2>4
    <3>2. i > 1 /\ calls[i-1].session = calls[i].session /\ calls[i-1].state = "failed"
      BY <3>1 DEF StaleInv, StaleAnswersAreSkipped
    <3>3. i - 1 \in 1..Current /\ i - 1 # Current
      BY <1>0, <3>2
    <3> QED
      BY <2>4, <3>1, <3>2, <3>3
  <2> QED
    BY <2>5, <2>6 DEF StaleInv, Owed, Drained, Spared, Clean
<1> QED
  BY <1>1, <1>2, <1>3

LEMMA StepSpares ==
    ASSUME IInv, StaleInv, [Next]_vars
    PROVE  StaleInv'
<1>1. CASE Connect \/ Disconnect \/ Abandon
  BY <1>1, IdleSpares
<1>2. CASE \E c \in Cmd : Send(c)
  BY <1>2, SendSpares
<1>3. CASE Timeout
  <2>1. /\ Waiting /\ NextAttempt(FALSE) /\ UNCHANGED <<session, open, toHost>>
        /\ Len(toHost) \in Nat /\ FALSE \in BOOLEAN
    BY <1>3, OnTheirWay DEF Timeout
  <2>2. /\ 0 \in Nat /\ Len(toHost') \in Nat /\ Len(toHost') = Len(toHost) - 0
        /\ \A m \in 1..Len(toHost') : toHost'[m] = toHost[m + 0]
    BY <2>1
  <2> QED
    BY <2>1, <2>2, AttemptSpares
<1>4. CASE Receive
  BY <1>4, ReceiveSpares
<1>5. CASE Handle
  BY <1>5, HandleSpares
<1>6. CASE LoseRequest
  BY <1>6, LoseRequestSpares
<1>7. CASE LoseAnswer
  BY <1>7, LoseAnswerSpares
<1>8. CASE UNCHANGED vars
  BY <1>8 DEF vars, StaleInv, Owed, Drained, Spared, Clean, AfterFailure, HasReturned,
     Waiting, Current, StaleAnswersAreSkipped
<1> QED
  BY <1>1, <1>2, <1>3, <1>4, <1>5, <1>6, <1>7, <1>8 DEF Next, HostStep

\* A call that every attempt was answered in time fails only right after a
\* failed one: an attempt that reads a late answer uses it up, and the call
\* before it left fewer of them than there are attempts (_exchange).
THEOREM LinkSkipsStaleAnswers == Spec => []StaleAnswersAreSkipped
<1>1. Init => StaleInv
  <2> SUFFICES ASSUME Init PROVE StaleInv
    OBVIOUS
  <2>1. Current = 0 /\ 1..0 = {}
    BY EmptySeq DEF Init, Current
  <2>2. ~Waiting /\ ~HasReturned
    BY <2>1 DEF Waiting, HasReturned
  <2> QED
    BY <2>1, <2>2 DEF StaleInv, Owed, Drained, Spared, Clean, StaleAnswersAreSkipped
<1>2. IInv /\ StaleInv /\ [Next]_vars => StaleInv'
  BY StepSpares
<1>3. StaleInv => StaleAnswersAreSkipped
  BY DEF StaleInv
<1> QED
  BY <1>1, <1>2, <1>3, LinkInvariant, PTL DEF Spec
=============================================================================
