------------------------------- MODULE PmLink -------------------------------
(***************************************************************************)
(* The protocol link to a Datecs PM device: PmDevice._exchange with its    *)
(* sequence numbers, retries and timeouts                                  *)
(* (drivers/fiscal/datecs_pm/pm_v2_11_4.py), the frames (frame.py), the    *)
(* TCP connection they travel on (transport_tcp.py), the device's end of   *)
(* it (transport_virtual.py), and the driver that is made, opened and      *)
(* closed for each use of the printer, given up after 8 s by the status    *)
(* route (server/service.py, server/routes/printers.py).                   *)
(*                                                                         *)
(* A call is one run of _exchange.  Its number stands for its frame: the   *)
(* frame of call i carries calls[i].seq and calls[i].cmd.                  *)
(***************************************************************************)
EXTENDS Integers, Sequences

CONSTANTS Cmd,         \* command codes
          SeqCount,    \* sequence numbers before they repeat: 0x20..0xFF
          Retries,     \* attempts of one call
          MaxFailures, \* failed calls in a row before a user gives up
          MaxCalls, MaxSessions   \* bounds

ASSUME LinkAssumption ==
    /\ SeqCount \in Nat /\ Retries \in Nat \ {0} /\ MaxFailures \in Nat
    /\ MaxFailures + 1 < SeqCount
    /\ MaxCalls \in Nat /\ MaxSessions \in Nat

VARIABLES
    session,  \* number of the connection; 0 before the first one
    open,     \* is it open?
    calls,    \* every call so far
    attempts, \* how often the current call was written
    toDevice, \* requests the device has not read yet
    toHost,   \* what the device sent on this connection and nobody read
    last,     \* the call the device handled last on this connection; 0: none
    executed  \* the calls the device executed, in that order

vars == <<session, open, calls, attempts, toDevice, toHost, last, executed>>

CallState == {"waiting", "returned", "failed", "abandoned"}
\* "clean": no attempt of the call timed out or was answered by noise.
CallRecord == [session : Nat, seq : 0..SeqCount-1, cmd : Cmd, state : CallState,
               answer : Nat, clean : BOOLEAN]

\* A frame of the device: the request it names and the execution it reports,
\* or noise (a NAK, or a frame whose checksum is wrong).
Noise == [to |-> 0, of |-> 0]
Frame == [to : Nat, of : Nat]

Current == Len(calls)
Waiting == Current > 0 /\ calls[Current].state = "waiting"

TypeOK ==
    /\ session \in 0..MaxSessions
    /\ open \in BOOLEAN
    /\ calls \in Seq(CallRecord) /\ Current <= MaxCalls
    /\ attempts \in 0..Retries
    /\ toDevice \in Seq(1..Current)
    /\ toHost \in Seq(Frame)
    /\ last \in 0..Current
    /\ executed \in Seq(1..Current)

Init ==
    /\ session = 0 /\ open = FALSE
    /\ calls = <<>> /\ attempts = 0
    /\ toDevice = <<>> /\ toHost = <<>>
    /\ last = 0 /\ executed = <<>>

-----------------------------------------------------------------------------
(* The driver: made, opened and closed for each use of the printer.        *)

\* make_driver, open: a new connection; the driver counts from 0x20 again.
Connect ==
    /\ ~open /\ session < MaxSessions
    /\ session' = session + 1
    /\ open' = TRUE
    /\ toHost' = <<>>
    /\ UNCHANGED <<calls, attempts, toDevice, last, executed>>

\* close: what the device sends on this connection from now on is lost.
Disconnect ==
    /\ open /\ ~Waiting
    /\ open' = FALSE
    /\ toHost' = <<>>
    /\ UNCHANGED <<session, calls, attempts, toDevice, last, executed>>

\* wait_for(8 s): the coroutine is cancelled and closes the connection under
\* the worker thread, which may just have written once more.
Abandon ==
    /\ open /\ Waiting
    /\ open' = FALSE
    /\ calls' = [calls EXCEPT ![Current].state = "abandoned"]
    /\ toHost' = <<>>
    /\ \/ toDevice' = toDevice
       \/ attempts < Retries /\ toDevice' = Append(toDevice, Current)
    /\ UNCHANGED <<session, attempts, last, executed>>

\* The calls of this connection.
CallsOf(s) == {i \in 1..Current : calls[i].session = s}

\* Mutant: the number is not wrapped.
NextSeqUnwrapped ==
    IF CallsOf(session) = {} THEN 0 ELSE calls[Current].seq + 1

\* _next_seq: the first call has 0x20, the one after 0xFF too.
NextSeq ==
    IF CallsOf(session) = {} THEN 0
    ELSE IF calls[Current].seq = SeqCount - 1 THEN 0 ELSE calls[Current].seq + 1

\* Every call since the last one that returned has failed: how many?
GaveUp == \E i \in 1..Current :
            /\ Current - i >= MaxFailures
            /\ \A j \in i..Current :
                calls[j].session = session /\ calls[j].state = "failed"

\* _exchange: encode the request and write it for the first time.
Send(c) ==
    /\ open /\ ~Waiting /\ ~GaveUp /\ Current < MaxCalls
    /\ calls' = Append(calls,
                  [session |-> session, seq |-> NextSeq, cmd |-> c,
                   state |-> "waiting", answer |-> 0, clean |-> TRUE])
    /\ attempts' = 1
    /\ toDevice' = Append(toDevice, Current + 1)
    /\ UNCHANGED <<session, open, toHost, last, executed>>

\* Mutant: the attempts are not counted.
NextAttemptEndless(clean) ==
    /\ toDevice' = IF Len(toDevice) < 2 THEN Append(toDevice, Current) ELSE toDevice
    /\ calls' = [calls EXCEPT ![Current].clean = clean]
    /\ UNCHANGED attempts

\* "continue": the same request again, or TransportError after the last try.
NextAttempt(clean) ==
    IF attempts < Retries
    THEN /\ attempts' = attempts + 1
         /\ toDevice' = Append(toDevice, Current)
         /\ calls' = [calls EXCEPT ![Current].clean = clean]
    ELSE /\ calls' = [calls EXCEPT ![Current].state = "failed",
                                   ![Current].clean = clean]
         /\ UNCHANGED <<attempts, toDevice>>

\* No first byte within 500 ms, or no end of the frame before the deadline.
Timeout ==
    /\ open /\ Waiting
    /\ NextAttempt(FALSE)
    /\ UNCHANGED <<session, open, toHost, last, executed>>

\* Mutant: only the command code of an answer is compared.
MatchesCmd(f) == calls[f.to].cmd = calls[Current].cmd

\* Does a frame answer the current call?  SEQ and CMD must be its own.
Matches(f) ==
    /\ calls[f.to].seq = calls[Current].seq
    /\ calls[f.to].cmd = calls[Current].cmd

\* Mutant: an answer that is not the current call's ends the exchange.
ReceiveStrictly ==
    /\ open /\ Waiting /\ toHost # <<>>
    /\ toHost' = Tail(toHost)
    /\ \/ /\ Head(toHost) # Noise /\ Matches(Head(toHost))
          /\ calls' = [calls EXCEPT ![Current].state = "returned",
                                    ![Current].answer = Head(toHost).of]
          /\ UNCHANGED <<attempts, toDevice>>
       \/ /\ Head(toHost) # Noise /\ ~Matches(Head(toHost))
          /\ calls' = [calls EXCEPT ![Current].state = "failed"]
          /\ UNCHANGED <<attempts, toDevice>>
       \/ Head(toHost) = Noise /\ NextAttempt(FALSE)
    /\ UNCHANGED <<session, open, last, executed>>

\* One frame is read; read_until drops what came in with its last bytes.
Receive ==
    /\ open /\ Waiting /\ toHost # <<>>
    /\ \E n \in 1..Len(toHost) : toHost' = SubSeq(toHost, n + 1, Len(toHost))
    /\ \/ /\ Head(toHost) # Noise /\ Matches(Head(toHost))
          /\ calls' = [calls EXCEPT ![Current].state = "returned",
                                    ![Current].answer = Head(toHost).of]
          /\ UNCHANGED <<attempts, toDevice>>
       \/ /\ Head(toHost) # Noise /\ ~Matches(Head(toHost))
          /\ NextAttempt(calls[Current].clean)
       \/ Head(toHost) = Noise /\ NextAttempt(FALSE)
    /\ UNCHANGED <<session, open, last, executed>>

-----------------------------------------------------------------------------
(* The device and the wire.                                                *)

Reply(f, s) == toHost' = IF open /\ s = session THEN Append(toHost, f) ELSE toHost

\* Is request i a repetition of the one handled last on its connection?
Repeats(i) ==
    /\ last # 0
    /\ calls[last].session = calls[i].session
    /\ calls[last].seq = calls[i].seq
    /\ calls[last].cmd = calls[i].cmd

\* The device handles the next request, or repeats its last answer.
Handle ==
    /\ toDevice # <<>>
    /\ LET i == Head(toDevice) IN
        IF Repeats(i)
        THEN /\ Reply([to |-> i, of |-> last], calls[i].session)
             /\ UNCHANGED <<last, executed>>
        ELSE /\ executed' = Append(executed, i)
             /\ last' = i
             /\ Reply([to |-> i, of |-> i], calls[i].session)
    /\ toDevice' = Tail(toDevice)
    /\ UNCHANGED <<session, open, calls, attempts>>

\* A request is lost or arrives damaged: the device says nothing, or NAK.
LoseRequest ==
    /\ toDevice # <<>>
    /\ toDevice' = Tail(toDevice)
    /\ toHost' = toHost \/ Reply(Noise, calls[Head(toDevice)].session)
    /\ UNCHANGED <<session, open, calls, attempts, last, executed>>

\* An answer is lost or damaged on its way.
LoseAnswer ==
    /\ toHost # <<>>
    /\ toHost' = Tail(toHost) \/ toHost' = <<Noise>> \o Tail(toHost)
    /\ UNCHANGED <<session, open, calls, attempts, toDevice, last, executed>>

-----------------------------------------------------------------------------
HostStep == Timeout \/ Receive

Next ==
    \/ Connect \/ Disconnect \/ Abandon
    \/ \E c \in Cmd : Send(c)
    \/ HostStep
    \/ Handle \/ LoseRequest \/ LoseAnswer

Spec == Init /\ [][Next]_vars

\* The worker thread runs: a read ends with a frame or by its timeout.
FairSpec == Spec /\ WF_vars(HostStep)

-----------------------------------------------------------------------------
(* Properties.                                                             *)

Answers == [i \in 1..Current |-> calls[i].answer]

Once == INSTANCE CommandOnce
          WITH called <- Current, answer <- Answers

\* A command that is repeated after a lost answer, or overtaken by a late
\* one, is executed at most once and in its turn, and what _exchange returns
\* is the answer of this command (CommandOnce).
RefinesCommandOnce == Once!Spec

\* Late answers do not make the link fail for ever: a call that every
\* attempt was answered in time fails only right after a failed call, since
\* a call that returned leaves fewer stale answers than there are attempts.
StaleAnswersAreSkipped ==
    \A i \in 1..Current :
        calls[i].state = "failed" /\ calls[i].clean =>
            i > 1 /\ calls[i-1].session = calls[i].session
                  /\ calls[i-1].state = "failed"

\* Every exchange ends, by an answer, an error or the route's timeout,
\* whatever the device does.
EveryCallEnds == \A i \in 1..MaxCalls :
    (i <= Current /\ calls[i].state = "waiting") ~>
        (i <= Current /\ calls[i].state # "waiting")
=============================================================================
