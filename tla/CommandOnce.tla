---------------------------- MODULE CommandOnce ----------------------------
(***************************************************************************)
(* What the callers of PmDevice._exchange rely on: calls reach the device  *)
(* at most once each and in the order they were made, and a call that      *)
(* returns brings the answer of its own execution, never of another's.  A  *)
(* call that ends without an answer may have been executed or not, and may *)
(* still be executed until a later one is.                                 *)
(***************************************************************************)
EXTENDS Integers, Sequences

VARIABLES called,   \* how many calls were made; they are numbered from 1
          executed, \* the calls the device executed, in that order
          answer    \* the execution whose answer each returned call brought

vars == <<called, executed, answer>>

Init == called = 0 /\ executed = <<>> /\ answer = <<>>

Call ==
    /\ called' = called + 1
    /\ answer' = Append(answer, 0)
    /\ UNCHANGED executed

Execute(i) ==
    /\ i \in 1..called
    /\ \A n \in 1..Len(executed) : executed[n] < i
    /\ executed' = Append(executed, i)
    /\ UNCHANGED <<called, answer>>

Return(i) ==
    /\ i \in 1..called /\ answer[i] = 0
    /\ \E n \in 1..Len(executed) : executed[n] = i
    /\ answer' = [answer EXCEPT ![i] = i]
    /\ UNCHANGED <<called, executed>>

Next == Call \/ \E i \in 1..called : Execute(i) \/ Return(i)

Spec == Init /\ [][Next]_vars
=============================================================================
