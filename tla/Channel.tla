------------------------------ MODULE Channel -------------------------------
(***************************************************************************)
(* What a pipe promises: a byte channel of bounded capacity that delivers  *)
(* every byte once and in order, reports end of file only after the last   *)
(* byte, and breaks only when its reader has gone.  The n-th byte sent is  *)
(* the number n.                                                           *)
(***************************************************************************)
EXTENDS Integers, Sequences

CONSTANTS Tasks, Capacity, Ends

VARIABLES
    Open,      \* the ends that somebody still holds
    sent,      \* the number of bytes accepted
    received,  \* the bytes handed out
    result     \* what the last call of a task returned

Init ==
    /\ Open = Ends /\ sent = 0 /\ received = <<>>
    /\ result = [t \in Tasks |-> "none"]

\* A writer hands in n bytes, as many as there is room for.
Send(n) ==
    /\ sent + n - Len(received) <= Capacity
    /\ sent' = sent + n
    /\ UNCHANGED <<Open, received, result>>

\* A reader takes the n oldest bytes.
Receive(n) ==
    /\ Len(received) + n <= sent
    /\ received' = received \o [i \in 1..n |-> Len(received) + i]
    /\ UNCHANGED <<Open, sent, result>>

\* The calls' results: a call starts, returns data, or finds the channel ended.
Answer(t) ==
    /\ \/ \E r \in {"none", "data"} : result' = [result EXCEPT ![t] = r]
       \/ "w" \notin Open /\ Len(received) = sent /\ result' = [result EXCEPT ![t] = "eof"]
       \/ "r" \notin Open /\ result' = [result EXCEPT ![t] = "broken"]
    /\ UNCHANGED <<Open, sent, received>>

\* The last holders of the ends E let go.
CloseEnds(E) ==
    /\ Open' = Open \ E
    /\ UNCHANGED <<sent, received, result>>

Next ==
    \/ \E n \in 1..Capacity : Send(n) \/ Receive(n)
    \/ \E t \in Tasks : Answer(t)
    \/ \E E \in SUBSET Ends : CloseEnds(E)

Spec == Init /\ [][Next]_<<Open, sent, received, result>>
=============================================================================
