----------------------------- MODULE ByteStream -----------------------------
(***************************************************************************)
(* What a relayed connection promises the two programs at its ends: the    *)
(* bytes of each arrive at the other in order and all of them, the end of  *)
(* one direction is seen after its last byte and does not end the other    *)
(* direction, and a program that does not read holds up nobody but itself. *)
(* A connection that breaks promises no more than a prefix of the bytes.   *)
(***************************************************************************)
EXTENDS Naturals, Sequences

CONSTANTS Side, Peer(_), MaxBytes

VARIABLES sent, shut, reads, got, end, broken

vars == <<sent, shut, reads, got, end, broken>>

Init ==
    /\ sent = [s \in Side |-> <<>>] /\ got = [s \in Side |-> <<>>]
    /\ shut = [s \in Side |-> FALSE]
    /\ reads \in [Side -> BOOLEAN]
    /\ end = [s \in Side |-> "open"]
    /\ broken \in BOOLEAN

Send(s) ==
    /\ ~shut[s] /\ Len(sent[s]) < MaxBytes
    /\ sent' = [sent EXCEPT ![s] = Append(@, Len(@) + 1)]
    /\ UNCHANGED <<shut, reads, got, end, broken>>

Shut(s) ==
    /\ ~shut[s] /\ shut' = [shut EXCEPT ![s] = TRUE]
    /\ UNCHANGED <<sent, reads, got, end, broken>>

Rest(s) == Len(sent[Peer(s)]) - Len(got[s])

Deliver(s) ==
    /\ reads[s] /\ end[s] = "open"
    /\ \E k \in 1..Rest(s) :
          got' = [got EXCEPT ![s] = SubSeq(sent[Peer(s)], 1, Len(@) + k)]
    /\ UNCHANGED <<sent, shut, reads, end, broken>>

Eof(s) ==
    /\ reads[s] /\ end[s] = "open"
    /\ broken \/ (shut[Peer(s)] /\ Rest(s) = 0)
    /\ end' = [end EXCEPT ![s] = "eof"]
    /\ UNCHANGED <<sent, shut, reads, got, broken>>

Reset(s) ==
    /\ broken /\ reads[s] /\ end[s] = "open"
    /\ end' = [end EXCEPT ![s] = "reset"]
    /\ UNCHANGED <<sent, shut, reads, got, broken>>

\* A program that goes away closes its own direction and reads no more.
Break ==
    /\ broken' = TRUE
    /\ \/ UNCHANGED <<shut, reads>>
       \/ \E s \in Side : /\ shut' = [shut EXCEPT ![s] = TRUE]
                          /\ reads' = [reads EXCEPT ![s] = FALSE]
    /\ UNCHANGED <<sent, got, end>>

Next == Break \/ \E s \in Side : Send(s) \/ Shut(s) \/ Deliver(s) \/ Eof(s) \/ Reset(s)

\* What may happen, and what has to.
Safely == Init /\ [][Next]_vars
Fairness == \A s \in Side : WF_vars(~broken /\ Deliver(s)) /\ WF_vars(~broken /\ Eof(s))

Spec == Safely /\ Fairness
=============================================================================
