----------------------------- MODULE StreamRelay -----------------------------
(***************************************************************************)
(* One connection through spind: a program on the host, the relay process  *)
(* of the host, a vsock connection, the relay in the guest agent and a     *)
(* program in the guest.  A Docker connection has streamrelay.RelayFramed  *)
(* at both ends of the vsock, a forwarded port has RelayRaw on the host    *)
(* and relay.Buffered, after a CONNECT line, in the guest.                 *)
(*                                                                         *)
(* Each relay copies in two goroutines, one per direction; a copy moves    *)
(* some of the bytes that have come in as soon as the next buffer has      *)
(* room.  Any of the processes may die and the vsock may break.            *)
(***************************************************************************)
EXTENDS Naturals, Sequences

CONSTANTS
    MaxBytes,   \* bound: what a program sends
    Cap         \* bound: the bytes a socket buffer takes in before it is full

ASSUME StreamConstants == MaxBytes \in Nat /\ Cap \in Nat \ {0}

Side == {"host", "guest"}
Peer(s) == IF s = "host" THEN "guest" ELSE "host"

VARIABLES
    kind,      \* "docker" or "port"
    sent,      \* sent[s]: the bytes the program at s has written
    shut,      \* shut[s]: it has ended its direction
    reads,     \* reads[s]: it reads what comes in
    got,       \* got[s]: the bytes it has read
    end,       \* end[s]: how its incoming direction has ended
    toRelay,   \* toRelay[s]: from the program at s to its relay
    toApp,     \* toApp[s]: from the relay at s to the program
    wire,      \* wire[s]: from the relay at s over the vsock
    stage,     \* stage[s]: where the relay at s is
    copy,      \* copy[s]: its two goroutines
    cut,       \* the vsock connection has been reset
    fault      \* whose program has exited, or "other"; bound: one in a connection

apps == <<sent, shut, reads, got, end>>
vars == <<kind, sent, shut, reads, got, end, toRelay, toApp, wire, stage, copy, cut, fault>>

\* A buffer, and how it ends: a FIN, a reset, or the frame frameCloseWrite.
Pipe == [bytes : Seq(Nat), end : {"no", "fin", "rst", "close"}]
Empty == [bytes |-> <<>>, end |-> "no"]

Copying == {"copy", "ok", "err"}

TypeOK ==
    /\ kind \in {"docker", "port"}
    /\ sent \in [Side -> Seq(Nat)] /\ got \in [Side -> Seq(Nat)]
    /\ shut \in [Side -> BOOLEAN] /\ reads \in [Side -> BOOLEAN]
    /\ end \in [Side -> {"open", "eof", "reset"}]
    /\ toRelay \in [Side -> Pipe] /\ toApp \in [Side -> Pipe] /\ wire \in [Side -> Pipe]
    /\ stage \in [Side -> {"none", "dial", "connect", "relay", "closing", "closed"}]
    /\ copy \in [Side -> [out : Copying, in : Copying]]
    /\ cut \in BOOLEAN /\ fault \in Side \cup {"no", "other"}
    /\ (kind = "docker" => stage["host"] # "connect") /\ stage["guest"] # "connect"
    /\ stage["host"] # "closing"

Init ==
    /\ kind \in {"docker", "port"}
    /\ sent = [s \in Side |-> <<>>] /\ got = [s \in Side |-> <<>>]
    /\ shut = [s \in Side |-> FALSE] /\ reads \in [Side -> BOOLEAN]
    /\ end = [s \in Side |-> "open"]
    /\ toRelay = [s \in Side |-> Empty] /\ toApp = [s \in Side |-> Empty]
    /\ wire = [s \in Side |-> Empty]
    /\ stage = [host |-> "dial", guest |-> "none"]
    /\ copy = [s \in Side |-> [out |-> "copy", in |-> "copy"]]
    /\ cut = FALSE /\ fault = "no"

-----------------------------------------------------------------------------
Add(p, bytes) == [p EXCEPT !.bytes = @ \o bytes]
Drop(p, k) == [p EXCEPT !.bytes = SubSeq(@, k + 1, Len(@))]
EndWith(p, e) == [p EXCEPT !.end = IF @ = "no" THEN e ELSE @]
Room(p) == Len(p.bytes) < Cap

(* The programs *)

\* A program writes until its relay has closed the socket.
Connected(s) ==
    stage[s] \notin {"none", "closing", "closed"} /\ (s = "guest" => stage[s] = "relay")

AppSend(s) ==
    /\ Connected(s) /\ ~shut[s] /\ Len(sent[s]) < MaxBytes /\ Room(toRelay[s])
    /\ sent' = [sent EXCEPT ![s] = Append(@, Len(@) + 1)]
    /\ toRelay' = [toRelay EXCEPT ![s] = Add(@, <<Len(sent[s]) + 1>>)]
    /\ UNCHANGED <<kind, shut, reads, got, end, toApp, wire, stage, copy, cut, fault>>

AppShut(s) ==
    /\ Connected(s) /\ ~shut[s]
    /\ shut' = [shut EXCEPT ![s] = TRUE]
    /\ toRelay' = [toRelay EXCEPT ![s] = EndWith(@, "fin")]
    /\ UNCHANGED <<kind, sent, reads, got, end, toApp, wire, stage, copy, cut, fault>>

AppRead(s) ==
    /\ reads[s] /\ end[s] = "open" /\ toApp[s].bytes # <<>>
    /\ got' = [got EXCEPT ![s] = @ \o toApp[s].bytes]
    /\ toApp' = [toApp EXCEPT ![s].bytes = <<>>]
    /\ UNCHANGED <<kind, sent, shut, reads, end, toRelay, wire, stage, copy, cut, fault>>

\* A reset may overtake the bytes before it.
AppEnd(s) ==
    /\ reads[s] /\ end[s] = "open"
    /\ \/ toApp[s].end = "rst" /\ end' = [end EXCEPT ![s] = "reset"]
       \/ toApp[s] = [bytes |-> <<>>, end |-> "fin"] /\ end' = [end EXCEPT ![s] = "eof"]
    /\ UNCHANGED <<kind, sent, shut, reads, got, toRelay, toApp, wire, stage, copy, cut, fault>>

-----------------------------------------------------------------------------
(* Setting the connection up *)

\* A Docker relay that waits for OK as a port relay does.
HostDial_Waits ==
    /\ stage["host"] = "dial"
    /\ stage' = [host |-> "connect", guest |-> "dial"]
    /\ UNCHANGED <<kind, apps, toRelay, toApp, wire, copy, cut, fault>>

\* The host relay has accepted and dials the guest; a port relay then waits
\* for OK, which the guest sends when it has reached the target.
HostDial ==
    /\ stage["host"] = "dial"
    /\ stage' = [host |-> IF kind = "docker" THEN "relay" ELSE "connect", guest |-> "dial"]
    /\ UNCHANGED <<kind, apps, toRelay, toApp, wire, copy, cut, fault>>

GuestDial ==
    /\ stage["guest"] = "dial"
    /\ stage' = [stage EXCEPT !["guest"] = "relay"]
    /\ UNCHANGED <<kind, apps, toRelay, toApp, wire, copy, cut, fault>>

HostConnected ==
    /\ stage["host"] = "connect" /\ stage["guest"] = "relay" /\ ~cut
    /\ stage' = [stage EXCEPT !["host"] = "relay"]
    /\ UNCHANGED <<kind, apps, toRelay, toApp, wire, copy, cut, fault>>

(* The copying goroutines *)

\* The vsock takes what the relay at s writes while both its ends are open.
WireUp(s) == ~cut /\ stage[Peer(s)] \notin {"none", "closed"}

CopyOut(s) == stage[s] = "relay" /\ copy[s].out = "copy"
CopyIn(s) == stage[s] = "relay" /\ copy[s].in = "copy"

OutData(s) ==
    /\ CopyOut(s) /\ WireUp(s) /\ Room(wire[s])
    /\ \E k \in 1..Len(toRelay[s].bytes) :
          /\ wire' = [wire EXCEPT ![s] = Add(@, SubSeq(toRelay[s].bytes, 1, k))]
          /\ toRelay' = [toRelay EXCEPT ![s] = Drop(@, k)]
    /\ UNCHANGED <<kind, apps, toApp, stage, copy, cut, fault>>

\* The program has ended its direction: a frame says so, or the vsock's own
\* half-close.
OutEnd(s) ==
    /\ CopyOut(s) /\ WireUp(s) /\ toRelay[s] = [bytes |-> <<>>, end |-> "fin"]
    /\ wire' = [wire EXCEPT ![s] = EndWith(@, IF kind = "docker" THEN "close" ELSE "fin")]
    /\ copy' = [copy EXCEPT ![s].out = "ok"]
    /\ UNCHANGED <<kind, apps, toRelay, toApp, stage, cut, fault>>

OutError(s) ==
    /\ CopyOut(s)
    /\ toRelay[s].end = "rst" \/ (~WireUp(s) /\ toRelay[s] # Empty)
    /\ copy' = [copy EXCEPT ![s].out = "err"]
    /\ wire' = IF kind = "port" THEN [wire EXCEPT ![s] = EndWith(@, "fin")] ELSE wire
    /\ UNCHANGED <<kind, apps, toRelay, toApp, stage, cut, fault>>

\* The socket of a program that is gone takes no more.
Gone(s) == fault = s

InData(s) ==
    /\ CopyIn(s) /\ ~cut /\ ~Gone(s) /\ Room(toApp[s])
    /\ \E k \in 1..Len(wire[Peer(s)].bytes) :
          /\ toApp' = [toApp EXCEPT ![s] = Add(@, SubSeq(wire[Peer(s)].bytes, 1, k))]
          /\ wire' = [wire EXCEPT ![Peer(s)] = Drop(@, k)]
    /\ UNCHANGED <<kind, apps, toRelay, stage, copy, cut, fault>>

\* A copy that is told of the end and does not tell the program.
InEnd_Silent(s) ==
    /\ CopyIn(s) /\ ~cut
    /\ wire[Peer(s)] = [bytes |-> <<>>, end |-> IF kind = "docker" THEN "close" ELSE "fin"]
    /\ copy' = [copy EXCEPT ![s].in = "ok"]
    /\ UNCHANGED <<kind, apps, toRelay, toApp, wire, stage, cut, fault>>

InEnd(s) ==
    /\ CopyIn(s) /\ ~cut
    /\ wire[Peer(s)] = [bytes |-> <<>>, end |-> IF kind = "docker" THEN "close" ELSE "fin"]
    /\ toApp' = [toApp EXCEPT ![s] = EndWith(@, "fin")]
    /\ copy' = [copy EXCEPT ![s].in = "ok"]
    /\ UNCHANGED <<kind, apps, toRelay, wire, stage, cut, fault>>

\* The end of the vsock itself is an error to a framed copy.  A raw copy hands
\* the end of its direction on whatever has happened.
InError(s) ==
    /\ CopyIn(s)
    /\ \/ cut
       \/ Gone(s) /\ wire[Peer(s)].bytes # <<>>
       \/ kind = "docker" /\ wire[Peer(s)] = [bytes |-> <<>>, end |-> "fin"]
    /\ copy' = [copy EXCEPT ![s].in = "err"]
    /\ toApp' = IF kind = "port" THEN [toApp EXCEPT ![s] = EndWith(@, "fin")] ELSE toApp
    /\ UNCHANGED <<kind, apps, toRelay, wire, stage, cut, fault>>

-----------------------------------------------------------------------------
(* The end of a relay *)

\* Both sockets are closed.  The program reads what has been written to it and
\* then the end; a reset if the relay left some of its bytes unread.
Close(s) ==
    /\ stage' = [stage EXCEPT ![s] = "closed"]
    /\ toApp' = [toApp EXCEPT ![s] = EndWith(@, IF toRelay[s].bytes = <<>> THEN "fin" ELSE "rst")]
    /\ toRelay' = [toRelay EXCEPT ![s] = Empty]
    /\ wire' = [wire EXCEPT ![s] = EndWith(@, "fin"), ![Peer(s)] = Empty]
    /\ UNCHANGED <<kind, apps, copy, cut>>

Results(s) == {copy[s].out, copy[s].in}

\* A framed relay that ends with its first direction, as the raw one does.
Ended_First(s) == \E r \in Results(s) : r # "copy"
\* A framed relay that waits for both directions even after an error.
Ended_Both(s) == \A r \in Results(s) : r # "copy"

\* RelayFramed ends with both directions or with the first error, RelayRaw with
\* the first direction, Buffered with both directions.
Ended(s) ==
    CASE kind = "docker" -> "err" \in Results(s) \/ "copy" \notin Results(s)
      [] kind = "port" /\ s = "host" -> \E r \in Results(s) : r # "copy"
      [] OTHER -> "copy" \notin Results(s)

\* The vsock of the guest is a file in blocking mode: a goroutine in its read or
\* its write stays there, and keeps it open, whoever closes it.
Blocked(s) ==
    /\ s = "guest" /\ ~cut
    /\ \/ copy[s].in = "copy" /\ wire[Peer(s)] = Empty
       \/ copy[s].out = "copy" /\ toRelay[s].bytes # <<>> /\ ~Room(wire[s])

\* Until it returns only the program's socket is closed.
CloseLocal(s) ==
    /\ stage' = [stage EXCEPT ![s] = "closing"]
    /\ toApp' = [toApp EXCEPT ![s] = EndWith(@, IF toRelay[s].bytes = <<>> THEN "fin" ELSE "rst")]
    /\ UNCHANGED <<kind, apps, toRelay, wire, copy, cut>>

Finish(s) ==
    /\ \/ stage[s] = "relay" /\ Ended(s)
       \/ stage[s] = "closing" /\ ~Blocked(s)
    /\ IF Blocked(s) THEN CloseLocal(s) ELSE Close(s)
    /\ UNCHANGED fault

\* While it waits for OK a port relay sees the guest close or the vsock break.
ConnectFail ==
    /\ stage["host"] = "connect" /\ (cut \/ stage["guest"] = "closed")
    /\ Close("host") /\ UNCHANGED fault

(* Faults *)

\* A dial fails, or the relay process, the guest agent or its VM dies.
RelayDies(s) ==
    /\ fault = "no" /\ fault' = "other"
    /\ stage[s] \notin {"none", "closed"}
    /\ Close(s)

VsockBreaks ==
    /\ fault = "no" /\ fault' = "other"
    /\ stage["guest"] \notin {"none", "closed"} /\ stage["host"] # "closed"
    /\ cut' = TRUE /\ wire' = [s \in Side |-> Empty]
    /\ UNCHANGED <<kind, apps, toRelay, toApp, stage, copy>>

\* A program exits: the end of its direction, a reset if it leaves bytes unread.
AppExits(s) ==
    /\ fault = "no" /\ fault' = s
    /\ Connected(s)
    /\ shut' = [shut EXCEPT ![s] = TRUE] /\ reads' = [reads EXCEPT ![s] = FALSE]
    /\ toRelay' = [toRelay EXCEPT ![s].end = IF toApp[s].bytes = <<>> THEN "fin" ELSE "rst"]
    /\ toApp' = [toApp EXCEPT ![s].bytes = <<>>]
    /\ UNCHANGED <<kind, sent, got, end, wire, stage, copy, cut>>

App(s) == AppSend(s) \/ AppShut(s) \/ AppRead(s) \/ AppEnd(s)
Copy(s) == OutData(s) \/ OutEnd(s) \/ OutError(s) \/ InData(s) \/ InEnd(s) \/ InError(s)
Setup == HostDial \/ GuestDial \/ HostConnected \/ ConnectFail

Next ==
    \/ Setup \/ VsockBreaks
    \/ \E s \in Side : App(s) \/ Copy(s) \/ Finish(s) \/ RelayDies(s) \/ AppExits(s)

\* The goroutines run, and a program that reads goes on reading; it need not
\* write or end anything.
Fairness ==
    /\ WF_vars(Setup)
    /\ \A s \in Side :
          /\ WF_vars(OutData(s) \/ OutEnd(s) \/ OutError(s))
          /\ WF_vars(InData(s) \/ InEnd(s) \/ InError(s))
          /\ WF_vars(Finish(s))
          /\ WF_vars(AppRead(s) \/ AppEnd(s))

Spec == Init /\ [][Next]_vars /\ Fairness

-----------------------------------------------------------------------------
(* Properties *)

Promise == INSTANCE ByteStream WITH broken <- fault # "no" \/ kind = "port"

\* A Docker connection is a byte stream in each direction, and the end of one
\* direction leaves the other alone (docker-host.md): no byte is lost, repeated
\* or overtaken, and none comes after the end.  A forwarded port, whose host
\* relay closes everything with the first direction, and a connection that
\* breaks still deliver nothing but a prefix of what was sent.
StreamInOrder == Promise!Safely

\* On a Docker connection that nothing breaks, a program that reads gets all that
\* was sent and then the end, whatever the other program does about reading.
StreamArrives == Promise!Fairness

\* When a relay of a Docker connection is gone, or the vsock is, the other does
\* not stay behind with its goroutines and its sockets, unless it had been told
\* before that no more comes: then nobody reads the vsock any more.
EndsTogether ==
    \A s \in Side :
        /\ kind = "docker" /\ stage[s] = "relay" /\ reads[s]
        /\ copy[s].in = "copy" /\ wire[Peer(s)].end # "close"
        /\ cut \/ stage[Peer(s)] = "closed"
        ~> stage[s] = "closed" \/ ~reads[s]
=============================================================================
