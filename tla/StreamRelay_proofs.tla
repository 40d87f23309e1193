------------------------- MODULE StreamRelay_proofs -------------------------
(***************************************************************************)
(* Proofs about StreamRelay, for any number of bytes and any buffers: that *)
(* both kinds of connection keep the bytes in order, and that a Docker     *)
(* connection nobody breaks reports no end before the last byte.           *)
(***************************************************************************)
EXTENDS StreamRelay, Integers, SequenceTheorems, TLAPS

\* The bytes of b are the numbers that follow n.
Counted(b, n) == \A i \in 1..Len(b) : b[i] = n + i

\* How many of the bytes for s have come over the vsock, and how many are known
\* of at all.
Taken(s) == Len(got[s]) + Len(toApp[s].bytes)
OnTheWay(s) == Taken(s) + Len(wire[Peer(s)].bytes) + Len(toRelay[Peer(s)].bytes)

Unbroken == fault = "no" /\ kind = "docker"
Intact(s) == ~cut /\ fault # s /\ stage[s] # "closed" /\ stage[Peer(s)] # "closed"

\* What is on the way to s is one run of bytes from what it has read to what was
\* sent, with nothing missing until a relay or the vsock has gone; what a relay
\* has not yet taken is always the end of what was sent.
InOrder(s) ==
    /\ Counted(sent[s], 0) /\ Counted(got[s], 0)
    /\ Counted(toApp[s].bytes, Len(got[s]))
    /\ fault # s => Counted(wire[Peer(s)].bytes, Taken(s))
    /\ Counted(toRelay[Peer(s)].bytes, Len(sent[Peer(s)]) - Len(toRelay[Peer(s)].bytes))
    /\ OnTheWay(s) <= Len(sent[Peer(s)])
    /\ Unbroken \/ Intact(s) => OnTheWay(s) = Len(sent[Peer(s)])

\* How far the end of what p sends has come on its way to s, while nothing is
\* broken: it is passed on only after the last byte, and a relay that is gone has
\* seen it in both directions.
EndOK(s, p) ==
    /\ ~cut /\ copy[p].out # "err" /\ copy[s].in # "err"
    /\ stage[s] \in {"closing", "closed"} => copy[s].in = "ok" /\ copy[s].out = "ok"
    /\ toRelay[p].end # "rst" /\ (toRelay[p].end = "fin" => shut[p])
    /\ copy[p].out = "ok" => shut[p] /\ toRelay[p].bytes = <<>>
    /\ copy[p].out = "ok" => wire[p].end = "close" \/ stage[s] = "closed"
    /\ wire[p].end # "rst" /\ (wire[p].end = "close" => copy[p].out = "ok")
    /\ wire[p].end = "fin" => stage[s] = "closed"
    /\ copy[s].in = "ok" => copy[p].out = "ok" /\ wire[p].bytes = <<>>
    /\ toApp[s].end # "rst" /\ (toApp[s].end = "fin" => copy[s].in = "ok")

\* The guest's relay is begun by the host's, and at once.
Begun == stage["host"] = "dial" => stage["guest"] = "none"
SetUp == (stage["guest"] = "none" => stage["host"] = "dial") /\ stage["host"] # "none"

StreamInv ==
    /\ TypeOK /\ Begun
    /\ \A s \in Side : InOrder(s)
    /\ Unbroken => SetUp /\ \A s \in Side : EndOK(s, Peer(s))

-----------------------------------------------------------------------------
(* The two sides, and the operations on buffers *)

LEMMA Sides ==
    ASSUME NEW s \in Side
    PROVE  /\ Peer(s) \in Side /\ Peer(s) # s /\ Peer(Peer(s)) = s
           /\ \A t \in Side : t = s \/ t = Peer(s)
BY DEF Side, Peer

LEMMA Pieces ==
    ASSUME NEW b \in Seq(Nat), NEW k \in 1..Len(b)
    PROVE  LET h == SubSeq(b, 1, k)  r == SubSeq(b, k + 1, Len(b)) IN
           /\ h \in Seq(Nat) /\ Len(h) = k /\ \A i \in 1..k : h[i] = b[i]
           /\ r \in Seq(Nat) /\ Len(r) = Len(b) - k
           /\ \A i \in 1..(Len(b) - k) : r[i] = b[k + i]
OBVIOUS

LEMMA Buffers ==
    ASSUME NEW p \in Pipe
    PROVE  /\ Empty \in Pipe /\ p.bytes \in Seq(Nat)
           /\ \A b \in Seq(Nat) : Add(p, b) = [p EXCEPT !.bytes = p.bytes \o b]
                                  /\ Add(p, b) \in Pipe
                                  /\ Add(p, b).bytes = p.bytes \o b /\ Add(p, b).end = p.end
           /\ \A k \in 1..Len(p.bytes) :
                 /\ Drop(p, k) \in Pipe
                 /\ Drop(p, k).bytes = SubSeq(p.bytes, k + 1, Len(p.bytes))
                 /\ Drop(p, k).end = p.end
           /\ \A e \in {"fin", "rst", "close"} :
                 /\ EndWith(p, e) \in Pipe /\ EndWith(p, e).bytes = p.bytes
                 /\ EndWith(p, e).end = IF p.end = "no" THEN e ELSE p.end
<1>1. Empty \in Pipe /\ p.bytes \in Seq(Nat)
  BY DEF Empty, Pipe
<1>2. ASSUME NEW b \in Seq(Nat)
      PROVE  /\ Add(p, b) = [p EXCEPT !.bytes = p.bytes \o b] /\ Add(p, b) \in Pipe
             /\ Add(p, b).bytes = p.bytes \o b /\ Add(p, b).end = p.end
  <2>1. p.bytes \o b \in Seq(Nat)
    BY <1>1
  <2> QED BY <2>1 DEF Add, Pipe
<1>3. ASSUME NEW k \in 1..Len(p.bytes)
      PROVE  /\ Drop(p, k) \in Pipe
             /\ Drop(p, k).bytes = SubSeq(p.bytes, k + 1, Len(p.bytes))
             /\ Drop(p, k).end = p.end
  <2>1. SubSeq(p.bytes, k + 1, Len(p.bytes)) \in Seq(Nat)
    BY <1>1, Pieces
  <2> QED BY <2>1 DEF Drop, Pipe
<1>4. ASSUME NEW e \in {"fin", "rst", "close"}
      PROVE  /\ EndWith(p, e) \in Pipe /\ EndWith(p, e).bytes = p.bytes
             /\ EndWith(p, e).end = IF p.end = "no" THEN e ELSE p.end
  BY <1>4 DEF EndWith, Pipe
<1> QED BY <1>1, <1>2, <1>3, <1>4

-----------------------------------------------------------------------------
(* Type correctness *)

LEMMA Types_App ==
    ASSUME TypeOK, NEW s \in Side, App(s) \/ AppExits(s)
    PROVE  TypeOK'
<1>1. /\ toRelay[s] \in Pipe /\ toApp[s] \in Pipe /\ sent[s] \in Seq(Nat) /\ got[s] \in Seq(Nat)
      /\ toApp[s].bytes \in Seq(Nat) /\ toRelay[s].bytes \in Seq(Nat)
  BY DEF TypeOK, Pipe
<1>2. CASE AppSend(s)
  <2>1. Len(sent[s]) + 1 \in Nat /\ <<Len(sent[s]) + 1>> \in Seq(Nat)
        /\ Append(sent[s], Len(sent[s]) + 1) \in Seq(Nat)
    BY <1>1
  <2>2. Add(toRelay[s], <<Len(sent[s]) + 1>>) \in Pipe
    BY <1>1, <2>1, Buffers
  <2> QED BY <1>2, <2>1, <2>2 DEF AppSend, TypeOK
<1>3. CASE AppShut(s)
  <2>1. EndWith(toRelay[s], "fin") \in Pipe
    BY <1>1, Buffers
  <2> QED BY <1>3, <2>1 DEF AppShut, TypeOK
<1>4. CASE AppRead(s)
  <2>1. got[s] \o toApp[s].bytes \in Seq(Nat) /\ <<>> \in Seq(Nat)
    BY <1>1
  <2>2. [toApp[s] EXCEPT !.bytes = <<>>] \in Pipe
    BY <1>1, <2>1 DEF Pipe
  <2> QED BY <1>4, <2>1, <2>2 DEF AppRead, TypeOK
<1>5. CASE AppEnd(s)
  BY <1>5 DEF AppEnd, TypeOK
<1>6. CASE AppExits(s)
  <2>0. <<>> \in Seq(Nat)
    OBVIOUS
  <2>1. /\ [toApp[s] EXCEPT !.bytes = <<>>] \in Pipe
        /\ [toRelay[s] EXCEPT !.end = IF toApp[s].bytes = <<>> THEN "fin" ELSE "rst"] \in Pipe
    BY <1>1, <2>0 DEF Pipe
  <2> QED BY <1>6, <2>1 DEF AppExits, TypeOK
<1> QED BY <1>2, <1>3, <1>4, <1>5, <1>6 DEF App

LEMMA Types_Copy ==
    ASSUME TypeOK, NEW s \in Side, Copy(s)
    PROVE  TypeOK'
<1> DEFINE p == Peer(s)
<1> /\ p \in Side /\ p # s
  BY Sides
<1> HIDE DEF p
<1>1. /\ toRelay[s] \in Pipe /\ toApp[s] \in Pipe /\ wire[s] \in Pipe /\ wire[p] \in Pipe
      /\ copy[s] \in [out : Copying, in : Copying]
      /\ toRelay[s].bytes \in Seq(Nat) /\ wire[p].bytes \in Seq(Nat)
  BY DEF TypeOK, Pipe
<1>2. \A r \in Copying : /\ [copy EXCEPT ![s].out = r] \in [Side -> [out : Copying, in : Copying]]
                         /\ [copy EXCEPT ![s].in = r] \in [Side -> [out : Copying, in : Copying]]
  BY DEF TypeOK
<1>3. CASE OutData(s)
  <2>1. PICK k \in 1..Len(toRelay[s].bytes) :
          /\ wire' = [wire EXCEPT ![s] = Add(@, SubSeq(toRelay[s].bytes, 1, k))]
          /\ toRelay' = [toRelay EXCEPT ![s] = Drop(@, k)]
    BY <1>3 DEF OutData
  <2>2. Add(wire[s], SubSeq(toRelay[s].bytes, 1, k)) \in Pipe /\ Drop(toRelay[s], k) \in Pipe
    BY <1>1, Pieces, Buffers
  <2> QED BY <1>3, <2>1, <2>2 DEF OutData, TypeOK, apps
<1>4. CASE OutEnd(s)
  <2>1. \A e \in {"fin", "close"} : EndWith(wire[s], e) \in Pipe
    BY <1>1, Buffers
  <2> QED BY <1>4, <1>2, <2>1 DEF OutEnd, TypeOK, apps, Copying
<1>5. CASE OutError(s)
  <2>1. EndWith(wire[s], "fin") \in Pipe
    BY <1>1, Buffers
  <2> QED BY <1>5, <1>2, <2>1 DEF OutError, TypeOK, apps, Copying
<1>6. CASE InData(s)
  <2>1. PICK k \in 1..Len(wire[p].bytes) :
          /\ toApp' = [toApp EXCEPT ![s] = Add(@, SubSeq(wire[p].bytes, 1, k))]
          /\ wire' = [wire EXCEPT ![p] = Drop(@, k)]
    BY <1>6 DEF InData, p
  <2>2. Add(toApp[s], SubSeq(wire[p].bytes, 1, k)) \in Pipe /\ Drop(wire[p], k) \in Pipe
    BY <1>1, Pieces, Buffers
  <2> QED BY <1>6, <2>1, <2>2 DEF InData, TypeOK, apps
<1>7. CASE InEnd(s)
  <2>1. EndWith(toApp[s], "fin") \in Pipe
    BY <1>1, Buffers
  <2> QED BY <1>7, <1>2, <2>1 DEF InEnd, TypeOK, apps, Copying
<1>8. CASE InError(s)
  <2>1. EndWith(toApp[s], "fin") \in Pipe
    BY <1>1, Buffers
  <2> QED BY <1>8, <1>2, <2>1 DEF InError, TypeOK, apps, Copying
<1> QED BY <1>3, <1>4, <1>5, <1>6, <1>7, <1>8 DEF Copy

\* A step that closes sockets, of one side or of both.
LEMMA Types_Close ==
    ASSUME TypeOK, NEW s \in Side, Close(s), fault' \in {fault, "other"}
    PROVE  TypeOK'
<1> DEFINE p == Peer(s)
<1> /\ p \in Side /\ p # s
  BY Sides
<1> HIDE DEF p
<1>1. /\ \A e \in {"fin", "rst"} : EndWith(toApp[s], e) \in Pipe
      /\ EndWith(wire[s], "fin") \in Pipe /\ Empty \in Pipe
  BY Buffers DEF TypeOK
<1>2. /\ stage' = [stage EXCEPT ![s] = "closed"]
      /\ \E e \in {"fin", "rst"} : toApp' = [toApp EXCEPT ![s] = EndWith(@, e)]
      /\ toRelay' = [toRelay EXCEPT ![s] = Empty]
      /\ wire' = [wire EXCEPT ![s] = EndWith(@, "fin"), ![p] = Empty]
      /\ UNCHANGED <<kind, apps, copy, cut>>
  BY DEF Close, p
<1>3. toApp' \in [Side -> Pipe] /\ toRelay' \in [Side -> Pipe] /\ wire' \in [Side -> Pipe]
  BY <1>1, <1>2 DEF TypeOK
<1>4. stage'["guest"] # "connect" /\ stage'["host"] # "closing" /\ (kind = "docker" => stage'["host"] # "connect")
  BY <1>2 DEF TypeOK, Side
<1> QED BY <1>2, <1>3, <1>4 DEF TypeOK, apps

LEMMA Types_CloseLocal ==
    ASSUME TypeOK, NEW s \in Side, s = "guest", CloseLocal(s), fault' = fault
    PROVE  TypeOK'
<1>1. \A e \in {"fin", "rst"} : EndWith(toApp[s], e) \in Pipe
  BY Buffers DEF TypeOK
<1> QED BY <1>1 DEF CloseLocal, TypeOK, apps, Side

LEMMA Types_Setup ==
    ASSUME TypeOK, HostDial \/ GuestDial \/ HostConnected \/ VsockBreaks
    PROVE  TypeOK'
<1>1. CASE HostDial
  BY <1>1 DEF HostDial, TypeOK, apps, Side
<1>2. CASE GuestDial
  BY <1>2 DEF GuestDial, TypeOK, apps, Side
<1>3. CASE HostConnected
  BY <1>3 DEF HostConnected, TypeOK, apps, Side
<1>4. CASE VsockBreaks
  <2>1. Empty \in Pipe
    BY DEF Empty, Pipe
  <2> QED BY <1>4, <2>1 DEF VsockBreaks, TypeOK, apps
<1> QED BY <1>1, <1>2, <1>3, <1>4

\* The step of Finish, as one of its two ways out.
LEMMA Finishing ==
    ASSUME NEW s \in Side, Finish(s)
    PROVE  /\ fault' = fault
           /\ \/ Blocked(s) /\ s = "guest" /\ CloseLocal(s)
              \/ ~Blocked(s) /\ Close(s)
           /\ \/ stage[s] = "relay" /\ Ended(s)
              \/ stage[s] = "closing" /\ ~Blocked(s)
BY DEF Finish, Blocked

LEMMA Types_Next == TypeOK /\ [Next]_vars => TypeOK'
<1> SUFFICES ASSUME TypeOK, [Next]_vars PROVE TypeOK'
  OBVIOUS
<1>1. CASE UNCHANGED vars
  BY <1>1 DEF vars, TypeOK
<1>2. CASE Setup \/ VsockBreaks
  BY <1>2, Types_Setup, Types_Close DEF Setup, ConnectFail, Side
<1>3. ASSUME NEW s \in Side, App(s) \/ AppExits(s) PROVE TypeOK'
  BY <1>3, Types_App
<1>4. ASSUME NEW s \in Side, Copy(s) PROVE TypeOK'
  BY <1>4, Types_Copy
<1>5. ASSUME NEW s \in Side, Finish(s) PROVE TypeOK'
  BY <1>5, Finishing, Types_Close, Types_CloseLocal
<1>6. ASSUME NEW s \in Side, RelayDies(s) PROVE TypeOK'
  BY <1>6, Types_Close DEF RelayDies
<1> QED BY <1>1, <1>2, <1>3, <1>4, <1>5, <1>6 DEF Next

LEMMA Types_Init == Init => TypeOK
<1> SUFFICES ASSUME Init PROVE TypeOK
  OBVIOUS
<1>1. Empty \in Pipe /\ <<>> \in Seq(Nat)
  BY DEF Empty, Pipe
<1>2. [out |-> "copy", in |-> "copy"] \in [out : Copying, in : Copying]
  BY DEF Copying
<1>3. stage \in [Side -> {"none", "dial", "connect", "relay", "closing", "closed"}]
      /\ stage["host"] = "dial" /\ stage["guest"] = "none"
  BY DEF Init, Side
<1>4. copy \in [Side -> [out : Copying, in : Copying]]
  BY <1>2 DEF Init
<1> QED BY <1>1, <1>3, <1>4 DEF Init, TypeOK

\* Buffers hold bytes and an end, relays go through the stages of their kind.
THEOREM StreamTypes == Spec => []TypeOK
BY Types_Init, Types_Next, PTL DEF Spec

-----------------------------------------------------------------------------
(* The bytes *)

LEMMA CountedPieces ==
    ASSUME NEW a \in Seq(Nat), NEW b \in Seq(Nat), NEW n \in Int
    PROVE  /\ Counted(<<>>, n) /\ Counted(<<n + 1>>, n)
           /\ Counted(a, n) /\ Counted(b, n + Len(a)) => Counted(a \o b, n)
           /\ Counted(a, n) => \A k \in 1..Len(a) :
                 /\ Counted(SubSeq(a, 1, k), n)
                 /\ Counted(SubSeq(a, k + 1, Len(a)), n + k)
<1>1. Counted(<<>>, n) /\ Counted(<<n + 1>>, n)
  BY DEF Counted
<1>2. ASSUME Counted(a, n), Counted(b, n + Len(a)) PROVE Counted(a \o b, n)
  <2>1. Len(a \o b) = Len(a) + Len(b) /\ Len(a) \in Nat /\ Len(b) \in Nat
    OBVIOUS
  <2>2. ASSUME NEW i \in 1..(Len(a) + Len(b)) PROVE (a \o b)[i] = n + i
    <3>1. CASE i \in 1..Len(a)
      BY <1>2, <3>1 DEF Counted
    <3>2. CASE i - Len(a) \in 1..Len(b)
      <4>1. (a \o b)[i] = b[i - Len(a)]
        BY <3>2
      <4>2. b[i - Len(a)] = n + Len(a) + (i - Len(a))
        BY <1>2, <3>2 DEF Counted
      <4> QED BY <4>1, <4>2, <2>1
    <3> QED BY <2>1, <3>1, <3>2
  <2> QED BY <2>1, <2>2 DEF Counted
<1>3. ASSUME Counted(a, n), NEW k \in 1..Len(a)
      PROVE  Counted(SubSeq(a, 1, k), n) /\ Counted(SubSeq(a, k + 1, Len(a)), n + k)
  <2> DEFINE h == SubSeq(a, 1, k)  r == SubSeq(a, k + 1, Len(a))
  <2>1. /\ Len(h) = k /\ \A i \in 1..k : h[i] = a[i]
        /\ Len(r) = Len(a) - k /\ \A i \in 1..(Len(a) - k) : r[i] = a[k + i]
    BY Pieces
  <2>2. Len(a) \in Nat
    OBVIOUS
  <2> HIDE DEF h, r
  <2>6. \A i \in 1..k : i \in 1..Len(a)
    BY <2>2
  <2>3. Counted(h, n)
    BY <1>3, <2>1, <2>6 DEF Counted
  <2>4. \A i \in 1..(Len(a) - k) : k + i \in 1..Len(a)
    BY <2>2
  <2>5. Counted(r, n + k)
    BY <1>3, <2>1, <2>2, <2>4 DEF Counted
  <2> QED BY <2>3, <2>5 DEF h, r
<1> QED BY <1>1, <1>2, <1>3

LEMMA CountedJoin ==
    ASSUME NEW a \in Seq(Nat), NEW b \in Seq(Nat), NEW n \in Int, NEW m \in Int,
           m = n + Len(a), Counted(a, n), Counted(b, m)
    PROVE  Counted(a \o b, n)
BY CountedPieces

LEMMA BytesOf ==
    ASSUME TypeOK, NEW t \in Side
    PROVE  /\ sent[t] \in Seq(Nat) /\ got[t] \in Seq(Nat)
           /\ toApp[t] \in Pipe /\ toApp[t].bytes \in Seq(Nat)
           /\ wire[t] \in Pipe /\ wire[t].bytes \in Seq(Nat)
           /\ toRelay[t] \in Pipe /\ toRelay[t].bytes \in Seq(Nat)
           /\ Len(sent[t]) \in Nat /\ Len(got[t]) \in Nat /\ Len(toApp[t].bytes) \in Nat
           /\ Len(wire[t].bytes) \in Nat /\ Len(toRelay[t].bytes) \in Nat
<1>1. /\ sent[t] \in Seq(Nat) /\ got[t] \in Seq(Nat)
      /\ toApp[t] \in Pipe /\ wire[t] \in Pipe /\ toRelay[t] \in Pipe
  BY DEF TypeOK
<1>2. toApp[t].bytes \in Seq(Nat) /\ wire[t].bytes \in Seq(Nat) /\ toRelay[t].bytes \in Seq(Nat)
  BY <1>1 DEF Pipe
<1> QED BY <1>1, <1>2

LEMMA TakenIsNat ==
    ASSUME TypeOK, NEW t \in Side
    PROVE  Taken(t) \in Nat
<1>1. Len(got[t]) \in Nat /\ Len(toApp[t].bytes) \in Nat
  BY BytesOf
<1>2. \A a, b \in Nat : a + b \in Nat
  OBVIOUS
<1> QED BY <1>1, <1>2, Zenon DEF Taken

\* A step that moves no byte of this direction keeps the order of what it leaves.
LEMMA Order_Kept ==
    ASSUME TypeOK, TypeOK', NEW t \in Side, InOrder(t),
           NEW p \in Side, p = Peer(t),
           Counted(sent'[t], 0), sent'[p] = sent[p], got'[t] = got[t],
           toApp'[t].bytes = toApp[t].bytes,
           wire'[p].bytes \in {wire[p].bytes, <<>>},
           toRelay'[p].bytes \in {toRelay[p].bytes, <<>>},
           fault' # t => fault # t,
           (Unbroken \/ Intact(t))' =>
               /\ Unbroken \/ Intact(t)
               /\ wire'[p].bytes = wire[p].bytes /\ toRelay'[p].bytes = toRelay[p].bytes
    PROVE  InOrder(t)'
<1> DEFINE w == Len(wire[p].bytes)  v == Len(wire'[p].bytes)
           q == Len(toRelay[p].bytes)  r == Len(toRelay'[p].bytes)
<1>1. /\ Len(got[t]) \in Nat /\ Len(toApp[t].bytes) \in Nat /\ Len(sent[p]) \in Nat
      /\ w \in Nat /\ q \in Nat
  BY BytesOf
<1>0. v \in {w, 0} /\ r \in {q, 0}
  OBVIOUS
<1>2. Taken(t)' = Taken(t) /\ Taken(t) = Len(got[t]) + Len(toApp[t].bytes)
  BY DEF Taken
<1>8. Taken(t) \in Nat
  BY TakenIsNat
<1>3. OnTheWay(t) = Taken(t) + w + q /\ OnTheWay(t)' = Taken(t) + v + r
  BY <1>2 DEF OnTheWay
<1>9. OnTheWay(t) <= Len(sent[p]) /\ sent'[p] = sent[p]
  BY DEF InOrder
<1> HIDE DEF w, v, q, r
<1>4. OnTheWay(t)' <= Len(sent'[p])
  BY <1>0, <1>1, <1>8, <1>3, <1>9
<1> USE DEF w, v, q, r
<1>5. (Unbroken \/ Intact(t))' => OnTheWay(t)' = Len(sent'[p])
  BY <1>3 DEF InOrder
<1>6. fault' # t => Counted(wire'[p].bytes, Taken(t)')
  <2>1. \A n : Counted(<<>>, n)
    BY DEF Counted
  <2> QED BY <1>2, <2>1 DEF InOrder
<1>7. Counted(toRelay'[p].bytes, Len(sent'[p]) - r)
  <2>1. \A n : Counted(<<>>, n)
    BY DEF Counted
  <2> QED BY <2>1 DEF InOrder
<1> QED BY <1>4, <1>5, <1>6, <1>7 DEF InOrder

LEMMA Order_Send ==
    ASSUME StreamInv, TypeOK', NEW s \in Side, AppSend(s), NEW t \in Side
    PROVE  InOrder(t)'
<1> TypeOK /\ InOrder(s) /\ InOrder(t)
  BY DEF StreamInv
<1> DEFINE n == Len(sent[s])  q == toRelay[s].bytes  d == Peer(s)
<1>1. /\ sent[s] \in Seq(Nat) /\ q \in Seq(Nat) /\ n \in Nat /\ Len(q) \in Nat
      /\ d \in Side /\ d # s /\ Peer(d) = s /\ (t = s \/ t = d)
      /\ InOrder(d) /\ toRelay[s] \in Pipe
  BY BytesOf, Sides DEF StreamInv
<1>2. /\ sent' = [sent EXCEPT ![s] = Append(sent[s], n + 1)]
      /\ toRelay' = [toRelay EXCEPT ![s] = Add(toRelay[s], <<n + 1>>)]
      /\ UNCHANGED <<kind, got, toApp, wire, stage, copy, cut, fault>>
  BY DEF AppSend
<1>3. /\ sent'[s] = sent[s] \o <<n + 1>> /\ Len(sent'[s]) = n + 1 /\ sent'[d] = sent[d]
  BY <1>1, <1>2 DEF TypeOK
<1>4. <<n + 1>> \in Seq(Nat) /\ Len(<<n + 1>>) = 1
  BY <1>1
<1>5. toRelay'[s].bytes = q \o <<n + 1>> /\ toRelay'[d] = toRelay[d]
  <2>1. toRelay'[s] = Add(toRelay[s], <<n + 1>>) /\ toRelay'[d] = toRelay[d]
    BY <1>1, <1>2 DEF TypeOK
  <2>2. Add(toRelay[s], <<n + 1>>).bytes = q \o <<n + 1>>
    BY <1>1, <1>4, Buffers
  <2> QED BY <2>1, <2>2
<1>6. Len(q \o <<n + 1>>) = Len(q) + 1
  BY <1>1, <1>4
<1>7. Counted(sent[s], 0) /\ Counted(sent[d], 0) /\ Counted(q, n - Len(q))
  BY <1>1 DEF InOrder
<1>8. Counted(sent'[s], 0)
  <2>1. n = 0 + Len(sent[s]) /\ 0 \in Int /\ n \in Int
    BY <1>1
  <2>2. Counted(<<n + 1>>, n)
    BY <2>1, <1>1, CountedPieces
  <2>3. Counted(sent[s] \o <<n + 1>>, 0)
    BY <1>1, <1>4, <1>7, <2>1, <2>2, CountedJoin
  <2> QED BY <1>3, <2>3
<1>9. CASE t = s
  BY <1>1, <1>2, <1>3, <1>5, <1>8, <1>9, Order_Kept DEF Unbroken, Intact
<1>10. CASE t = d
  <2>1. Taken(t)' = Taken(t) /\ Taken(t) \in Nat
    BY <1>2, TakenIsNat DEF Taken
  <2>2. Len(wire[s].bytes) \in Nat
    BY BytesOf
  <2>3. OnTheWay(t) = Taken(t) + Len(wire[s].bytes) + Len(q)
        /\ OnTheWay(t)' = Taken(t) + Len(wire[s].bytes) + (Len(q) + 1)
    BY <1>1, <1>2, <1>5, <1>6, <1>10, <2>1 DEF OnTheWay
  <2>0. PICK x \in Nat, y \in Nat, z \in Nat :
            x = Taken(t) /\ y = Len(wire[s].bytes) /\ z = Len(q)
    BY <1>1, <2>1, <2>2
  <2>12. OnTheWay(t) = x + y + z /\ OnTheWay(t)' = x + y + (z + 1)
    BY <2>0, <2>3
  <2>4. OnTheWay(t)' = OnTheWay(t) + 1
    BY <2>12
  <2>5. OnTheWay(t) \in Nat
    BY <2>12
  <2>6. Counted(toRelay'[s].bytes, Len(sent'[s]) - Len(toRelay'[s].bytes))
    <3> DEFINE m == n - Len(q)
    <3>1. m \in Int /\ m + Len(q) = n /\ n \in Int /\ (n + 1) - (Len(q) + 1) = m
      BY <1>1
    <3>2. Counted(<<n + 1>>, n)
      BY <3>1, <1>1, CountedPieces
    <3>4. Counted(q, m)
      BY <1>7
    <3> HIDE DEF m
    <3>3. Counted(q \o <<n + 1>>, m)
      BY <1>1, <1>4, <1>7, <3>1, <3>2, <3>4, CountedJoin
    <3> QED BY <1>3, <1>5, <1>6, <3>1, <3>3
  <2>7. Counted(wire'[s].bytes, Taken(t)') \/ fault' = t
    BY <1>1, <1>2, <1>10, <2>1 DEF InOrder
  <2>8. OnTheWay(t) <= n /\ (Unbroken \/ Intact(t) => OnTheWay(t) = n)
    BY <1>1, <1>10 DEF InOrder
  <2>9. Unbroken' = Unbroken /\ Intact(t)' = Intact(t)
    BY <1>2 DEF Unbroken, Intact
  <2>10. OnTheWay(t)' <= Len(sent'[s]) /\ ((Unbroken \/ Intact(t))' => OnTheWay(t)' = Len(sent'[s]))
    BY <1>1, <1>3, <2>4, <2>5, <2>8, <2>9
  <2>11. Counted(sent'[t], 0) /\ got' = got /\ toApp' = toApp /\ Peer(t) = s
         /\ Counted(got[t], 0) /\ Counted(toApp[t].bytes, Len(got[t]))
    BY <1>1, <1>2, <1>3, <1>7, <1>10 DEF InOrder
  <2> QED BY <2>6, <2>7, <2>10, <2>11 DEF InOrder
<1> QED BY <1>1, <1>9, <1>10

LEMMA Order_Read ==
    ASSUME StreamInv, TypeOK', NEW s \in Side, AppRead(s), NEW t \in Side
    PROVE  InOrder(t)'
<1> TypeOK /\ InOrder(s) /\ InOrder(t)
  BY DEF StreamInv
<1> DEFINE g == got[s]  a == toApp[s].bytes  d == Peer(s)
<1>1. /\ g \in Seq(Nat) /\ a \in Seq(Nat) /\ Len(g) \in Nat /\ Len(a) \in Nat
      /\ d \in Side /\ d # s /\ Peer(d) = s /\ (t = s \/ t = d)
  BY BytesOf, Sides
<1>2. /\ got' = [got EXCEPT ![s] = g \o a]
      /\ toApp' = [toApp EXCEPT ![s].bytes = <<>>]
      /\ UNCHANGED <<kind, sent, toRelay, wire, stage, copy, cut, fault>>
  BY DEF AppRead
<1>3. got'[s] = g \o a /\ toApp'[s].bytes = <<>> /\ got'[d] = got[d] /\ toApp'[d] = toApp[d]
  <2>1. got'[s] = g \o a /\ got'[d] = got[d]
    BY <1>1, <1>2 DEF TypeOK
  <2>2. toApp'[s] = [toApp[s] EXCEPT !.bytes = <<>>] /\ toApp'[d] = toApp[d]
    BY <1>1, <1>2 DEF TypeOK
  <2>3. toApp[s] \in Pipe
    BY BytesOf
  <2>4. toApp'[s].bytes = <<>>
    BY <2>2, <2>3 DEF Pipe
  <2> QED BY <2>1, <2>2, <2>4
<1>4. CASE t = d
  BY <1>1, <1>2, <1>3, <1>4, Order_Kept DEF Unbroken, Intact, InOrder
<1>5. CASE t = s
  <2>1. Len(g \o a) = Len(g) + Len(a) /\ Len(<<>>) = 0 /\ (Len(g) + Len(a)) + 0 = Len(g) + Len(a)
    BY <1>1
  <2>2. Taken(t)' = Taken(t)
    BY <1>3, <1>5, <2>1 DEF Taken
  <2>3. OnTheWay(t)' = OnTheWay(t)
    BY <1>2, <2>2 DEF OnTheWay
  <2>4. Counted(g, 0) /\ Counted(a, Len(g)) /\ Len(g) = 0 + Len(g) /\ 0 \in Int
    BY <1>1, <1>5 DEF InOrder
  <2>8. Counted(g \o a, 0)
    BY <1>1, <2>4, CountedJoin
  <2>5. Counted(got'[t], 0)
    BY <1>3, <1>5, <2>8
  <2>6. Counted(toApp'[t].bytes, Len(got'[t]))
    BY <1>3, <1>5 DEF Counted
  <2>7. Unbroken' = Unbroken /\ Intact(t)' = Intact(t)
    BY <1>2 DEF Unbroken, Intact
  <2> QED BY <1>2, <2>2, <2>3, <2>5, <2>6, <2>7 DEF InOrder
<1> QED BY <1>1, <1>4, <1>5

LEMMA Order_Out ==
    ASSUME StreamInv, TypeOK', NEW s \in Side, OutData(s), NEW t \in Side
    PROVE  InOrder(t)'
<1> TypeOK /\ InOrder(s) /\ InOrder(t)
  BY DEF StreamInv
<1> DEFINE w == wire[s].bytes  q == toRelay[s].bytes  d == Peer(s)
<1>1. /\ w \in Seq(Nat) /\ q \in Seq(Nat) /\ Len(w) \in Nat /\ Len(q) \in Nat
      /\ d \in Side /\ d # s /\ Peer(d) = s /\ (t = s \/ t = d)
      /\ wire[s] \in Pipe /\ toRelay[s] \in Pipe /\ Len(sent[s]) \in Nat /\ InOrder(d)
  BY BytesOf, Sides DEF StreamInv
<1>2. PICK k \in 1..Len(q) : /\ wire' = [wire EXCEPT ![s] = Add(wire[s], SubSeq(q, 1, k))]
                             /\ toRelay' = [toRelay EXCEPT ![s] = Drop(toRelay[s], k)]
  BY DEF OutData
<1>3. /\ ~cut /\ stage[s] = "relay" /\ stage[d] # "closed"
      /\ UNCHANGED <<kind, sent, got, toApp, stage, copy, cut, fault>>
  BY DEF OutData, CopyOut, WireUp, apps
<1> DEFINE h == SubSeq(q, 1, k)  r == SubSeq(q, k + 1, Len(q))
<1>4. h \in Seq(Nat) /\ Len(h) = k /\ r \in Seq(Nat) /\ Len(r) = Len(q) - k
  BY <1>1, Pieces
<1>5. wire'[s].bytes = w \o h /\ wire'[d] = wire[d]
  <2>1. wire'[s] = Add(wire[s], h) /\ wire'[d] = wire[d]
    BY <1>1, <1>2 DEF TypeOK
  <2>2. Add(wire[s], h).bytes = w \o h
    BY <1>1, <1>4, Buffers
  <2> QED BY <2>1, <2>2
<1>6. toRelay'[s].bytes = r /\ toRelay'[d] = toRelay[d]
  <2>1. toRelay'[s] = Drop(toRelay[s], k) /\ toRelay'[d] = toRelay[d]
    BY <1>1, <1>2 DEF TypeOK
  <2>2. Drop(toRelay[s], k).bytes = r
    BY <1>1, Buffers
  <2> QED BY <2>1, <2>2
<1>7. CASE t = s
  BY <1>1, <1>3, <1>5, <1>6, <1>7, Order_Kept DEF Unbroken, Intact, InOrder
<1>8. CASE t = d
  <2>1. Taken(t)' = Taken(t) /\ Taken(t) \in Nat
    BY <1>3, TakenIsNat DEF Taken
  <2>2. PICK x \in Nat, y \in Nat, z \in Nat, n \in Nat :
            x = Taken(t) /\ y = Len(w) /\ z = Len(q) /\ n = Len(sent[s])
    BY <1>1, <2>1
  <2>0. x \in Nat /\ y \in Nat /\ z \in Nat /\ n \in Nat /\ k \in Nat
    BY <1>1, <2>2
  <2>3. OnTheWay(t) = x + y + z
    BY <1>1, <1>8, <2>2 DEF OnTheWay
  <2>4. Len(w \o h) = y + k
    BY <1>1, <1>4, <2>2
  <2>5. OnTheWay(t)' = x + (y + k) + (z - k)
    BY <1>1, <1>4, <1>5, <1>6, <1>8, <2>1, <2>2, <2>4 DEF OnTheWay
  <2>6. OnTheWay(t)' = OnTheWay(t)
    BY <2>0, <2>3, <2>5
  <2>7. Counted(q, n - z)
    BY <1>1, <1>8, <2>2 DEF InOrder
  <2>8. Counted(h, n - z) /\ Counted(r, (n - z) + k)
    <3>1. n - z \in Int
      BY <2>0
    <3> QED BY <1>1, <2>7, <3>1, CountedPieces
  <2>9. Counted(toRelay'[s].bytes, Len(sent'[s]) - Len(toRelay'[s].bytes))
    <3>1. n - (z - k) = (n - z) + k
      BY <2>0
    <3> QED BY <1>3, <1>4, <1>6, <2>2, <2>8, <3>1
  <2>10. ASSUME fault # t PROVE Counted(w \o h, x)
    <3>1. x + y + z = n
      BY <1>1, <1>3, <1>8, <2>2, <2>3, <2>10 DEF InOrder, Intact
    <3>2. n - z = x + y /\ n - z \in Int /\ x \in Int
      BY <2>0, <3>1
    <3>3. Counted(w, x)
      BY <1>1, <1>8, <2>2, <2>10 DEF InOrder
    <3> QED BY <1>1, <1>4, <2>2, <2>8, <3>2, <3>3, CountedJoin
  <2>11. fault' # t => Counted(wire'[s].bytes, Taken(t)')
    BY <1>3, <1>5, <2>1, <2>2, <2>10
  <2>12. Unbroken' = Unbroken /\ Intact(t)' = Intact(t) /\ Peer(t) = s
    BY <1>1, <1>3, <1>8 DEF Unbroken, Intact
  <2> QED BY <1>3, <2>6, <2>9, <2>11, <2>12 DEF InOrder
<1> QED BY <1>1, <1>7, <1>8

LEMMA Order_In ==
    ASSUME StreamInv, TypeOK', NEW s \in Side, InData(s), NEW t \in Side
    PROVE  InOrder(t)'
<1> TypeOK /\ InOrder(s) /\ InOrder(t)
  BY DEF StreamInv
<1> DEFINE d == Peer(s)  w == wire[d].bytes  a == toApp[s].bytes
<1>1. /\ d \in Side /\ d # s /\ Peer(d) = s /\ (t = s \/ t = d)
  BY Sides
<1>2. /\ w \in Seq(Nat) /\ a \in Seq(Nat) /\ Len(w) \in Nat /\ Len(a) \in Nat
      /\ wire[d] \in Pipe /\ toApp[s] \in Pipe /\ Len(got[s]) \in Nat /\ Len(toRelay[d].bytes) \in Nat
  BY <1>1, BytesOf
<1>3. PICK k \in 1..Len(w) : /\ toApp' = [toApp EXCEPT ![s] = Add(toApp[s], SubSeq(w, 1, k))]
                             /\ wire' = [wire EXCEPT ![d] = Drop(wire[d], k)]
  BY DEF InData
<1>4. /\ fault # s
      /\ UNCHANGED <<kind, sent, got, toRelay, stage, copy, cut, fault>>
  BY DEF InData, Gone, apps
<1> DEFINE h == SubSeq(w, 1, k)  r == SubSeq(w, k + 1, Len(w))
<1>5. h \in Seq(Nat) /\ Len(h) = k /\ r \in Seq(Nat) /\ Len(r) = Len(w) - k
  BY <1>2, Pieces
<1>6. toApp'[s].bytes = a \o h /\ toApp'[d] = toApp[d]
  <2>1. toApp'[s] = Add(toApp[s], h) /\ toApp'[d] = toApp[d]
    BY <1>1, <1>3 DEF TypeOK
  <2>2. Add(toApp[s], h).bytes = a \o h
    BY <1>2, <1>5, Buffers
  <2> QED BY <2>1, <2>2
<1>7. wire'[d].bytes = r /\ wire'[s] = wire[s]
  <2>1. wire'[d] = Drop(wire[d], k) /\ wire'[s] = wire[s]
    BY <1>1, <1>3 DEF TypeOK
  <2>2. Drop(wire[d], k).bytes = r
    BY <1>2, Buffers
  <2> QED BY <2>1, <2>2
<1>8. CASE t = d
  BY <1>1, <1>4, <1>6, <1>7, <1>8, Order_Kept DEF Unbroken, Intact, InOrder
<1>9. CASE t = s
  <2>1. PICK x \in Nat, y \in Nat, z \in Nat, n \in Nat :
            x = Len(got[s]) /\ y = Len(a) /\ z = Len(w) /\ n = Len(toRelay[d].bytes)
    BY <1>2
  <2>0. x \in Nat /\ y \in Nat /\ z \in Nat /\ n \in Nat /\ k \in Nat
    BY <1>2, <2>1
  <2>2. Taken(t) = x + y
    BY <1>9, <2>1 DEF Taken
  <2>3. Len(a \o h) = y + k
    BY <1>2, <1>5, <2>1
  <2>4. Taken(t)' = x + (y + k)
    BY <1>4, <1>6, <1>9, <2>1, <2>3 DEF Taken
  <2>5. OnTheWay(t) = (x + y) + z + n
    BY <1>9, <2>1, <2>2 DEF OnTheWay
  <2>6. OnTheWay(t)' = (x + (y + k)) + (z - k) + n
    BY <1>4, <1>5, <1>7, <1>9, <2>1, <2>4 DEF OnTheWay
  <2>7. OnTheWay(t)' = OnTheWay(t)
    BY <2>0, <2>5, <2>6
  <2>8. Counted(a, x) /\ Counted(w, x + y)
    BY <1>4, <1>9, <2>1, <2>2 DEF InOrder
  <2>9. x \in Int /\ x + y \in Int /\ (x + y) + k = x + (y + k)
    BY <2>0
  <2>10. Counted(h, x + y) /\ Counted(r, x + (y + k))
    BY <1>2, <2>8, <2>9, CountedPieces
  <2>11. Counted(a \o h, x)
    BY <1>2, <1>5, <2>1, <2>8, <2>9, <2>10, CountedJoin
  <2>12. Counted(toApp'[t].bytes, Len(got'[t])) /\ Counted(wire'[d].bytes, Taken(t)')
    BY <1>4, <1>6, <1>7, <1>9, <2>1, <2>4, <2>10, <2>11
  <2>13. Unbroken' = Unbroken /\ Intact(t)' = Intact(t)
    BY <1>4 DEF Unbroken, Intact
  <2> QED BY <1>4, <1>9, <2>7, <2>12, <2>13 DEF InOrder
<1> QED BY <1>1, <1>8, <1>9

LEMMA Order_Exit ==
    ASSUME StreamInv, TypeOK', NEW s \in Side, AppExits(s), NEW t \in Side
    PROVE  InOrder(t)'
<1> TypeOK /\ InOrder(s) /\ InOrder(t)
  BY DEF StreamInv
<1> DEFINE d == Peer(s)  w == Len(wire[d].bytes)  q == Len(toRelay[d].bytes)
<1>1. /\ d \in Side /\ d # s /\ Peer(d) = s /\ (t = s \/ t = d) /\ s # "no"
      /\ toApp[s] \in Pipe /\ toRelay[s] \in Pipe
  BY Sides, BytesOf DEF Side
<1>2. /\ fault = "no" /\ fault' = s
      /\ toRelay' = [toRelay EXCEPT ![s].end = IF toApp[s].bytes = <<>> THEN "fin" ELSE "rst"]
      /\ toApp' = [toApp EXCEPT ![s].bytes = <<>>]
      /\ UNCHANGED <<kind, sent, got, wire, stage, copy, cut>>
  BY DEF AppExits
<1>3. toRelay'[s].bytes = toRelay[s].bytes /\ toRelay'[d] = toRelay[d]
      /\ toApp'[s].bytes = <<>> /\ toApp'[d] = toApp[d]
  <2>1. toRelay'[d] = toRelay[d] /\ toApp'[d] = toApp[d]
    BY <1>1, <1>2
  <2>2. \E e : toRelay'[s] = [toRelay[s] EXCEPT !.end = e]
    BY <1>2 DEF TypeOK
  <2>3. toApp'[s] = [toApp[s] EXCEPT !.bytes = <<>>]
    BY <1>2 DEF TypeOK
  <2>4. toRelay'[s].bytes = toRelay[s].bytes
    BY <1>1, <2>2 DEF Pipe
  <2>5. toApp'[s].bytes = <<>>
    BY <1>1, <2>3 DEF Pipe
  <2> QED BY <2>1, <2>4, <2>5
<1>4. CASE t = d
  <2>1. fault # t /\ fault' # t /\ ~Unbroken'
    BY <1>1, <1>2, <1>4 DEF Unbroken, Side
  <2>2. Intact(t)' => Intact(t)
    BY <1>2, <2>1 DEF Intact
  <2>3. Counted(sent'[t], 0) /\ sent'[s] = sent[s] /\ got'[t] = got[t] /\ s = Peer(t)
    BY <1>1, <1>2, <1>4 DEF InOrder
  <2> QED BY <1>1, <1>2, <1>3, <1>4, <2>1, <2>2, <2>3, Order_Kept
<1>5. CASE t = s
  <2>1. /\ Len(got[s]) \in Nat /\ Len(toApp[s].bytes) \in Nat /\ Len(sent[d]) \in Nat
        /\ w \in Nat /\ q \in Nat
    BY <1>1, BytesOf
  <2>2. PICK x \in Nat, y \in Nat, z \in Nat, v \in Nat, n \in Nat :
            x = Len(got[s]) /\ y = Len(toApp[s].bytes) /\ z = w /\ v = q /\ n = Len(sent[d])
    BY <2>1
  <2>0. x \in Nat /\ y \in Nat /\ z \in Nat /\ v \in Nat /\ n \in Nat
    BY <2>2
  <2>3. OnTheWay(t) = (x + y) + z + v
    BY <1>5, <2>2 DEF OnTheWay, Taken
  <2>4. OnTheWay(t)' = (x + 0) + z + v
    <3>1. Len(<<>>) = 0
      OBVIOUS
    <3>2. Len(got'[t]) = x /\ toApp'[t].bytes = <<>> /\ Len(wire'[d].bytes) = z
          /\ Len(toRelay'[d].bytes) = v
      BY <1>2, <1>3, <1>5, <2>2
    <3> QED BY <1>5, <3>1, <3>2 DEF OnTheWay, Taken
  <2>5. OnTheWay(t) <= n
    BY <1>5, <2>2 DEF InOrder
  <2>6. OnTheWay(t)' <= n
    BY <2>0, <2>3, <2>4, <2>5
  <2>7. Counted(toApp'[t].bytes, Len(got'[t]))
    BY <1>3, <1>5 DEF Counted
  <2>8. ~Unbroken' /\ ~Intact(t)'
    BY <1>1, <1>2, <1>5 DEF Unbroken, Intact
  <2> QED BY <1>2, <1>3, <1>5, <2>2, <2>6, <2>7, <2>8 DEF InOrder
<1> QED BY <1>1, <1>4, <1>5

-----------------------------------------------------------------------------
(* Ends and closings *)

LEMMA NothingMends == [Next]_vars /\ TypeOK /\ Unbroken' => Unbroken
<1> SUFFICES ASSUME [Next]_vars, TypeOK, Unbroken' PROVE Unbroken
  OBVIOUS
<1>1. CASE UNCHANGED vars
  BY <1>1 DEF vars, Unbroken
<1>2. CASE Setup \/ VsockBreaks
  BY <1>2 DEF Setup, VsockBreaks, HostDial, GuestDial, HostConnected, ConnectFail, Close, Unbroken
<1>3. ASSUME NEW s \in Side, App(s) PROVE Unbroken
  BY <1>3 DEF App, AppSend, AppShut, AppRead, AppEnd, Unbroken
<1>4. ASSUME NEW s \in Side, Copy(s) PROVE Unbroken
  BY <1>4 DEF Copy, OutData, OutEnd, OutError, InData, InEnd, InError, Unbroken
<1>5. ASSUME NEW s \in Side, Finish(s) PROVE Unbroken
  BY <1>5 DEF Finish, CloseLocal, Close, Unbroken
<1>6. ASSUME NEW s \in Side, RelayDies(s) \/ AppExits(s) PROVE Unbroken
  BY <1>6 DEF RelayDies, Close, AppExits, Unbroken, Side
<1> QED BY <1>1, <1>2, <1>3, <1>4, <1>5, <1>6 DEF Next

\* What a pipe is after another end has been put on it.
LEMMA EndPut ==
    ASSUME NEW f \in [Side -> Pipe], NEW s \in Side, NEW e \in {"fin", "rst", "close"}
    PROVE  LET g == [f EXCEPT ![s] = EndWith(@, e)] IN
           /\ \A t \in Side : g[t].bytes = f[t].bytes /\ (t # s => g[t] = f[t])
           /\ g[s].end = IF f[s].end = "no" THEN e ELSE f[s].end
<1> DEFINE g == [f EXCEPT ![s] = EndWith(@, e)]
<1>1. g[s] = EndWith(f[s], e) /\ \A t \in Side : t # s => g[t] = f[t]
  OBVIOUS
<1>2. EndWith(f[s], e).bytes = f[s].bytes
      /\ EndWith(f[s], e).end = IF f[s].end = "no" THEN e ELSE f[s].end
  BY Buffers
<1> HIDE DEF g
<1> QED BY <1>1, <1>2 DEF g

\* In a connection that nothing has broken a relay closes after both directions.
LEMMA BothWays ==
    ASSUME StreamInv, Unbroken, NEW s \in Side, Finish(s)
    PROVE  copy[s].in = "ok" /\ copy[s].out = "ok" /\ ~Blocked(s)
<1>1. EndOK(s, Peer(s)) /\ EndOK(Peer(s), s) /\ TypeOK
  BY Sides DEF StreamInv
<1>2. copy[s].in # "err" /\ copy[s].out # "err"
  BY <1>1 DEF EndOK
<1>3. copy[s].in \in Copying /\ copy[s].out \in Copying
  BY <1>1 DEF TypeOK
<1>4. CASE stage[s] = "closing"
  BY <1>1, <1>4 DEF EndOK, Blocked
<1>5. CASE Ended(s)
  <2>1. "copy" \notin Results(s)
    BY <1>2, <1>5 DEF Ended, Unbroken, Results
  <2> QED BY <1>2, <1>3, <2>1 DEF Results, Copying, Blocked
<1> QED BY <1>4, <1>5 DEF Finish

LEMMA ClosedValues ==
    ASSUME TypeOK, NEW s \in Side, Close(s), NEW d \in Side, d = Peer(s)
    PROVE  /\ \A t \in Side : toApp'[t].bytes = toApp[t].bytes
           /\ toApp'[d] = toApp[d] /\ toRelay'[d] = toRelay[d]
           /\ toApp'[s].end = IF toApp[s].end # "no" THEN toApp[s].end
                              ELSE IF toRelay[s].bytes = <<>> THEN "fin" ELSE "rst"
           /\ toRelay'[s] = Empty /\ wire'[d] = Empty
           /\ wire'[s].bytes = wire[s].bytes
           /\ wire'[s].end = IF wire[s].end = "no" THEN "fin" ELSE wire[s].end
           /\ stage'[s] = "closed" /\ stage'[d] = stage[d]
           /\ UNCHANGED <<kind, sent, shut, reads, got, end, copy, cut>>
<1>1. d # s
  BY Sides
<1>2. toApp \in [Side -> Pipe] /\ wire \in [Side -> Pipe] /\ toRelay \in [Side -> Pipe]
  BY DEF TypeOK
<1>3. PICK e \in {"fin", "rst"} :
        /\ e = IF toRelay[s].bytes = <<>> THEN "fin" ELSE "rst"
        /\ toApp' = [toApp EXCEPT ![s] = EndWith(@, e)]
  BY DEF Close
<1>4. /\ \A t \in Side : toApp'[t].bytes = toApp[t].bytes /\ (t # s => toApp'[t] = toApp[t])
      /\ toApp'[s].end = IF toApp[s].end = "no" THEN e ELSE toApp[s].end
  BY <1>2, <1>3, EndPut
<1>5. toRelay'[s] = Empty /\ toRelay'[d] = toRelay[d]
  BY <1>1, <1>2 DEF Close
<1>6. wire'[s] = EndWith(wire[s], "fin") /\ wire'[d] = Empty
  BY <1>1, <1>2 DEF Close
<1>7. wire'[s].bytes = wire[s].bytes /\ wire'[s].end = IF wire[s].end = "no" THEN "fin" ELSE wire[s].end
  BY <1>2, <1>6, Buffers
<1>8. stage'[s] = "closed" /\ stage'[d] = stage[d] /\ UNCHANGED <<kind, sent, shut, reads, got, end, copy, cut>>
  BY <1>1 DEF Close, TypeOK, apps
<1> QED BY <1>1, <1>3, <1>4, <1>5, <1>6, <1>7, <1>8

LEMMA Order_Close ==
    ASSUME StreamInv, TypeOK', NEW s \in Side, Close(s), fault' = fault \/ fault = "no",
           Unbroken' => Unbroken /\ copy[s].in = "ok" /\ copy[s].out = "ok", NEW t \in Side
    PROVE  InOrder(t)'
<1> TypeOK /\ InOrder(s) /\ InOrder(t)
  BY DEF StreamInv
<1> DEFINE d == Peer(s)
<1>1. /\ d \in Side /\ d # s /\ Peer(d) = s /\ (t = s \/ t = d)
  BY Sides
<1> HIDE DEF d
<1>2. /\ toApp'[t].bytes = toApp[t].bytes /\ toRelay'[d] = toRelay[d]
      /\ toRelay'[s].bytes = <<>> /\ wire'[d].bytes = <<>> /\ wire'[s].bytes = wire[s].bytes
      /\ stage'[s] = "closed" /\ UNCHANGED <<kind, sent, got>>
  BY <1>1, ClosedValues DEF Empty, d
<1>3. Unbroken' => Unbroken /\ wire[d].bytes = <<>> /\ toRelay[s].bytes = <<>>
  BY <1>1 DEF StreamInv, EndOK, d
<1>4. fault' # t => fault # t
  BY DEF Side
<1>5. ~Intact(t)' /\ Counted(sent'[t], 0)
  BY <1>1, <1>2 DEF Intact, InOrder, d
<1>6. CASE t = s
  BY <1>1, <1>2, <1>3, <1>4, <1>5, <1>6, Order_Kept DEF d
<1>7. CASE t = d
  BY <1>1, <1>2, <1>3, <1>4, <1>5, <1>7, Order_Kept DEF d
<1> QED BY <1>1, <1>6, <1>7

LEMMA Ends_Close ==
    ASSUME StreamInv, NEW s \in Side, Close(s),
           Unbroken, copy[s].in = "ok", copy[s].out = "ok", stage[s] \in {"relay", "closing"}
    PROVE  SetUp' /\ \A t \in Side : EndOK(t, Peer(t))'
<1> TypeOK /\ SetUp
  BY DEF StreamInv
<1> DEFINE d == Peer(s)
<1>1. d \in Side /\ d # s /\ Peer(d) = s /\ \A t \in Side : t = s \/ t = d
  BY Sides
<1>2. EndOK(s, d) /\ EndOK(d, s)
  BY <1>1 DEF StreamInv
<1>3. EndOK(s, d)'
  BY <1>1, <1>2, ClosedValues DEF EndOK, Empty
<1>4. EndOK(d, s)'
  BY <1>1, <1>2, ClosedValues DEF EndOK, Empty
<1>5. SetUp'
  BY <1>1, ClosedValues DEF SetUp, Side
<1> QED BY <1>1, <1>3, <1>4, <1>5

LEMMA Step_App ==
    ASSUME StreamInv, TypeOK', NEW s \in Side, App(s)
    PROVE  /\ \A t \in Side : InOrder(t)'
           /\ Unbroken => SetUp' /\ \A t \in Side : EndOK(t, Peer(t))'
<1> TypeOK
  BY DEF StreamInv
<1> DEFINE d == Peer(s)
<1>1. d \in Side /\ d # s /\ Peer(d) = s /\ \A t \in Side : t = s \/ t = d
  BY Sides
<1>2. InOrder(s) /\ InOrder(d) /\ (Unbroken => SetUp /\ EndOK(s, d) /\ EndOK(d, s))
  BY <1>1 DEF StreamInv
<1>3. CASE AppSend(s)
  <2>1. \A t \in Side : InOrder(t)'
    BY <1>3, Order_Send
  <2>2. /\ ~shut[s] /\ toRelay'[s] = Add(toRelay[s], <<Len(sent[s]) + 1>>)
        /\ toRelay'[d] = toRelay[d]
        /\ UNCHANGED <<kind, shut, toApp, wire, stage, copy, cut, fault>>
    BY <1>1, <1>3 DEF AppSend, TypeOK
  <2>3. toRelay'[s].end = toRelay[s].end
    <3>1. toRelay[s] \in Pipe /\ <<Len(sent[s]) + 1>> \in Seq(Nat)
      BY BytesOf
    <3> QED BY <2>2, <3>1, Buffers
  <2>4. Unbroken => SetUp' /\ EndOK(s, d)' /\ EndOK(d, s)'
    BY <1>2, <2>2, <2>3 DEF SetUp, EndOK
  <2> QED BY <1>1, <2>1, <2>4
<1>4. CASE AppShut(s)
  <2>1. /\ toRelay' = [toRelay EXCEPT ![s] = EndWith(@, "fin")] /\ shut'[s] = TRUE /\ shut'[d] = shut[d]
        /\ UNCHANGED <<kind, sent, got, toApp, wire, stage, copy, cut, fault>>
    BY <1>1, <1>4 DEF AppShut, TypeOK
  <2>2. /\ \A t \in Side : toRelay'[t].bytes = toRelay[t].bytes
        /\ toRelay'[d] = toRelay[d]
        /\ toRelay'[s].end = IF toRelay[s].end = "no" THEN "fin" ELSE toRelay[s].end
    <3>1. toRelay \in [Side -> Pipe]
      BY DEF TypeOK
    <3> QED BY <1>1, <2>1, <3>1, EndPut
  <2>3. \A t \in Side : InOrder(t)'
    BY <1>1, <1>2, <2>1, <2>2 DEF InOrder, Taken, OnTheWay, Unbroken, Intact
  <2>4. Unbroken => SetUp' /\ EndOK(s, d)' /\ EndOK(d, s)'
    BY <1>2, <2>1, <2>2 DEF SetUp, EndOK
  <2> QED BY <1>1, <2>3, <2>4
<1>5. CASE AppRead(s)
  <2>1. \A t \in Side : InOrder(t)'
    BY <1>5, Order_Read
  <2>2. /\ toApp'[s] = [toApp[s] EXCEPT !.bytes = <<>>] /\ toApp'[d] = toApp[d]
        /\ UNCHANGED <<kind, shut, toRelay, wire, stage, copy, cut, fault>>
    BY <1>1, <1>5 DEF AppRead, TypeOK
  <2>3. toApp'[s].end = toApp[s].end
    <3>1. toApp[s] \in Pipe
      BY BytesOf
    <3> QED BY <2>2, <3>1 DEF Pipe
  <2>4. Unbroken => SetUp' /\ EndOK(s, d)' /\ EndOK(d, s)'
    BY <1>2, <2>2, <2>3 DEF SetUp, EndOK
  <2> QED BY <1>1, <2>1, <2>4
<1>6. CASE AppEnd(s)
  <2>1. UNCHANGED <<kind, sent, shut, got, toApp, toRelay, wire, stage, copy, cut, fault>>
    BY <1>6 DEF AppEnd
  <2>2. \A t \in Side : InOrder(t)'
    BY <1>1, <1>2, <2>1 DEF InOrder, Taken, OnTheWay, Unbroken, Intact
  <2>3. Unbroken => SetUp' /\ EndOK(s, d)' /\ EndOK(d, s)'
    BY <1>2, <2>1 DEF SetUp, EndOK
  <2> QED BY <1>1, <2>2, <2>3
<1> QED BY <1>3, <1>4, <1>5, <1>6 DEF App

LEMMA Step_Out ==
    ASSUME StreamInv, TypeOK', NEW s \in Side, OutData(s) \/ OutEnd(s) \/ OutError(s)
    PROVE  /\ \A t \in Side : InOrder(t)'
           /\ Unbroken => SetUp' /\ \A t \in Side : EndOK(t, Peer(t))'
<1> TypeOK
  BY DEF StreamInv
<1> DEFINE d == Peer(s)
<1>1. d \in Side /\ d # s /\ Peer(d) = s /\ \A t \in Side : t = s \/ t = d
  BY Sides
<1>2. InOrder(s) /\ InOrder(d) /\ (Unbroken => SetUp /\ EndOK(s, d) /\ EndOK(d, s))
  BY <1>1 DEF StreamInv
<1>3. stage[s] = "relay" /\ copy[s].out = "copy" /\ UNCHANGED <<kind, sent, shut, got, toApp, stage, cut, fault>>
  BY DEF OutData, OutEnd, OutError, CopyOut, apps
<1>4. copy[s] \in [out : Copying, in : Copying] /\ wire \in [Side -> Pipe] /\ toRelay[s] \in Pipe
  BY DEF TypeOK
<1>5. CASE OutData(s)
  <2>1. \A t \in Side : InOrder(t)'
    BY <1>5, Order_Out
  <2>2. PICK k \in 1..Len(toRelay[s].bytes) :
            /\ wire' = [wire EXCEPT ![s] = Add(wire[s], SubSeq(toRelay[s].bytes, 1, k))]
            /\ toRelay' = [toRelay EXCEPT ![s] = Drop(toRelay[s], k)]
    BY <1>5 DEF OutData
  <2>3. toRelay'[s].end = toRelay[s].end /\ toRelay'[d] = toRelay[d]
    <3>1. toRelay'[s] = Drop(toRelay[s], k) /\ toRelay'[d] = toRelay[d]
      BY <1>1, <2>2 DEF TypeOK
    <3>2. Drop(toRelay[s], k).end = toRelay[s].end
      BY <1>4, Buffers
    <3> QED BY <3>1, <3>2
  <2>4. wire'[s].end = wire[s].end /\ wire'[d] = wire[d]
    <3>1. wire'[s] = Add(wire[s], SubSeq(toRelay[s].bytes, 1, k)) /\ wire'[d] = wire[d]
      BY <1>1, <1>4, <2>2
    <3>2. wire[s] \in Pipe /\ SubSeq(toRelay[s].bytes, 1, k) \in Seq(Nat)
      BY BytesOf, Pieces
    <3> QED BY <3>1, <3>2, Buffers
  <2>5. copy' = copy
    BY <1>5 DEF OutData
  <2>6. Unbroken => SetUp' /\ EndOK(s, d)' /\ EndOK(d, s)'
    BY <1>2, <1>3, <2>3, <2>4, <2>5 DEF SetUp, EndOK
  <2> QED BY <1>1, <2>1, <2>6
<1>6. CASE OutEnd(s)
  <2>1. PICK e \in {"fin", "close"} : /\ e = IF kind = "docker" THEN "close" ELSE "fin"
                                      /\ wire' = [wire EXCEPT ![s] = EndWith(@, e)]
    BY <1>6 DEF OutEnd
  <2>2. /\ \A t \in Side : wire'[t].bytes = wire[t].bytes
        /\ wire'[d] = wire[d] /\ wire'[s].end = IF wire[s].end = "no" THEN e ELSE wire[s].end
    BY <1>1, <1>4, <2>1, EndPut
  <2>3. toRelay' = toRelay /\ toRelay[s].bytes = <<>> /\ toRelay[s].end = "fin"
        /\ ~cut /\ stage[d] # "closed" /\ copy' = [copy EXCEPT ![s].out = "ok"]
    BY <1>6 DEF OutEnd, WireUp
  <2>4. copy'[s].out = "ok" /\ copy'[s].in = copy[s].in /\ copy'[d] = copy[d]
    BY <1>1, <1>4, <2>3 DEF TypeOK
  <2>5. \A t \in Side : InOrder(t)'
    BY <1>1, <1>2, <1>3, <2>2, <2>3 DEF InOrder, Taken, OnTheWay, Unbroken, Intact
  <2>6. wire[s].end \in {"no", "fin", "rst", "close"}
    BY <1>4 DEF Pipe
  <2>7. Unbroken => SetUp' /\ EndOK(s, d)'
    BY <1>2, <1>3, <2>2, <2>3, <2>4 DEF SetUp, EndOK
  <2>8. Unbroken => EndOK(d, s)'
    BY <1>2, <1>3, <2>1, <2>2, <2>3, <2>4, <2>6 DEF EndOK, Unbroken
  <2> QED BY <1>1, <2>5, <2>7, <2>8
<1>7. CASE OutError(s)
  <2>1. /\ \A t \in Side : wire'[t].bytes = wire[t].bytes
        /\ toRelay' = toRelay
    BY <1>4, <1>7, EndPut DEF OutError
  <2>2. \A t \in Side : InOrder(t)'
    BY <1>1, <1>2, <1>3, <2>1 DEF InOrder, Taken, OnTheWay, Unbroken, Intact
  <2>3. ~Unbroken
    <3> SUFFICES ASSUME Unbroken PROVE FALSE
      OBVIOUS
    <3>1. stage[d] \in {"none", "closed"}
      BY <1>2, <1>7 DEF OutError, WireUp, EndOK
    <3>2. stage[d] # "closed"
      BY <1>2, <1>3 DEF EndOK
    <3>3. stage[d] # "none"
      BY <1>1, <1>2, <1>3 DEF SetUp, Side
    <3> QED BY <3>1, <3>2, <3>3
  <2> QED BY <2>2, <2>3
<1> QED BY <1>5, <1>6, <1>7

LEMMA Step_In ==
    ASSUME StreamInv, TypeOK', NEW s \in Side, InData(s) \/ InEnd(s) \/ InError(s)
    PROVE  /\ \A t \in Side : InOrder(t)'
           /\ Unbroken => SetUp' /\ \A t \in Side : EndOK(t, Peer(t))'
<1> TypeOK
  BY DEF StreamInv
<1> DEFINE d == Peer(s)
<1>1. d \in Side /\ d # s /\ Peer(d) = s /\ \A t \in Side : t = s \/ t = d
  BY Sides
<1>2. InOrder(s) /\ InOrder(d) /\ (Unbroken => SetUp /\ EndOK(s, d) /\ EndOK(d, s))
  BY <1>1 DEF StreamInv
<1>3. /\ stage[s] = "relay" /\ copy[s].in = "copy"
      /\ UNCHANGED <<kind, sent, shut, got, toRelay, stage, cut, fault>>
  BY DEF InData, InEnd, InError, CopyIn, apps
<1>4. /\ copy[s] \in [out : Copying, in : Copying]
      /\ wire \in [Side -> Pipe] /\ toApp \in [Side -> Pipe] /\ toApp[s] \in Pipe
  BY DEF TypeOK
<1>5. CASE InData(s)
  <2>1. \A t \in Side : InOrder(t)'
    BY <1>5, Order_In
  <2>2. PICK k \in 1..Len(wire[d].bytes) :
            /\ toApp' = [toApp EXCEPT ![s] = Add(toApp[s], SubSeq(wire[d].bytes, 1, k))]
            /\ wire' = [wire EXCEPT ![d] = Drop(wire[d], k)]
    BY <1>5 DEF InData
  <2>3. wire'[d].end = wire[d].end /\ wire'[s] = wire[s]
    <3>1. wire'[d] = Drop(wire[d], k) /\ wire'[s] = wire[s]
      BY <1>1, <1>4, <2>2
    <3>2. Drop(wire[d], k).end = wire[d].end
      BY <1>1, <1>4, Buffers
    <3> QED BY <3>1, <3>2
  <2>4. toApp'[s].end = toApp[s].end /\ toApp'[d] = toApp[d]
    <3>1. toApp'[s] = Add(toApp[s], SubSeq(wire[d].bytes, 1, k)) /\ toApp'[d] = toApp[d]
      BY <1>1, <1>4, <2>2
    <3>2. wire[d].bytes \in Seq(Nat)
      BY <1>1, BytesOf
    <3>3. SubSeq(wire[d].bytes, 1, k) \in Seq(Nat)
      BY <3>2, Pieces
    <3>4. Add(toApp[s], SubSeq(wire[d].bytes, 1, k)).end = toApp[s].end
      BY <1>4, <3>3, Buffers
    <3> QED BY <3>1, <3>4
  <2>5. copy' = copy
    BY <1>5 DEF InData
  <2>6. Unbroken => SetUp' /\ EndOK(s, d)' /\ EndOK(d, s)'
    BY <1>2, <1>3, <2>3, <2>4, <2>5 DEF SetUp, EndOK
  <2> QED BY <1>1, <2>1, <2>6
<1>6. CASE InEnd(s)
  <2>1. toApp' = [toApp EXCEPT ![s] = EndWith(@, "fin")]
    BY <1>6 DEF InEnd
  <2>2. /\ \A t \in Side : toApp'[t].bytes = toApp[t].bytes
        /\ toApp'[d] = toApp[d] /\ toApp'[s].end = IF toApp[s].end = "no" THEN "fin" ELSE toApp[s].end
    BY <1>1, <1>4, <2>1, EndPut
  <2>3. wire' = wire /\ copy' = [copy EXCEPT ![s].in = "ok"]
        /\ wire[d] = [bytes |-> <<>>, end |-> IF kind = "docker" THEN "close" ELSE "fin"]
    BY <1>6 DEF InEnd
  <2>4. copy'[s].in = "ok" /\ copy'[s].out = copy[s].out /\ copy'[d] = copy[d]
    BY <1>1, <1>4, <2>3 DEF TypeOK
  <2>5. \A t \in Side : InOrder(t)'
    BY <1>1, <1>2, <1>3, <2>2, <2>3 DEF InOrder, Taken, OnTheWay, Unbroken, Intact
  <2>6. Unbroken => wire[d].bytes = <<>> /\ wire[d].end = "close"
    BY <2>3 DEF Unbroken
  <2>7. Unbroken => SetUp' /\ EndOK(s, d)' /\ EndOK(d, s)'
    BY <1>2, <1>3, <2>2, <2>3, <2>4, <2>6 DEF SetUp, EndOK
  <2> QED BY <1>1, <2>5, <2>7
<1>7. CASE InError(s)
  <2>1. /\ \A t \in Side : toApp'[t].bytes = toApp[t].bytes
        /\ wire' = wire
    BY <1>4, <1>7, EndPut DEF InError
  <2>2. \A t \in Side : InOrder(t)'
    BY <1>1, <1>2, <1>3, <2>1 DEF InOrder, Taken, OnTheWay, Unbroken, Intact
  <2>3. ~Unbroken
    <3> SUFFICES ASSUME Unbroken PROVE FALSE
      OBVIOUS
    <3>1. ~cut /\ ~Gone(s)
      BY <1>2 DEF EndOK, Gone, Unbroken, Side
    <3>2. wire[d].end = "fin"
      BY <1>7, <3>1 DEF InError
    <3> QED BY <1>2, <1>3, <3>2 DEF EndOK
  <2> QED BY <2>2, <2>3
<1> QED BY <1>5, <1>6, <1>7

LEMMA Step_Finish ==
    ASSUME StreamInv, TypeOK', NEW s \in Side, Finish(s)
    PROVE  /\ \A t \in Side : InOrder(t)'
           /\ Unbroken => SetUp' /\ \A t \in Side : EndOK(t, Peer(t))'
<1> TypeOK
  BY DEF StreamInv
<1>1. Unbroken => copy[s].in = "ok" /\ copy[s].out = "ok" /\ ~Blocked(s)
  BY BothWays
<1>2. fault' = fault /\ stage[s] \in {"relay", "closing"}
  BY Finishing
<1>3. CASE Close(s)
  <2>1. Unbroken' => Unbroken
    BY <1>2, <1>3 DEF Close, Unbroken
  <2>2. \A t \in Side : InOrder(t)'
    BY <1>1, <1>2, <1>3, <2>1, Order_Close
  <2> QED BY <1>1, <1>2, <1>3, <2>2, Ends_Close
<1>4. CASE CloseLocal(s) /\ Blocked(s)
  <2>1. toApp \in [Side -> Pipe] /\ \E e \in {"fin", "rst"} : toApp' = [toApp EXCEPT ![s] = EndWith(@, e)]
    BY <1>4 DEF CloseLocal, TypeOK
  <2>2. \A t \in Side : toApp'[t].bytes = toApp[t].bytes
    BY <2>1, EndPut
  <2>3. UNCHANGED <<kind, sent, got, toRelay, wire, cut, fault>> /\ stage' = [stage EXCEPT ![s] = "closing"]
    BY <1>2, <1>4 DEF CloseLocal, apps
  <2>4. ASSUME NEW t \in Side PROVE Intact(t)' => Intact(t)
    BY <1>2, <2>3 DEF Intact, TypeOK
  <2>5. ASSUME NEW t \in Side PROVE InOrder(t)'
    BY <2>2, <2>3, <2>4, <2>5 DEF StreamInv, InOrder, Taken, OnTheWay, Unbroken
  <2> QED BY <1>1, <1>4, <2>5
<1> QED BY <1>3, <1>4, Finishing

LEMMA Step_Setup ==
    ASSUME StreamInv, TypeOK', Setup \/ VsockBreaks
    PROVE  /\ \A t \in Side : InOrder(t)'
           /\ Unbroken' => SetUp' /\ \A t \in Side : EndOK(t, Peer(t))'
<1> TypeOK
  BY DEF StreamInv
<1>1. CASE HostDial \/ GuestDial \/ HostConnected
  <2>1. UNCHANGED <<kind, sent, shut, reads, got, end, toRelay, toApp, wire, copy, cut, fault>>
    BY <1>1 DEF HostDial, GuestDial, HostConnected, apps
  <2>2. \A t \in Side : stage[t] \in {"closing", "closed"} /\ Unbroken => stage'[t] = stage[t]
    BY <1>1 DEF HostDial, GuestDial, HostConnected, TypeOK, Side, StreamInv, Begun
  <2>6. \A t \in Side : stage'[t] \in {"closing", "closed"} => stage[t] = stage'[t]
    BY <1>1 DEF HostDial, GuestDial, HostConnected, TypeOK, Side
  <2>5. SetUp => SetUp'
    BY <1>1 DEF HostDial, GuestDial, HostConnected, TypeOK, Side, SetUp
  <2>3. ASSUME NEW t \in Side PROVE InOrder(t)'
    <3>1. Intact(t)' => Intact(t)
      BY <1>1, <2>1 DEF HostDial, GuestDial, HostConnected, TypeOK, Side, Intact, Peer,
                        StreamInv, Begun
    <3> QED BY <2>1, <3>1 DEF StreamInv, InOrder, Taken, OnTheWay, Unbroken
  <2>4. ASSUME Unbroken', NEW t \in Side PROVE EndOK(t, Peer(t))'
    <3>1. Unbroken
      BY <2>1, <2>4 DEF Unbroken
    <3> QED BY <2>1, <2>2, <2>6, <3>1 DEF StreamInv, EndOK
  <2> QED BY <2>1, <2>3, <2>4, <2>5 DEF StreamInv, Unbroken
<1>2. CASE ConnectFail
  <2>1. Close("host") /\ fault' = fault /\ stage["host"] = "connect" /\ "host" \in Side
    BY <1>2 DEF ConnectFail, Side
  <2>2. ~Unbroken'
    BY <2>1 DEF Close, Unbroken, TypeOK
  <2> QED BY <2>1, <2>2, Order_Close
<1>3. CASE VsockBreaks
  <2>1. /\ fault = "no" /\ fault' = "other" /\ cut' = TRUE /\ wire' = [s \in Side |-> Empty]
        /\ UNCHANGED <<kind, sent, shut, reads, got, end, toRelay, toApp, stage, copy>>
    BY <1>3 DEF VsockBreaks, apps
  <2>2. ASSUME NEW t \in Side PROVE InOrder(t)'
    <3>1. Peer(t) \in Side /\ t # "no"
      BY Sides DEF Side
    <3>2. ~Unbroken' /\ ~Intact(t)' /\ wire'[Peer(t)].bytes = <<>>
      BY <2>1, <3>1 DEF Unbroken, Intact, Empty
    <3>3. InOrder(t)
      BY DEF StreamInv
    <3>4. /\ Counted(sent'[t], 0) /\ sent'[Peer(t)] = sent[Peer(t)] /\ got'[t] = got[t]
          /\ toApp'[t].bytes = toApp[t].bytes /\ toRelay'[Peer(t)].bytes = toRelay[Peer(t)].bytes
          /\ fault # t
      BY <2>1, <3>1, <3>3 DEF InOrder
    <3> QED BY <3>1, <3>2, <3>3, <3>4, Order_Kept
  <2> QED BY <2>1, <2>2 DEF Unbroken
<1> QED BY <1>1, <1>2, <1>3 DEF Setup

LEMMA Begun_Next == TypeOK /\ Begun /\ [Next]_vars => Begun'
<1> SUFFICES ASSUME TypeOK, Begun, [Next]_vars PROVE Begun'
  OBVIOUS
<1>1. CASE UNCHANGED vars
  BY <1>1 DEF vars, Begun
<1>2. CASE HostDial \/ GuestDial \/ HostConnected \/ VsockBreaks
  BY <1>2 DEF HostDial, GuestDial, HostConnected, VsockBreaks, Begun, TypeOK, Side
<1>3. ASSUME NEW s \in Side, App(s) \/ AppExits(s) \/ Copy(s) PROVE Begun'
  <2>1. stage' = stage
    BY <1>3 DEF App, AppSend, AppShut, AppRead, AppEnd, AppExits,
                Copy, OutData, OutEnd, OutError, InData, InEnd, InError
  <2> QED BY <2>1 DEF Begun
<1>4. ASSUME NEW s \in Side, stage[s] # "none",
             \E x \in {"closing", "closed"} : stage' = [stage EXCEPT ![s] = x]
      PROVE  Begun'
  BY <1>4 DEF Begun, TypeOK, Side
<1>5. CASE ConnectFail
  BY <1>4, <1>5 DEF ConnectFail, Close, Side
<1>6. ASSUME NEW s \in Side, Finish(s) \/ RelayDies(s) PROVE Begun'
  BY <1>4, <1>6 DEF Finish, RelayDies, Close, CloseLocal
<1> QED BY <1>1, <1>2, <1>3, <1>5, <1>6 DEF Next, Setup

LEMMA Inv_Next == StreamInv /\ [Next]_vars => StreamInv'
<1> SUFFICES ASSUME StreamInv, [Next]_vars PROVE StreamInv'
  OBVIOUS
<1> TypeOK /\ TypeOK' /\ Begun' /\ (Unbroken' => Unbroken)
  BY Types_Next, Begun_Next, NothingMends DEF StreamInv
<1> DEFINE Good == /\ \A t \in Side : InOrder(t)'
                   /\ Unbroken' => SetUp' /\ \A t \in Side : EndOK(t, Peer(t))'
<1>1. CASE UNCHANGED vars
  <2>1. \A t \in Side : InOrder(t)' <=> InOrder(t)
    BY <1>1 DEF vars, InOrder, Taken, OnTheWay, Intact, Unbroken
  <2>2. \A t \in Side : EndOK(t, Peer(t))' <=> EndOK(t, Peer(t))
    BY <1>1 DEF vars, EndOK
  <2>3. (SetUp' <=> SetUp) /\ (Unbroken' <=> Unbroken)
    BY <1>1 DEF vars, SetUp, Unbroken
  <2> QED BY <2>1, <2>2, <2>3 DEF StreamInv
<1>2. CASE Setup \/ VsockBreaks
  BY <1>2, Step_Setup DEF StreamInv
<1>3. ASSUME NEW s \in Side, App(s) PROVE Good
  BY <1>3, Step_App
<1>4. ASSUME NEW s \in Side, Copy(s) PROVE Good
  BY <1>4, Step_Out, Step_In DEF Copy
<1>5. ASSUME NEW s \in Side, Finish(s) PROVE Good
  BY <1>5, Step_Finish
<1>6. ASSUME NEW s \in Side, RelayDies(s) PROVE Good
  <2>1. Close(s) /\ fault = "no" /\ ~Unbroken'
    BY <1>6 DEF RelayDies, Unbroken
  <2> QED BY <2>1, Order_Close
<1>7. ASSUME NEW s \in Side, AppExits(s) PROVE Good
  <2>1. ~Unbroken'
    BY <1>7 DEF AppExits, Unbroken, Side
  <2> QED BY <1>7, <2>1, Order_Exit
<1> QED BY <1>1, <1>2, <1>3, <1>4, <1>5, <1>6, <1>7 DEF Next, StreamInv

LEMMA Inv_Init == Init => StreamInv
<1> SUFFICES ASSUME Init PROVE StreamInv
  OBVIOUS
<1>1. TypeOK
  BY Types_Init
<1>2. /\ \A s \in Side : /\ sent[s] = <<>> /\ got[s] = <<>> /\ toApp[s] = Empty /\ wire[s] = Empty
                         /\ toRelay[s] = Empty /\ copy[s].out = "copy" /\ copy[s].in = "copy"
                         /\ stage[s] \notin {"closing", "closed"}
      /\ ~cut /\ SetUp /\ Begun
  BY DEF Init, Side, SetUp, Begun
<1>3. \A n : Counted(<<>>, n)
  BY DEF Counted
<1>4. ASSUME NEW s \in Side PROVE InOrder(s)
  <2>1. Peer(s) \in Side /\ Len(<<>>) = 0
    BY Sides
  <2>2. /\ sent[s] = <<>> /\ sent[Peer(s)] = <<>> /\ got[s] = <<>> /\ toApp[s].bytes = <<>>
        /\ wire[Peer(s)].bytes = <<>> /\ toRelay[Peer(s)].bytes = <<>>
    BY <1>2, <2>1 DEF Empty
  <2>3. Taken(s) = 0 /\ OnTheWay(s) = 0
    BY <2>1, <2>2 DEF OnTheWay, Taken
  <2> QED BY <1>3, <2>1, <2>2, <2>3 DEF InOrder
<1>5. ASSUME NEW s \in Side PROVE EndOK(s, Peer(s))
  <2>1. Peer(s) \in Side
    BY Sides
  <2> QED BY <1>2, <2>1 DEF EndOK, Empty
<1> QED BY <1>1, <1>2, <1>4, <1>5 DEF StreamInv

-----------------------------------------------------------------------------
(* The refinement of ByteStream *)

Broken == fault # "no" \/ kind = "port"

LEMMA Refine_Read ==
    ASSUME StreamInv, NEW s \in Side, AppRead(s)
    PROVE  Promise!Deliver(s)
<1> DEFINE g == got[s]  a == toApp[s].bytes  p == Peer(s)
<1> TypeOK /\ InOrder(s) /\ p \in Side
  BY Sides DEF StreamInv
<1>1. /\ g \in Seq(Nat) /\ a \in Seq(Nat) /\ sent[p] \in Seq(Nat) /\ Len(g) \in Nat /\ Len(a) \in Nat
      /\ Len(wire[p].bytes) \in Nat /\ Len(toRelay[p].bytes) \in Nat /\ Len(sent[p]) \in Nat
  BY BytesOf
<1>2. reads[s] /\ end[s] = "open" /\ a # <<>> /\ got' = [got EXCEPT ![s] = g \o a]
      /\ UNCHANGED <<kind, sent, shut, reads, end, fault>>
  BY DEF AppRead
<1>3. PICK x \in Nat, y \in Nat, z \in Nat, v \in Nat, n \in Nat :
          /\ x = Len(g) /\ y = Len(a) /\ z = Len(wire[p].bytes) /\ v = Len(toRelay[p].bytes)
          /\ n = Len(sent[p])
  BY <1>1
<1>4. x \in Nat /\ y \in Nat /\ z \in Nat /\ v \in Nat /\ n \in Nat
  BY <1>3
<1>5. (x + y) + z + v <= n
  BY <1>3 DEF InOrder, OnTheWay, Taken
<1>6. y # 0
  BY <1>1, <1>2, <1>3
<1>7. x + y <= n /\ y \in 1..(n - x)
  BY <1>4, <1>5, <1>6
<1>8. g \o a = SubSeq(sent[p], 1, x + y)
  <2>1. g \o a \in Seq(Nat) /\ Len(g \o a) = x + y
    BY <1>1, <1>3
  <2>2. Counted(g \o a, 0)
    <3>1. x \in Int /\ 0 \in Int /\ x = 0 + x
      BY <1>4
    <3>2. Counted(g, 0) /\ Counted(a, x)
      BY <1>3 DEF InOrder
    <3> QED BY <1>1, <1>3, <3>1, <3>2, CountedJoin
  <2>3. Counted(sent[p], 0)
    BY DEF StreamInv, InOrder
  <2> DEFINE h == SubSeq(sent[p], 1, x + y)
  <2>4. x + y \in 1..Len(sent[p])
    <3>1. x + y \in 1..n
      BY <1>4, <1>6, <1>7
    <3> QED BY <1>3, <3>1
  <2>5. h \in Seq(Nat) /\ Len(h) = x + y
    BY <1>1, <2>4, Pieces
  <2>6. Counted(h, 0)
    <3>1. 0 \in Int
      OBVIOUS
    <3> QED BY <1>1, <2>3, <2>4, <3>1, CountedPieces
  <2>7. \A i \in 1..(x + y) : (g \o a)[i] = h[i]
    BY <2>1, <2>2, <2>5, <2>6 DEF Counted
  <2> HIDE DEF h
  <2>8. g \o a = h
    BY <2>1, <2>5, <2>7, SeqEqual
  <2> QED BY <2>8 DEF h
<1>9. got' = [got EXCEPT ![s] = SubSeq(sent[p], 1, Len(got[s]) + y)]
      /\ y \in 1..(Len(sent[p]) - Len(got[s]))
  BY <1>2, <1>3, <1>7, <1>8
<1> QED BY <1>2, <1>9 DEF Promise!Deliver, Promise!Rest

LEMMA Refine_End ==
    ASSUME StreamInv, NEW s \in Side, AppEnd(s)
    PROVE  Promise!Eof(s) \/ Promise!Reset(s)
<1> DEFINE p == Peer(s)
<1> TypeOK /\ InOrder(s) /\ p \in Side /\ p # s /\ Peer(p) = s
  BY Sides DEF StreamInv
<1>1. reads[s] /\ end[s] = "open" /\ UNCHANGED <<kind, sent, shut, reads, got, fault>>
  BY DEF AppEnd
<1>2. Unbroken => EndOK(s, p)
  BY DEF StreamInv
<1>3. kind \in {"docker", "port"}
  BY DEF TypeOK
<1>4. CASE toApp[s].end = "rst" /\ end' = [end EXCEPT ![s] = "reset"]
  <2>1. Broken
    BY <1>2, <1>3, <1>4 DEF EndOK, Unbroken, Broken
  <2> QED BY <1>1, <1>4, <2>1 DEF Promise!Reset, Broken
<1>5. CASE toApp[s] = [bytes |-> <<>>, end |-> "fin"] /\ end' = [end EXCEPT ![s] = "eof"]
  <2>1. toApp[s].bytes = <<>> /\ toApp[s].end = "fin"
    BY <1>5
  <2>2. ASSUME Unbroken PROVE shut[p] /\ Len(sent[p]) - Len(got[s]) = 0
    <3>1. shut[p] /\ wire[p].bytes = <<>> /\ toRelay[p].bytes = <<>>
      BY <1>2, <2>1, <2>2 DEF EndOK
    <3>2. OnTheWay(s) = Len(sent[p]) /\ Len(got[s]) \in Nat /\ Len(<<>>) = 0
      BY <2>2, BytesOf DEF InOrder
    <3>3. OnTheWay(s) = Len(got[s]) + 0 + 0 + 0
      BY <2>1, <3>1, <3>2 DEF OnTheWay, Taken
    <3> QED BY <3>1, <3>2, <3>3
  <2>3. Broken \/ (shut[p] /\ Len(sent[p]) - Len(got[s]) = 0)
    BY <1>3, <2>2 DEF Unbroken, Broken
  <2> QED BY <1>1, <1>5, <2>3 DEF Promise!Eof, Promise!Rest, Broken
<1> QED BY <1>4, <1>5 DEF AppEnd

LEMMA Refine_Next == StreamInv /\ [Next]_vars => [Promise!Next]_Promise!vars
<1> SUFFICES ASSUME StreamInv, [Next]_vars PROVE [Promise!Next]_Promise!vars
  OBVIOUS
<1> TypeOK
  BY DEF StreamInv
<1> DEFINE Stays == UNCHANGED <<kind, sent, shut, reads, got, end, fault>>
<1>1. ASSUME Stays PROVE UNCHANGED Promise!vars
  BY <1>1 DEF Promise!vars
<1>2. ASSUME fault' # "no", UNCHANGED <<kind, sent, shut, reads, got, end>>
      PROVE  Promise!Next
  BY <1>2 DEF Promise!Next, Promise!Break
<1>3. CASE UNCHANGED vars
  BY <1>1, <1>3 DEF vars
<1>4. CASE Setup \/ VsockBreaks
  BY <1>1, <1>2, <1>4 DEF Setup, HostDial, GuestDial, HostConnected, ConnectFail, Close,
      VsockBreaks, apps
<1>5. ASSUME NEW s \in Side, AppSend(s) PROVE Promise!Next
  BY <1>5 DEF AppSend, Promise!Next, Promise!Send
<1>6. ASSUME NEW s \in Side, AppShut(s) PROVE Promise!Next
  BY <1>6 DEF AppShut, Promise!Next, Promise!Shut
<1>7. ASSUME NEW s \in Side, AppRead(s) \/ AppEnd(s) PROVE Promise!Next
  BY <1>7, Refine_Read, Refine_End DEF Promise!Next
<1>8. ASSUME NEW s \in Side, Copy(s) \/ Finish(s) PROVE Stays
  BY <1>8 DEF Copy, OutData, OutEnd, OutError, InData, InEnd, InError, Finish, Close,
      CloseLocal, apps
<1>9. ASSUME NEW s \in Side, RelayDies(s) PROVE Promise!Next
  BY <1>2, <1>9 DEF RelayDies, Close, apps
<1>10. ASSUME NEW s \in Side, AppExits(s) PROVE Promise!Next
  BY <1>10 DEF AppExits, Promise!Next, Promise!Break, Side
<1> QED BY <1>1, <1>3, <1>4, <1>5, <1>6, <1>7, <1>8, <1>9, <1>10 DEF Next, App

LEMMA Refine_Init == Init => Promise!Init
BY DEF Init, Promise!Init

LEMMA StreamInvariant == Spec => []StreamInv
BY Inv_Init, Inv_Next, PTL DEF Spec

\* Whatever the relays do and whichever of them dies, a program reads nothing but
\* a prefix of what the other one sent; on a Docker connection that nothing has
\* broken it sees the end only after the last byte.
THEOREM BytesStayInOrder == Spec => StreamInOrder
<1>1. Spec => Init /\ [][Next]_vars /\ []StreamInv
  BY StreamInvariant DEF Spec
<1> QED BY <1>1, Refine_Init, Refine_Next, PTL DEF StreamInOrder, Promise!Safely
=============================================================================
