-------------------------- MODULE FirewallIPCProofs --------------------------
(***************************************************************************)
(* The verdict service across its socket gives the policy's verdicts, for  *)
(* every policy, number of clients, daemons and connections, and whatever  *)
(* dies in between. The invariant says how far a request and its answer    *)
(* have got on a connection; an answer that is cut short is never taken    *)
(* for a whole one.                                                        *)
(***************************************************************************)
EXTENDS FirewallIPC, ZonePolicyProofs, SequenceTheorems

Pieces == (Ips \X Ips) \cup BOOLEAN

Types ==
  /\ path \in Daemons \cup {None}
  /\ main \in [Daemons -> {"down", "bind", "check", "accept", "close", "unlink"}]
  /\ shutdown \in [Daemons -> BOOLEAN]
  /\ peer \in [Conns -> Daemons \cup {None}]
  /\ thread \in [Conns -> {"backlog", "read", "write"}]
  /\ buf \in [Conns -> Seq(Pieces)] /\ up \in [Conns -> Seq(Pieces)]
  /\ out \in [Conns -> Seq(0 .. 3)] /\ down \in [Conns -> Seq(0 .. 3)]
  /\ sock \in [Clients -> Conns \cup {None}]
  /\ pc \in [Clients -> {"idle", "ask", "recv", "fall_back"}]
  /\ request \in [Clients -> Requests \cup {None}]
  /\ got \in [Clients -> Seq(0 .. 3)]
  /\ verdict \in [Clients -> BOOLEAN \cup {None}]

Unshared == \A b, c \in Clients : sock[b] # None /\ sock[b] = sock[c] => b = c

(* An end that closed holds nothing, and what was sent to a client that    *)
(* went away is gone.                                                      *)
ClosedEnds ==
  \A k \in Conns :
    /\ peer[k] = None => /\ thread[k] = "backlog"
                         /\ buf[k] = <<>> /\ up[k] = <<>> /\ out[k] = <<>>
    /\ ~Held(k) => down[k] = <<>>

(* Where the pieces on connection k are: with the daemon's thread, on      *)
(* their way to it, with it to be written, on their way back, with client  *)
(* c.                                                                      *)
At(c, k, b, u, o, d, g) ==
  buf[k] = b /\ up[k] = u /\ out[k] = o /\ down[k] = d /\ got[c] = g

First(c) == Response(request[c])[1]
Second(c) == Response(request[c])[2]

Reading(c, k) ==
  \/ thread[k] # "write" /\ At(c, k, <<>>, request[c], <<>>, <<>>, <<>>)
  \/ thread[k] = "read" /\ At(c, k, <<request[c][1]>>, <<request[c][2]>>, <<>>, <<>>, <<>>)

Writing(c, k) ==
  /\ thread[k] = "write"
  /\ \/ At(c, k, <<>>, <<>>, <<First(c), Second(c)>>, <<>>, <<>>)
     \/ At(c, k, <<>>, <<>>, <<Second(c)>>, <<First(c)>>, <<>>)
     \/ At(c, k, <<>>, <<>>, <<Second(c)>>, <<>>, <<First(c)>>)

Answered(c, k) ==
  /\ thread[k] # "write"
  /\ \/ At(c, k, <<>>, <<>>, <<>>, <<First(c), Second(c)>>, <<>>)
     \/ At(c, k, <<>>, <<>>, <<>>, <<Second(c)>>, <<First(c)>>)

CutShort(c, k) ==
  /\ peer[k] = None
  /\ \/ At(c, k, <<>>, <<>>, <<>>, <<>>, <<>>)
     \/ At(c, k, <<>>, <<>>, <<>>, <<First(c)>>, <<>>)
     \/ At(c, k, <<>>, <<>>, <<>>, <<>>, <<First(c)>>)

Progress(c, k) == Reading(c, k) \/ Writing(c, k) \/ Answered(c, k) \/ CutShort(c, k)

Unused(c, k) == thread[k] # "write" /\ At(c, k, <<>>, <<>>, <<>>, <<>>, <<>>)

ClientInv(c) ==
  /\ pc[c] = "idle" <=> request[c] = None
  /\ pc[c] = "recv" => sock[c] # None /\ Progress(c, sock[c])
  /\ pc[c] # "recv" => got[c] = <<>> /\ (sock[c] # None => Unused(c, sock[c]))

ClientsInv == \A c \in Clients : ClientInv(c)

Inv == Types /\ Unshared /\ ClosedEnds /\ ClientsInv
-----------------------------------------------------------------------------
(* Requests and answers. *)

(* A request is its two pieces.                                            *)
LEMMA RequestPieces ==
  ASSUME NEW r \in Requests
  PROVE  /\ r = <<r[1], r[2]>> /\ r[1] \in Ips \X Ips /\ r[2] \in BOOLEAN
         /\ r \in Seq(Pieces)
<1>1. r = <<r[1], r[2]>> /\ r[1] \in Ips \X Ips /\ r[2] \in BOOLEAN
  BY IPCAssumption
<1>2. <<r[1], r[2]>> \in Seq(Pieces)
  BY <1>1 DEF Pieces
<1> QED  BY <1>1, <1>2

(* An answer is two bytes, whatever was read (Decide()).                   *)
LEMMA ResponseBytes ==
  ASSUME NEW r
  PROVE  /\ Response(r) = <<Response(r)[1], Response(r)[2]>>
         /\ Response(r)[1] \in 0 .. 3 /\ Response(r)[2] \in 0 .. 3
         /\ Response(r) \in Seq(0 .. 3)
<1>1. rule_id(r[1][1], r[1][2], r[2]) \in 0 .. 3
  BY DEF rule_id
<1>2. (IF Decide(r[1][1], r[1][2], r[2]) THEN 1 ELSE 0) \in 0 .. 3
  OBVIOUS
<1> QED  BY <1>1, <1>2 DEF Response

(* The first byte says what the policy says (FilterResponse.allowed).      *)
LEMMA ResponseIsVerdict ==
  ASSUME NEW r \in Requests
  PROVE  (Response(r)[1] = 1)
           = firewall_allowed(zone_for_ip(r[1][1]), zone_for_ip(r[1][2]), r[2])
<1> DEFINE says == Decide(r[1][1], r[1][2], r[2])
<1>1. says = firewall_allowed(zone_for_ip(r[1][1]), zone_for_ip(r[1][2]), r[2])
  BY RequestPieces, DaemonDecides
<1>2. Response(r)[1] = IF says THEN 1 ELSE 0
  BY DEF Response
<1>3. CASE says
  <2>1. Response(r)[1] = 1
    BY <1>2, <1>3
  <2> QED  BY <1>1, <1>3, <2>1, Zenon DEF firewall_allowed
<1>4. CASE ~says
  <2>1. Response(r)[1] # 1
    BY <1>2, <1>4
  <2> QED  BY <1>1, <1>4, <2>1, Zenon DEF firewall_allowed
<1> QED  BY <1>3, <1>4

(* The piece that completes a request (ReadFull()).                        *)
LEMMA SecondPiece ==
  ASSUME NEW a, NEW b
  PROVE  /\ Append(<<a>>, b) = <<a, b>>
         /\ Append(<<a>>, Head(<<b>>)) = <<a, b>>
         /\ Tail(<<b>>) = <<>>
         /\ ~(Len(<<a, b>>) < 2)
<1>1. Head(<<b>>) = b /\ Tail(<<b>>) = <<>> /\ Len(<<a, b>>) = 2
  OBVIOUS
<1>2. Append(<<a>>, b) = <<a, b>>
  <2> DEFINE S == {a, b}
  <2>1. <<a>> \in Seq(S) /\ <<a, b>> \in Seq(S) /\ b \in S /\ Len(<<a>>) = 1
    OBVIOUS
  <2>2. /\ Append(<<a>>, b) \in Seq(S) /\ Len(Append(<<a>>, b)) = 2
        /\ Append(<<a>>, b)[1] = a /\ Append(<<a>>, b)[2] = b
    <3> HIDE DEF S
    <3> QED  BY <2>1, AppendProperties
  <2>3. \A i \in 1 .. 2 : Append(<<a>>, b)[i] = <<a, b>>[i]
    BY <2>2
  <2>4. Len(Append(<<a>>, b)) = Len(<<a, b>>)
    BY <1>1, <2>2
  <2> HIDE DEF S
  <2> QED  BY <1>1, <2>1, <2>2, <2>3, <2>4, SeqEqual
<1> QED  BY <1>1, <1>2

(* Pieces put together.                                                    *)
LEMMA Pasted ==
  ASSUME NEW a, NEW b
  PROVE  /\ <<a>> \o <<b>> = <<a, b>>
         /\ <<>> \o <<a, b>> = <<a, b>> /\ <<a, b>> \o <<>> = <<a, b>>
         /\ <<>> \o <<a>> = <<a>> /\ <<a>> \o <<>> = <<a>>
<1> DEFINE S == {a, b}
<1>1. <<a>> \in Seq(S) /\ <<b>> \in Seq(S) /\ <<a, b>> \in Seq(S) /\ b \in S
  OBVIOUS
<1> HIDE DEF S
<1>2. <<a>> \o <<b>> = <<a, b>>
  BY <1>1, AppendIsConcat, SecondPiece
<1> QED  BY <1>1, <1>2, ConcatEmptySeq

LEMMA EmptyPieces ==
  <<>> \o <<>> = <<>>
  BY ConcatEmptySeq, EmptySeq
-----------------------------------------------------------------------------
(* The invariant. *)

(* A step that leaves a client and its connection alone keeps what holds   *)
(* of them.                                                                *)
LEMMA Untouched ==
  ASSUME NEW c \in Clients, ClientInv(c),
         pc'[c] = pc[c], request'[c] = request[c], got'[c] = got[c], sock'[c] = sock[c],
         sock[c] # None =>
           /\ peer'[sock[c]] = peer[sock[c]] /\ thread'[sock[c]] = thread[sock[c]]
           /\ buf'[sock[c]] = buf[sock[c]] /\ up'[sock[c]] = up[sock[c]]
           /\ out'[sock[c]] = out[sock[c]] /\ down'[sock[c]] = down[sock[c]]
  PROVE  ClientInv(c)'
<1>1. First(c)' = First(c) /\ Second(c)' = Second(c)
  BY DEF First, Second, Response
<1>2. CASE sock[c] = None
  BY <1>2 DEF ClientInv
<1>3. CASE sock[c] # None
  <2>0. PICK k : k = sock[c]
    OBVIOUS
  <2>1. /\ peer'[k] = peer[k] /\ thread'[k] = thread[k] /\ sock'[c] = k
        /\ buf'[k] = buf[k] /\ up'[k] = up[k] /\ out'[k] = out[k] /\ down'[k] = down[k]
    BY <1>3, <2>0
  <2>2. Reading(c, k) => Reading(c, k)'
    BY <2>1 DEF Reading, At
  <2>3. Writing(c, k) => Writing(c, k)'
    BY <1>1, <2>1 DEF Writing, At
  <2>4. Answered(c, k) => Answered(c, k)'
    BY <1>1, <2>1 DEF Answered, At
  <2>5. CutShort(c, k) => CutShort(c, k)'
    BY <1>1, <2>1 DEF CutShort, At
  <2>6. Unused(c, k) => Unused(c, k)'
    BY <2>1 DEF Unused, At
  <2> QED  BY <1>3, <2>0, <2>1, <2>2, <2>3, <2>4, <2>5, <2>6 DEF ClientInv, Progress
<1> QED  BY <1>2, <1>3

(* What closes at the daemon's end leaves a client with no answer, part of *)
(* one or a whole one, and never with anything else.                       *)
LEMMA ClosingKeepsClients ==
  ASSUME Inv, NEW ks \in SUBSET Conns, Closes(ks), UNCHANGED <<down, sock, client_vars>>
  PROVE  Unshared' /\ ClosedEnds' /\ ClientsInv'
<1> USE DEF client_vars
<1>1. Unshared'
  BY DEF Inv, Unshared
<1>2. ClosedEnds'
  BY DEF Inv, ClosedEnds, Closes, Held
<1>3. ASSUME NEW c \in Clients PROVE ClientInv(c)'
  <2>1. ClientInv(c) /\ (sock[c] # None => sock[c] \in Conns)
    BY DEF Inv, ClientsInv, Types
  <2>2. CASE sock[c] = None \/ sock[c] \notin ks
    BY <2>1, <2>2, Untouched DEF Closes
  <2>3. CASE sock[c] # None /\ sock[c] \in ks
    <3> DEFINE k == sock[c]
    <3>1. /\ k \in Conns /\ peer'[k] = None /\ thread'[k] = "backlog"
          /\ buf'[k] = <<>> /\ up'[k] = <<>> /\ out'[k] = <<>> /\ down'[k] = down[k]
      BY <2>1, <2>3 DEF Closes
    <3>2. /\ sock'[c] = k /\ pc'[c] = pc[c] /\ got'[c] = got[c]
          /\ First(c)' = First(c) /\ Second(c)' = Second(c) /\ request'[c] = request[c]
      BY DEF First, Second, Response
    <3>3. CASE pc[c] = "recv"
      <4>1. Progress(c, k)
        BY <2>1, <3>3 DEF ClientInv
      <4>2. Answered(c, k)' \/ CutShort(c, k)'
        BY <3>1, <3>2, <4>1 DEF Progress, Reading, Writing, Answered, CutShort, At
      <4> QED  BY <2>1, <2>3, <3>2, <3>3, <4>2 DEF ClientInv, Progress
    <3>4. CASE pc[c] # "recv"
      BY <2>1, <2>3, <3>1, <3>2, <3>4 DEF ClientInv, Unused, At
    <3> QED  BY <3>3, <3>4
  <2> QED  BY <2>2, <2>3
<1> QED  BY <1>1, <1>2, <1>3 DEF ClientsInv

(* The same of the types.                                                  *)
LEMMA ClosingKeepsTypes ==
  ASSUME Types, NEW ks \in SUBSET Conns, Closes(ks)
  PROVE  /\ peer' \in [Conns -> Daemons \cup {None}]
         /\ thread' \in [Conns -> {"backlog", "read", "write"}]
         /\ buf' \in [Conns -> Seq(Pieces)] /\ up' \in [Conns -> Seq(Pieces)]
         /\ out' \in [Conns -> Seq(0 .. 3)]
<1>1. <<>> \in Seq(Pieces) /\ <<>> \in Seq(0 .. 3)
  OBVIOUS
<1> QED  BY <1>1 DEF Types, Closes
-----------------------------------------------------------------------------
(* The client's steps. *)

LEMMA CallKeepsInv ==
  ASSUME Inv, NEW c \in Clients, Call(c)
  PROVE  Inv'
<1> USE DEF Call, daemon_vars, stream_vars
<1>1. PICK r \in Requests : request' = [request EXCEPT ![c] = r]
  OBVIOUS
<1>2. Types'
  BY <1>1 DEF Inv, Types
<1>3. Unshared' /\ ClosedEnds'
  BY DEF Inv, Unshared, ClosedEnds, Held
<1>4. ASSUME NEW b \in Clients PROVE ClientInv(b)'
  <2>1. CASE b = c
    BY <1>1, <2>1, IPCAssumption DEF Inv, Types, ClientsInv, ClientInv, Unused, At
  <2>2. CASE b # c
    <3>1. ClientInv(b)
      BY DEF Inv, ClientsInv
    <3> QED  BY <1>1, <2>2, <3>1, Untouched DEF Inv, Types
  <2> QED  BY <2>1, <2>2
<1> QED  BY <1>2, <1>3, <1>4 DEF Inv, ClientsInv

LEMMA ConnectKeepsInv ==
  ASSUME Inv, NEW c \in Clients, ensure_connected(c)
  PROVE  Inv'
<1> USE DEF daemon_vars, stream_vars
<1>1. CASE sock' = sock /\ peer' = peer /\ pc' = [pc EXCEPT ![c] = "fall_back"]
  <2>1. Types' /\ Unshared' /\ ClosedEnds'
    BY <1>1 DEF ensure_connected, Inv, Types, Unshared, ClosedEnds, Held
  <2>2. ASSUME NEW b \in Clients PROVE ClientInv(b)'
    <3>1. ClientInv(b)
      BY DEF Inv, ClientsInv
    <3>2. CASE b = c
      BY <1>1, <3>1, <3>2 DEF ensure_connected, Inv, Types, ClientInv, Unused, At
    <3>3. CASE b # c
      BY <1>1, <3>1, <3>3, Untouched DEF ensure_connected, Inv, Types
    <3> QED  BY <3>2, <3>3
  <2> QED  BY <2>1, <2>2 DEF Inv, ClientsInv
<1>2. ASSUME NEW k \in Conns, peer[k] = None, ~Held(k), path # None,
             sock' = [sock EXCEPT ![c] = k], peer' = [peer EXCEPT ![k] = path], pc' = pc
      PROVE  Inv'
  <2>1. Types'
    BY <1>2 DEF ensure_connected, Inv, Types
  <2>2. Unshared'
    BY <1>2 DEF Inv, Types, Unshared, Held
  <2>3. ClosedEnds'
    <3> SUFFICES ASSUME NEW j \in Conns
                 PROVE  /\ peer'[j] = None => /\ thread'[j] = "backlog"
                                              /\ buf'[j] = <<>> /\ up'[j] = <<>> /\ out'[j] = <<>>
                        /\ ~Held(j)' => down'[j] = <<>>
      BY DEF ClosedEnds
    <3>1. sock[c] = None /\ sock'[c] = k /\ \A b \in Clients : b # c => sock'[b] = sock[b]
      BY <1>2 DEF ensure_connected, Inv, Types
    <3>2. k # None
      BY IPCAssumption
    <3>3. Held(j) => Held(j)'
      BY <3>1, <3>2, IPCAssumption DEF Held
    <3> QED  BY <1>2, <3>3 DEF ensure_connected, Inv, Types, ClosedEnds
  <2>4. ASSUME NEW b \in Clients PROVE ClientInv(b)'
    <3>1. ClientInv(b)
      BY DEF Inv, ClientsInv
    <3>2. CASE b = c
      <4>1. /\ pc'[c] = "ask" /\ sock'[c] = k /\ request'[c] = request[c] /\ got'[c] = got[c]
            /\ got[c] = <<>> /\ (pc[c] = "idle" <=> request[c] = None)
        BY <1>2, <3>1, <3>2 DEF ensure_connected, Inv, Types, ClientInv
      <4>2. Unused(c, k)'
        BY <1>2, <4>1 DEF ensure_connected, Inv, Types, ClosedEnds, Unused, At
      <4> QED  BY <1>2, <3>2, <4>1, <4>2 DEF ensure_connected, ClientInv
    <3>3. CASE b # c
      <4>1. sock[b] # k
        BY <1>2 DEF Held
      <4> QED  BY <1>2, <3>1, <3>3, <4>1, Untouched DEF ensure_connected, Inv, Types
    <3> QED  BY <3>2, <3>3
  <2> QED  BY <2>1, <2>2, <2>3, <2>4 DEF Inv, ClientsInv
<1> QED  BY <1>1, <1>2 DEF ensure_connected

(* Dropping a socket whose other end closed and from which all was read    *)
(* leaves nothing behind (is_allowed(), except OSError).                   *)
LEMMA DropKeepsInv ==
  ASSUME Inv, NEW c \in Clients, pc[c] # "idle", sock[c] # None, down[sock[c]] = <<>>,
         drop_socket(c),
         UNCHANGED <<daemon_vars, peer, thread, buf, out, up, down, request, verdict>>
  PROVE  Inv'
<1> USE DEF daemon_vars, drop_socket
<1>1. Types' /\ Unshared'
  BY DEF Inv, Types, Unshared
<1>2. ClosedEnds'
  <2>1. \A j \in Conns : Held(j) => Held(j)' \/ j = sock[c]
    BY DEF Held, Inv, Types
  <2> QED  BY <2>1 DEF Inv, ClosedEnds
<1>3. ASSUME NEW b \in Clients PROVE ClientInv(b)'
  <2>1. ClientInv(b)
    BY DEF Inv, ClientsInv
  <2>2. CASE b = c
    BY <2>1, <2>2 DEF Inv, Types, ClientInv
  <2>3. CASE b # c
    BY <2>1, <2>3, Untouched DEF Inv, Types
  <2> QED  BY <2>2, <2>3
<1> QED  BY <1>1, <1>2, <1>3 DEF Inv, ClientsInv

LEMMA SendKeepsInv ==
  ASSUME Inv, NEW c \in Clients, sendall(c)
  PROVE  Inv'
<1> DEFINE k == sock[c]
<1>1. /\ pc[c] = "ask" /\ k # None /\ k \in Conns /\ request[c] \in Requests
      /\ Unused(c, k) /\ ClientInv(c)
  BY DEF sendall, Inv, Types, ClientsInv, ClientInv
<1>2. CASE peer[k] = None
  BY <1>1, <1>2, DropKeepsInv DEF sendall, Unused, At, daemon_vars
<1>3. CASE peer[k] # None
  <2> USE DEF daemon_vars
  <2>1. /\ up' = [up EXCEPT ![k] = up[k] \o request[c]]
        /\ pc' = [pc EXCEPT ![c] = "recv"]
        /\ UNCHANGED <<path, main, shutdown, peer, thread, buf, out, down, sock, request, got,
                       verdict>>
    BY <1>3 DEF sendall
  <2>2. up[k] = <<>> /\ request[c] \in Seq(Pieces)
    BY <1>1, RequestPieces DEF Unused, At
  <2>3. up[k] \o request[c] = request[c]
    BY <2>2, ConcatEmptySeq
  <2>4. up' = [up EXCEPT ![k] = request[c]]
    BY <2>1, <2>3
  <2>5. Types' /\ Unshared' /\ ClosedEnds'
    BY <1>1, <1>3, <2>1, <2>2, <2>4 DEF Inv, Types, Unshared, ClosedEnds, Held
  <2>6. ASSUME NEW b \in Clients PROVE ClientInv(b)'
    <3>1. ClientInv(b)
      BY DEF Inv, ClientsInv
    <3>2. CASE b = c
      <4>1. Reading(c, k)'
        BY <1>1, <2>1, <2>4 DEF Inv, Types, Unused, At, Reading
      <4> QED  BY <1>1, <2>1, <3>2, <4>1, IPCAssumption DEF Inv, Types, ClientInv, Progress
    <3>3. CASE b # c
      <4>1. sock[b] # k
        BY <1>1, <3>3 DEF Inv, Unshared
      <4> QED  BY <2>1, <2>4, <3>1, <3>3, <4>1, Untouched DEF Inv, Types
    <3> QED  BY <3>2, <3>3
  <2> QED  BY <2>5, <2>6 DEF Inv, ClientsInv
<1> QED  BY <1>2, <1>3

(* What a client finds when there is something to receive: the first byte  *)
(* of its answer, or, once it has that, the second and nothing else.       *)
LEMMA ReceivesItsAnswer ==
  ASSUME Inv, NEW c \in Clients, pc[c] = "recv", down[sock[c]] # <<>>
  PROVE  LET k == sock[c] IN
         /\ k # None /\ k \in Conns /\ request[c] \in Requests /\ buf[k] = <<>> /\ up[k] = <<>>
         /\ \/ /\ got[c] = <<>> /\ down[k] = <<First(c), Second(c)>>
               /\ thread[k] # "write" /\ out[k] = <<>>
            \/ /\ got[c] = <<>> /\ down[k] = <<First(c)>>
               /\ \/ peer[k] = None /\ out[k] = <<>>
                  \/ thread[k] = "write" /\ out[k] = <<Second(c)>>
            \/ /\ got[c] = <<First(c)>> /\ down[k] = <<Second(c)>>
               /\ thread[k] # "write" /\ out[k] = <<>>
<1>1. ClientInv(c)
  BY DEF Inv, ClientsInv
<1>2. Progress(c, sock[c]) /\ sock[c] # None /\ sock[c] \in Conns
  BY <1>1 DEF ClientInv, Inv, Types
<1>3. request[c] \in Requests
  BY <1>1 DEF ClientInv, Inv, Types
<1> QED  BY <1>2, <1>3 DEF Progress, Reading, Writing, Answered, CutShort, At

LEMMA RecvKeepsInv ==
  ASSUME Inv, NEW c \in Clients, recv_exact(c)
  PROVE  Inv'
<1> DEFINE k == sock[c]
<1>1. /\ pc[c] = "recv" /\ k # None /\ k \in Conns /\ request[c] \in Requests
      /\ request[c] # None
  BY IPCAssumption DEF recv_exact, Inv, Types, ClientsInv, ClientInv
<1>2. CASE down[k] = <<>>
  BY <1>1, <1>2, DropKeepsInv DEF recv_exact, daemon_vars
<1>3. CASE down[k] # <<>>
  <2> USE DEF daemon_vars
  <2>1. /\ down' = [down EXCEPT ![k] = Tail(down[k])]
        /\ UNCHANGED <<path, main, shutdown, peer, thread, buf, out, up, sock>>
        /\ IF got[c] = <<>>
             THEN /\ got' = [got EXCEPT ![c] = <<Head(down[k])>>]
                  /\ UNCHANGED <<pc, request, verdict>>
             ELSE returns(c, Head(got[c]) = 1)
    BY <1>3 DEF recv_exact
  <2>2. Unshared'
    BY <2>1 DEF Inv, Unshared
  <2>3. ClosedEnds'
    BY <1>1, <2>1 DEF Inv, Types, ClosedEnds, Held
  <2>4. ASSUME NEW b \in Clients, b # c PROVE ClientInv(b)'
    <3>1. ClientInv(b) /\ sock[b] # k
      BY <1>1, <2>4 DEF Inv, ClientsInv, Unshared
    <3> QED  BY <2>1, <2>4, <3>1, Untouched DEF returns, Inv, Types
  <2>5. down' \in [Conns -> Seq(0 .. 3)]
    <3>1. Tail(down[k]) \in Seq(0 .. 3)
      BY <1>1, <1>3, HeadTailProperties DEF Inv, Types
    <3> QED  BY <2>1, <3>1 DEF Inv, Types
  <2>6. CASE got[c] = <<>>
    <3> DEFINE Whole == /\ down[k] = <<First(c), Second(c)>>
                        /\ thread[k] # "write" /\ out[k] = <<>>
               Half == /\ down[k] = <<First(c)>>
                       /\ \/ peer[k] = None /\ out[k] = <<>>
                          \/ thread[k] = "write" /\ out[k] = <<Second(c)>>
    <3>1. buf[k] = <<>> /\ up[k] = <<>> /\ (Whole \/ Half)
      <4>1. <<First(c)>> # <<>>
        OBVIOUS
      <4> QED  BY <1>1, <1>3, <2>6, <4>1, ReceivesItsAnswer
    <3>2. Head(down[k]) = First(c)
      BY <3>1
    <3>3. got' = [got EXCEPT ![c] = <<First(c)>>] /\ <<First(c)>> \in Seq(0 .. 3)
      BY <2>1, <2>6, <3>2, ResponseBytes DEF First
    <3>4. Types'
      BY <2>1, <2>5, <2>6, <3>3 DEF Inv, Types
    <3>5. /\ First(c)' = First(c) /\ Second(c)' = Second(c) /\ sock'[c] = k /\ pc'[c] = "recv"
          /\ got'[c] = <<First(c)>> /\ request'[c] = request[c] /\ peer'[k] = peer[k]
          /\ thread'[k] = thread[k] /\ buf'[k] = buf[k] /\ up'[k] = up[k] /\ out'[k] = out[k]
      BY <1>1, <2>1, <2>6, <3>3 DEF Inv, Types, First, Second, Response
    <3>6. Progress(c, k)'
      <4>1. CASE Whole
        <5>1. down'[k] = <<Second(c)>>
          BY <1>1, <2>1, <4>1 DEF Inv, Types
        <5> QED  BY <3>1, <3>5, <4>1, <5>1 DEF Progress, Answered, At
      <4>2. CASE Half
        <5>1. down'[k] = <<>>
          BY <1>1, <2>1, <4>2 DEF Inv, Types
        <5> QED  BY <3>1, <3>5, <4>2, <5>1 DEF Progress, Writing, CutShort, At
      <4> QED  BY <3>1, <4>1, <4>2
    <3>7. ClientInv(c)'
      BY <1>1, <3>5, <3>6 DEF ClientInv
    <3> QED  BY <2>2, <2>3, <2>4, <3>4, <3>7 DEF Inv, ClientsInv
  <2>7. CASE got[c] # <<>>
    <3>1. /\ down[k] = <<Second(c)>> /\ thread[k] # "write"
          /\ buf[k] = <<>> /\ up[k] = <<>> /\ out[k] = <<>>
      BY <1>1, <1>3, <2>7, ReceivesItsAnswer
    <3>2. down'[k] = <<>>
      BY <1>1, <2>1, <3>1 DEF Inv, Types
    <3>3. /\ request' = [request EXCEPT ![c] = None] /\ pc' = [pc EXCEPT ![c] = "idle"]
          /\ got' = [got EXCEPT ![c] = <<>>]
          /\ verdict' = [verdict EXCEPT ![c] = (Head(got[c]) = 1)]
      BY <2>1, <2>7 DEF returns
    <3>4. Types'
      <4>1. <<>> \in Seq(0 .. 3) /\ (Head(got[c]) = 1) \in BOOLEAN
        OBVIOUS
      <4> QED  BY <2>1, <2>5, <3>3, <4>1 DEF Inv, Types
    <3>5. ClientInv(c)'
      BY <2>1, <3>1, <3>2, <3>3 DEF Inv, Types, ClientInv, Unused, At
    <3> QED  BY <2>2, <2>3, <2>4, <3>4, <3>5 DEF Inv, ClientsInv
  <2> QED  BY <2>6, <2>7
<1> QED  BY <1>2, <1>3

LEMMA FallBackKeepsInv ==
  ASSUME Inv, NEW c \in Clients, fall_back(c)
  PROVE  Inv'
<1> USE DEF fall_back, returns, daemon_vars, stream_vars
<1>1. request[c] \in Requests
  BY DEF Inv, Types, ClientsInv, ClientInv
<1>2. Types'
  <2>1. firewall_allowed(IngressZone[request[c]], zone_for_ip(request[c][1][2]),
                         request[c][2]) \in BOOLEAN
    BY DEF firewall_allowed
  <2>2. <<>> \in Seq(0 .. 3)
    OBVIOUS
  <2> QED  BY <2>1, <2>2 DEF Inv, Types
<1>3. Unshared' /\ ClosedEnds'
  BY DEF Inv, Unshared, ClosedEnds, Held
<1>4. ASSUME NEW b \in Clients PROVE ClientInv(b)'
  <2>1. ClientInv(b)
    BY DEF Inv, ClientsInv
  <2>2. CASE b = c
    BY <2>1, <2>2 DEF Inv, Types, ClientInv, Unused, At
  <2>3. CASE b # c
    BY <2>1, <2>3, Untouched DEF Inv, Types
  <2> QED  BY <2>2, <2>3
<1> QED  BY <1>2, <1>3, <1>4 DEF Inv, ClientsInv

LEMMA CloseKeepsInv ==
  ASSUME Inv, NEW c \in Clients, close(c)
  PROVE  Inv'
<1> USE DEF close, returns, daemon_vars
<1> DEFINE k == sock[c]
<1>1. k \in Conns /\ k # None
  BY DEF Inv, Types
<1>2. Types'
  <2>1. <<>> \in Seq(0 .. 3)
    OBVIOUS
  <2> QED  BY <1>1, <2>1 DEF Inv, Types
<1>3. Unshared'
  BY DEF Inv, Types, Unshared
<1>4. ClosedEnds'
  <2>1. \A j \in Conns : Held(j) => Held(j)' \/ j = k
    BY DEF Held, Inv, Types
  <2>2. \A j \in Conns : down'[j] = IF j = k THEN <<>> ELSE down[j]
    BY <1>1 DEF Inv, Types
  <2> QED  BY <2>1, <2>2 DEF Inv, ClosedEnds
<1>5. ASSUME NEW b \in Clients PROVE ClientInv(b)'
  <2>1. ClientInv(b)
    BY DEF Inv, ClientsInv
  <2>2. CASE b = c
    BY <2>1, <2>2 DEF Inv, Types, ClientInv
  <2>3. CASE b # c
    <3>1. sock[b] # k
      BY <1>1, <2>3 DEF Inv, Unshared
    <3> QED  BY <1>1, <2>1, <2>3, <3>1, Untouched DEF Inv, Types
  <2> QED  BY <2>2, <2>3
<1> QED  BY <1>2, <1>3, <1>4, <1>5 DEF Inv, ClientsInv
-----------------------------------------------------------------------------
(* The daemons' steps. *)

(* A daemon process that ends, for whatever reason.                        *)
LEMMA EndsKeepsInv ==
  ASSUME Inv, NEW d, Ends(d), path' \in Daemons \cup {None},
         UNCHANGED <<down, sock, client_vars>>
  PROVE  Inv'
<1> DEFINE ks == {k \in Conns : peer[k] = d}
<1>1. Closes(ks) /\ ks \in SUBSET Conns
  BY DEF Ends
<1>2. Unshared' /\ ClosedEnds' /\ ClientsInv'
  BY <1>1, ClosingKeepsClients
<1>3. Types'
  <2>1. /\ peer' \in [Conns -> Daemons \cup {None}]
        /\ thread' \in [Conns -> {"backlog", "read", "write"}]
        /\ buf' \in [Conns -> Seq(Pieces)] /\ up' \in [Conns -> Seq(Pieces)]
        /\ out' \in [Conns -> Seq(0 .. 3)]
    BY <1>1, ClosingKeepsTypes DEF Inv
  <2>2. /\ main' \in [Daemons -> {"down", "bind", "check", "accept", "close", "unlink"}]
        /\ shutdown' \in [Daemons -> BOOLEAN]
    BY DEF Ends, Inv, Types
  <2> QED  BY <2>1, <2>2 DEF Inv, Types, client_vars
<1> QED  BY <1>2, <1>3 DEF Inv

(* A step of a main thread that opens or closes nothing.                   *)
LEMMA MainKeepsInv ==
  ASSUME Inv, path' \in Daemons \cup {None},
         main' \in [Daemons -> {"down", "bind", "check", "accept", "close", "unlink"}],
         shutdown' \in [Daemons -> BOOLEAN],
         UNCHANGED <<peer, thread, stream_vars, sock, client_vars>>
  PROVE  Inv'
<1> USE DEF stream_vars, client_vars
<1>1. Types' /\ Unshared' /\ ClosedEnds'
  BY DEF Inv, Types, Unshared, ClosedEnds, Held
<1>2. ASSUME NEW b \in Clients PROVE ClientInv(b)'
  BY Untouched DEF Inv, ClientsInv
<1> QED  BY <1>1, <1>2 DEF Inv, ClientsInv

LEMMA StartsKeepsInv ==
  ASSUME Inv, NEW d \in Daemons, Starts(d)
  PROVE  Inv'
<1>1. CASE Ends(d) /\ UNCHANGED path
  BY <1>1, EndsKeepsInv DEF Starts, Inv, Types
<1>2. ASSUME NEW to \in {"bind", "check"}, main' = [main EXCEPT ![d] = to],
             path' \in {None, d}, UNCHANGED <<shutdown, peer, thread, buf, out, up>>
      PROVE  Inv'
  BY <1>2, MainKeepsInv DEF Starts, Inv, Types, stream_vars
<1> QED  BY <1>1, <1>2 DEF Starts, Goes

LEMMA ShutsDownKeepsInv ==
  ASSUME Inv, NEW d \in Daemons, ShutsDown(d)
  PROVE  Inv'
<1>1. CASE main[d] = "unlink" /\ path' = None /\ Ends(d)
  BY <1>1, EndsKeepsInv DEF ShutsDown
<1>2. CASE /\ Goes(d, "close", "unlink")
           /\ Closes({k \in Conns : peer[k] = d /\ thread[k] = "backlog"})
           /\ UNCHANGED <<path, shutdown>>
  <2> DEFINE ks == {k \in Conns : peer[k] = d /\ thread[k] = "backlog"}
  <2>1. ks \in SUBSET Conns /\ Closes(ks) /\ UNCHANGED <<down, sock, client_vars>>
    BY <1>2 DEF ShutsDown
  <2>2. Unshared' /\ ClosedEnds' /\ ClientsInv'
    BY <2>1, ClosingKeepsClients
  <2>3. /\ peer' \in [Conns -> Daemons \cup {None}]
        /\ thread' \in [Conns -> {"backlog", "read", "write"}]
        /\ buf' \in [Conns -> Seq(Pieces)] /\ up' \in [Conns -> Seq(Pieces)]
        /\ out' \in [Conns -> Seq(0 .. 3)]
    BY <2>1, ClosingKeepsTypes DEF Inv
  <2>4. Types'
    BY <1>2, <2>1, <2>3 DEF Goes, Inv, Types, client_vars
  <2> QED  BY <2>2, <2>4 DEF Inv
<1> QED  BY <1>1, <1>2 DEF ShutsDown

(* A daemon's main thread goes on at one of its steps.                     *)
LEMMA GoesOn ==
  ASSUME Types, NEW d \in Daemons, NEW from,
         NEW to \in {"down", "bind", "check", "accept", "close", "unlink"}, Goes(d, from, to)
  PROVE  main' \in [Daemons -> {"down", "bind", "check", "accept", "close", "unlink"}]
BY DEF Goes, Types

LEMMA SignalKeepsInv ==
  ASSUME Inv, NEW d \in Daemons, HandleSignal(d)
  PROVE  Inv'
<1>1. main' \in [Daemons -> {"down", "bind", "check", "accept", "close", "unlink"}]
  <2>1. Types
    BY DEF Inv
  <2>2. CASE UNCHANGED main
    BY <2>1, <2>2 DEF Types
  <2> QED  BY <2>1, <2>2, GoesOn DEF HandleSignal
<1> QED  BY <1>1, MainKeepsInv DEF HandleSignal, Inv, Types

LEMMA AcceptsKeepsInv ==
  ASSUME Inv, NEW d \in Daemons, Accepts(d)
  PROVE  Inv'
<1> USE DEF Accepts, stream_vars, client_vars
<1>1. main' \in [Daemons -> {"down", "bind", "check", "accept", "close", "unlink"}]
  <2>1. Types
    BY DEF Inv
  <2>2. PICK from, to \in {"check", "accept", "close"} : Goes(d, from, to)
    OBVIOUS
  <2> QED  BY <2>1, <2>2, GoesOn
<1>2. CASE UNCHANGED thread
  BY <1>1, <1>2, MainKeepsInv DEF Inv, Types
<1>3. ASSUME NEW k \in Conns, peer[k] = d, thread[k] = "backlog",
             thread' = [thread EXCEPT ![k] = "read"]
      PROVE  Inv'
  <2>1. Types' /\ Unshared'
    BY <1>1, <1>3 DEF Inv, Types, Unshared
  <2>2. ClosedEnds'
    BY <1>3, IPCAssumption DEF Inv, Types, ClosedEnds, Held
  <2>3. ASSUME NEW b \in Clients PROVE ClientInv(b)'
    <3>1. ClientInv(b)
      BY DEF Inv, ClientsInv
    <3>2. CASE sock[b] # k
      BY <1>3, <3>1, <3>2, Untouched DEF Inv, Types
    <3>3. CASE sock[b] = k
      <4>1. First(b)' = First(b) /\ Second(b)' = Second(b)
        BY DEF First, Second, Response
      <4>2. thread'[k] = "read"
        BY <1>3 DEF Inv, Types
      <4> QED  BY <1>3, <3>1, <3>3, <4>1, <4>2
                 DEF ClientInv, Progress, Reading, Writing, Answered, CutShort, Unused, At
    <3> QED  BY <3>2, <3>3
  <2> QED  BY <2>1, <2>2, <2>3 DEF Inv, ClientsInv
<1> QED  BY <1>2, <1>3

LEMMA ReadKeepsInv ==
  ASSUME Inv, NEW k \in Conns, ReadFull(k)
  PROVE  Inv'
<1> USE DEF daemon_vars, client_vars
<1> DEFINE read == Append(buf[k], Head(up[k]))
<1>1. CASE up[k] = <<>> /\ Closes({k})
  <2>1. Unshared' /\ ClosedEnds' /\ ClientsInv'
    BY <1>1, ClosingKeepsClients DEF ReadFull
  <2>2. Types'
    BY <1>1, ClosingKeepsTypes DEF ReadFull, Inv, Types
  <2> QED  BY <2>1, <2>2 DEF Inv
<1>2. CASE up[k] # <<>>
  <2>1. /\ peer[k] # None /\ thread[k] = "read"
        /\ up' = [up EXCEPT ![k] = Tail(up[k])]
        /\ IF Len(read) < 2
             THEN buf' = [buf EXCEPT ![k] = read] /\ UNCHANGED <<thread, out>>
             ELSE /\ buf' = [buf EXCEPT ![k] = <<>>]
                  /\ out' = [out EXCEPT ![k] = Response(read)]
                  /\ thread' = [thread EXCEPT ![k] = "write"]
        /\ UNCHANGED <<path, main, shutdown, peer, down, sock, pc, request, got, verdict>>
    BY <1>2 DEF ReadFull
  <2>2. Types'
    <3>1. Tail(up[k]) \in Seq(Pieces) /\ read \in Seq(Pieces) /\ <<>> \in Seq(Pieces)
      BY <1>2, HeadTailProperties, AppendProperties DEF Inv, Types
    <3>2. Response(read) \in Seq(0 .. 3)
      BY ResponseBytes
    <3>3. /\ up' \in [Conns -> Seq(Pieces)] /\ buf' \in [Conns -> Seq(Pieces)]
          /\ out' \in [Conns -> Seq(0 .. 3)]
          /\ thread' \in [Conns -> {"backlog", "read", "write"}]
      <4> HIDE DEF read
      <4> QED  BY <2>1, <3>1, <3>2 DEF Inv, Types
    <3> QED  BY <2>1, <3>3 DEF Inv, Types
  <2>3. Unshared' /\ ClosedEnds'
    <3> HIDE DEF read
    <3> QED  BY <2>1 DEF Inv, Types, Unshared, ClosedEnds, Held
  <2>4. ASSUME NEW b \in Clients PROVE ClientInv(b)'
    <3>1. ClientInv(b)
      BY DEF Inv, ClientsInv
    <3>2. CASE sock[b] # k
      <4> HIDE DEF read
      <4> QED  BY <2>1, <3>1, <3>2, Untouched DEF Inv, Types
    <3>3. CASE sock[b] = k
      <4> DEFINE r == request[b]
      <4>1. pc[b] = "recv" /\ Reading(b, k) /\ r \in Requests
        <5>1. pc[b] = "recv" /\ Progress(b, k)
          BY <1>2, <3>1, <3>3, IPCAssumption DEF ClientInv, Unused, At
        <5>2. Reading(b, k)
          BY <1>2, <2>1, <5>1 DEF Progress, Writing, Answered, CutShort, At
        <5> QED  BY <3>1, <5>1, <5>2 DEF ClientInv, Inv, Types
      <4>2. /\ First(b)' = First(b) /\ Second(b)' = Second(b) /\ request'[b] = r
            /\ sock'[b] = k /\ pc'[b] = "recv" /\ got'[b] = got[b]
            /\ down'[k] = down[k] /\ peer'[k] = peer[k] /\ k # None
        BY <2>1, <3>3, <4>1, IPCAssumption DEF First, Second, Response
      <4>3. r = <<r[1], r[2]>>
        BY <4>1, RequestPieces
      <4>4. CASE At(b, k, <<>>, r, <<>>, <<>>, <<>>)
        <5>1. up[k] = <<r[1], r[2]>> /\ buf[k] = <<>>
          BY <4>3, <4>4 DEF At
        <5>2. read = <<r[1]>> /\ Tail(up[k]) = <<r[2]>>
          BY <5>1
        <5>3. Len(read) < 2
          BY <5>2
        <5>4. up'[k] = <<r[2]>> /\ buf'[k] = <<r[1]>> /\ thread'[k] = "read" /\ out'[k] = out[k]
          BY <2>1, <5>2, <5>3 DEF Inv, Types
        <5>5. Reading(b, k)'
          BY <4>2, <4>4, <5>4 DEF Reading, At
        <5> QED  BY <3>1, <4>1, <4>2, <5>5 DEF ClientInv, Progress
      <4>5. CASE At(b, k, <<r[1]>>, <<r[2]>>, <<>>, <<>>, <<>>)
        <5>1. up[k] = <<r[2]>> /\ buf[k] = <<r[1]>>
          BY <4>5 DEF At
        <5>2. read = <<r[1], r[2]>> /\ Tail(up[k]) = <<>>
          BY <5>1, SecondPiece
        <5>3. ~(Len(read) < 2) /\ read = r
          BY <4>3, <5>2, SecondPiece
        <5>4. up'[k] = <<>> /\ buf'[k] = <<>> /\ thread'[k] = "write" /\ out'[k] = Response(r)
          <6>1. Response(read) = Response(r)
            BY <5>3
          <6> HIDE DEF read
          <6> QED  BY <2>1, <5>2, <5>3, <6>1 DEF Inv, Types
        <5>5. out'[k] = <<First(b), Second(b)>>
          BY <5>4, ResponseBytes DEF First, Second
        <5>6. Writing(b, k)'
          BY <4>2, <4>5, <5>4, <5>5 DEF Writing, At
        <5> QED  BY <3>1, <4>1, <4>2, <5>6 DEF ClientInv, Progress
      <4> QED  BY <4>1, <4>4, <4>5 DEF Reading
    <3> QED  BY <3>2, <3>3
  <2> QED  BY <2>2, <2>3, <2>4 DEF Inv, ClientsInv
<1> QED  BY <1>1, <1>2 DEF ReadFull

(* One byte of an answer is written (WriteFull()).                         *)
LEMMA WrittenPiece ==
  ASSUME NEW a, NEW b
  PROVE  /\ Append(<<>>, Head(<<a, b>>)) = <<a>> /\ Tail(<<a, b>>) = <<b>>
         /\ Len(<<a, b>>) # 1
         /\ Append(<<>>, Head(<<b>>)) = <<b>> /\ Tail(<<b>>) = <<>> /\ Len(<<b>>) = 1
<1>1. Head(<<a, b>>) = a /\ Head(<<b>>) = b /\ Tail(<<b>>) = <<>>
  OBVIOUS
<1>2. Len(<<a, b>>) = 2 /\ Len(<<b>>) = 1
  OBVIOUS
<1>3. Append(<<>>, a) = <<a>> /\ Append(<<>>, b) = <<b>>
  OBVIOUS
<1>4. Tail(<<a, b>>) = <<b>>
  OBVIOUS
<1> QED  BY <1>1, <1>2, <1>3, <1>4

LEMMA WriteKeepsInv ==
  ASSUME Inv, NEW k \in Conns, WriteFull(k)
  PROVE  Inv'
<1> USE DEF client_vars
<1>1. CASE ~Held(k) /\ Ends(peer[k]) /\ UNCHANGED down
  BY <1>1, EndsKeepsInv DEF WriteFull, Inv, Types
<1>2. CASE Held(k)
  <2>1. PICK c \in Clients : sock[c] = k
    BY <1>2 DEF Held
  <2>2. /\ k # None /\ peer[k] # None /\ thread[k] = "write"
        /\ down' = [down EXCEPT ![k] = Append(down[k], Head(out[k]))]
        /\ out' = [out EXCEPT ![k] = Tail(out[k])]
        /\ thread' = [thread EXCEPT ![k] = IF Len(out[k]) = 1 THEN "read" ELSE thread[k]]
        /\ UNCHANGED <<path, main, shutdown, peer, buf, up, sock, pc, request, got, verdict>>
    BY <1>2, IPCAssumption DEF WriteFull
  <2>3. pc[c] = "recv" /\ Writing(c, k) /\ ClientInv(c)
    BY <2>1, <2>2 DEF Inv, ClientsInv, ClientInv, Unused, Progress, Reading, Answered,
                      CutShort, At
  <2>4. /\ First(c) \in 0 .. 3 /\ Second(c) \in 0 .. 3
        /\ First(c)' = First(c) /\ Second(c)' = Second(c)
    BY <2>2, ResponseBytes DEF First, Second, Response
  <2>5. \/ /\ down'[k] = <<First(c)>> /\ out'[k] = <<Second(c)>> /\ got[c] = <<>>
           /\ thread'[k] = "write"
        \/ /\ down'[k] = <<First(c), Second(c)>> /\ out'[k] = <<>> /\ got[c] = <<>>
           /\ thread'[k] = "read"
        \/ /\ down'[k] = <<Second(c)>> /\ out'[k] = <<>> /\ got[c] = <<First(c)>>
           /\ thread'[k] = "read"
    <3>1. CASE At(c, k, <<>>, <<>>, <<First(c), Second(c)>>, <<>>, <<>>)
      <4>1. /\ Append(down[k], Head(out[k])) = <<First(c)>>
            /\ Tail(out[k]) = <<Second(c)>> /\ Len(out[k]) # 1
        BY <3>1, WrittenPiece DEF At
      <4> QED  BY <2>2, <3>1, <4>1 DEF Inv, Types, At
    <3>2. CASE At(c, k, <<>>, <<>>, <<Second(c)>>, <<First(c)>>, <<>>)
      <4>1. /\ Append(down[k], Head(out[k])) = <<First(c), Second(c)>>
            /\ Tail(out[k]) = <<>> /\ Len(out[k]) = 1
        BY <3>2, WrittenPiece, SecondPiece DEF At
      <4> QED  BY <2>2, <3>2, <4>1 DEF Inv, Types, At
    <3>3. CASE At(c, k, <<>>, <<>>, <<Second(c)>>, <<>>, <<First(c)>>)
      <4>1. /\ Append(down[k], Head(out[k])) = <<Second(c)>>
            /\ Tail(out[k]) = <<>> /\ Len(out[k]) = 1
        BY <3>3, WrittenPiece DEF At
      <4> QED  BY <2>2, <3>3, <4>1 DEF Inv, Types, At
    <3> QED  BY <2>3, <3>1, <3>2, <3>3 DEF Writing
  <2>6. Types'
    <3>1. /\ <<>> \in Seq(0 .. 3) /\ <<First(c)>> \in Seq(0 .. 3) /\ <<Second(c)>> \in Seq(0 .. 3)
          /\ <<First(c), Second(c)>> \in Seq(0 .. 3)
      BY <2>4
    <3>2. down'[k] \in Seq(0 .. 3) /\ out'[k] \in Seq(0 .. 3)
      BY <2>5, <3>1
    <3>3. down' \in [Conns -> Seq(0 .. 3)] /\ out' \in [Conns -> Seq(0 .. 3)]
      BY <2>2, <3>2 DEF Inv, Types
    <3> QED  BY <2>2, <3>3 DEF Inv, Types
  <2>7. Unshared' /\ ClosedEnds'
    BY <1>2, <2>2 DEF Inv, Types, Unshared, ClosedEnds, Held
  <2>8. ASSUME NEW b \in Clients PROVE ClientInv(b)'
    <3>1. ClientInv(b)
      BY DEF Inv, ClientsInv
    <3>2. CASE sock[b] # k
      BY <2>2, <3>1, <3>2, Untouched DEF Inv, Types
    <3>3. CASE sock[b] = k
      <4>1. b = c
        BY <2>1, <2>2, <3>3 DEF Inv, Unshared
      <4>2. /\ buf'[k] = <<>> /\ up'[k] = <<>> /\ got'[c] = got[c]
            /\ sock'[c] = k /\ pc'[c] = "recv" /\ request'[c] = request[c]
        BY <2>1, <2>2, <2>3 DEF Writing, At
      <4>3. Writing(c, k)' \/ Answered(c, k)'
        BY <2>4, <2>5, <4>2 DEF Writing, Answered, At
      <4> QED  BY <2>2, <2>3, <4>1, <4>2, <4>3 DEF ClientInv, Progress
    <3> QED  BY <3>2, <3>3
  <2> QED  BY <2>6, <2>7, <2>8 DEF Inv, ClientsInv
<1> QED  BY <1>1, <1>2 DEF WriteFull
-----------------------------------------------------------------------------
LEMMA InitInv ==
  Init => Inv
<1> SUFFICES ASSUME Init PROVE Inv
  OBVIOUS
<1>1. <<>> \in Seq(Pieces) /\ <<>> \in Seq(0 .. 3)
  OBVIOUS
<1>2. Types
  BY <1>1 DEF Init, Types
<1>3. Unshared /\ ClosedEnds /\ ClientsInv
  BY DEF Init, Unshared, ClosedEnds, ClientsInv, ClientInv
<1> QED  BY <1>2, <1>3 DEF Inv

LEMMA StepInv ==
  Inv /\ [Next]_vars => Inv'
<1> SUFFICES ASSUME Inv, [Next]_vars PROVE Inv'
  OBVIOUS
<1>1. ASSUME NEW c \in Clients,
             \/ Call(c) \/ close(c) \/ ensure_connected(c) \/ sendall(c)
             \/ recv_exact(c) \/ fall_back(c)
      PROVE  Inv'
  BY <1>1, CallKeepsInv, CloseKeepsInv, ConnectKeepsInv, SendKeepsInv, RecvKeepsInv,
     FallBackKeepsInv
<1>2. ASSUME NEW k \in Conns, ReadFull(k) \/ WriteFull(k) PROVE Inv'
  BY <1>2, ReadKeepsInv, WriteKeepsInv
<1>3. ASSUME NEW d \in Daemons,
             Starts(d) \/ Accepts(d) \/ ShutsDown(d) \/ HandleSignal(d) \/ Killed(d)
      PROVE  Inv'
  <2>1. CASE Killed(d)
    BY <2>1, EndsKeepsInv DEF Killed, Inv, Types
  <2> QED  BY <1>3, <2>1, StartsKeepsInv, AcceptsKeepsInv, ShutsDownKeepsInv, SignalKeepsInv
<1>4. CASE UNCHANGED vars
  BY <1>4, MainKeepsInv DEF vars, daemon_vars, Inv, Types
<1> QED  BY <1>1, <1>2, <1>3, <1>4 DEF Next

(* The invariant holds, whatever ends when (Next).                         *)
THEOREM InvHolds == Spec => []Inv
  BY InitInv, StepInv, PTL DEF Spec

(* However many clients, daemons and connections there are, and whoever    *)
(* goes away when: a client never receives a byte that is not of its own   *)
(* answer (FirewallClient and HandleClient()).                             *)
THEOREM InStepHolds == Spec => []InStep
<1>1. Inv => InStep
  <2> SUFFICES ASSUME Inv, NEW c \in Clients, sock[c] # None
               PROVE  LET k        == sock[c]
                          asked    == buf[k] \o up[k]
                          answered == got[c] \o down[k] \o out[k]
                      IN  /\ \A b \in Clients : sock[b] = k => b = c
                          /\ pc[c] # "recv" => asked = <<>> /\ answered = <<>>
                          /\ pc[c] = "recv" =>
                               \/ asked = request[c] /\ answered = <<>>
                               \/ asked = <<>> /\ answered = Response(request[c])
                               \/ /\ peer[k] = None /\ asked = <<>>
                                  /\ answered \in {<<>>, <<Response(request[c])[1]>>}
    BY DEF InStep
  <2> DEFINE k == sock[c]
             asked == buf[k] \o up[k]
             answered == got[c] \o down[k] \o out[k]
             r == request[c]
  <2>1. \A b \in Clients : sock[b] = k => b = c
    BY DEF Inv, Unshared
  <2>2. ClientInv(c)
    BY DEF Inv, ClientsInv
  <2>3. CASE pc[c] # "recv"
    <3>1. buf[k] = <<>> /\ up[k] = <<>> /\ got[c] = <<>> /\ down[k] = <<>> /\ out[k] = <<>>
      BY <2>2, <2>3 DEF ClientInv, Unused, At
    <3>2. asked = <<>> /\ answered = <<>>
      BY <3>1, EmptyPieces
    <3> QED  BY <2>1, <2>3, <3>2
  <2>4. CASE pc[c] = "recv"
    <3>1. Progress(c, k) /\ r \in Requests
      BY <2>2, <2>4 DEF ClientInv, Inv, Types
    <3>2. r = <<r[1], r[2]>> /\ Response(r) = <<First(c), Second(c)>>
      BY <3>1, RequestPieces, ResponseBytes DEF First, Second
    <3>3. CASE Reading(c, k)
      <4>1. asked = <<r[1], r[2]>> /\ answered = <<>>
        <5>1. r \in Seq(Pieces)
          BY <3>1, RequestPieces
        <5>2. answered = <<>>
          BY <3>3, EmptyPieces DEF Reading, At
        <5>3. CASE buf[k] = <<>> /\ up[k] = r
          BY <3>2, <5>1, <5>2, <5>3, ConcatEmptySeq
        <5>4. CASE buf[k] = <<r[1]>> /\ up[k] = <<r[2]>>
          BY <5>2, <5>4, Pasted
        <5> QED  BY <3>3, <5>3, <5>4 DEF Reading, At
      <4> QED  BY <2>1, <2>4, <3>2, <4>1
    <3>4. CASE Writing(c, k) \/ Answered(c, k)
      <4>1. asked = <<>> /\ answered = <<First(c), Second(c)>>
        BY <3>4, Pasted, EmptyPieces DEF Writing, Answered, At
      <4> QED  BY <2>1, <2>4, <3>2, <4>1
    <3>5. CASE CutShort(c, k)
      <4>1. asked = <<>> /\ answered \in {<<>>, <<First(c)>>} /\ peer[k] = None
        BY <3>5, Pasted, EmptyPieces DEF CutShort, At
      <4> QED  BY <2>1, <2>4, <4>1 DEF First
    <3> QED  BY <3>1, <3>3, <3>4, <3>5 DEF Progress
  <2> QED  BY <2>3, <2>4
<1> QED  BY <1>1, InvHolds, PTL

(* A call that returns answers its own request with the policy's verdict,  *)
(* from whichever daemon, connection or fallback it comes, and nothing     *)
(* else changes what a caller sees (is_allowed() and _firewall_allowed()). *)
THEOREM Refinement == Spec => ImplementsService
<1>1. Init => Service!ServiceInit
  BY DEF Init, Service!ServiceInit
<1>2. Inv /\ [Next]_vars => [Service!ServiceNext]_<<request, verdict>>
  <2> SUFFICES ASSUME Inv, Next
               PROVE  Service!ServiceNext \/ UNCHANGED <<request, verdict>>
    BY DEF vars, client_vars
  <2>1. ASSUME NEW c \in Clients, Call(c) PROVE Service!Ask(c)
    <3>1. request[c] = None
      BY <2>1 DEF Call, Inv, ClientsInv, ClientInv
    <3> QED  BY <2>1, <3>1 DEF Call, Service!Ask
  <2>2. ASSUME NEW c \in Clients, close(c) PROVE Service!Leave(c)
    BY <2>2 DEF close, returns, Service!Leave
  <2>3. ASSUME NEW c \in Clients, ensure_connected(c) \/ sendall(c)
        PROVE  UNCHANGED <<request, verdict>>
    BY <2>3 DEF ensure_connected, sendall
  <2>4. ASSUME NEW c \in Clients, fall_back(c) PROVE Service!Answer(c)
    <3>1. request[c] \in Requests /\ request[c] # None
      BY <2>4 DEF fall_back, Inv, Types, ClientsInv, ClientInv
    <3>2. IngressZone[request[c]] = zone_for_ip(request[c][1][1])
      BY <3>1, RequestAssumption, ValidSource
    <3> QED  BY <2>4, <3>1, <3>2 DEF fall_back, returns, Service!Answer, Service!zone_for_ip,
               Service!firewall_allowed, zone_for_ip, firewall_allowed
  <2>5. ASSUME NEW c \in Clients, recv_exact(c)
        PROVE  Service!Answer(c) \/ UNCHANGED <<request, verdict>>
    <3>1. CASE down[sock[c]] = <<>> \/ got[c] = <<>>
      BY <2>5, <3>1 DEF recv_exact
    <3>2. CASE down[sock[c]] # <<>> /\ got[c] # <<>>
      <4>1. pc[c] = "recv" /\ returns(c, Head(got[c]) = 1)
        BY <2>5, <3>2 DEF recv_exact
      <4>2. request[c] \in Requests /\ got[c] = <<First(c)>>
        BY <3>2, <4>1, ReceivesItsAnswer
      <4>3. (Head(got[c]) = 1)
              = firewall_allowed(zone_for_ip(request[c][1][1]), zone_for_ip(request[c][1][2]),
                                 request[c][2])
        <5>1. Head(got[c]) = First(c)
          BY <4>2
        <5> QED  BY <4>2, <5>1, ResponseIsVerdict DEF First
      <4>4. request[c] # None
        BY <4>2, IPCAssumption
      <4> QED  BY <4>1, <4>3, <4>4 DEF returns, Service!Answer, Service!zone_for_ip,
                 Service!firewall_allowed, zone_for_ip, firewall_allowed
    <3> QED  BY <3>1, <3>2
  <2>6. ASSUME NEW k \in Conns, ReadFull(k) \/ WriteFull(k) PROVE UNCHANGED <<request, verdict>>
    BY <2>6 DEF ReadFull, WriteFull, client_vars
  <2>7. ASSUME NEW d \in Daemons,
               Starts(d) \/ Accepts(d) \/ ShutsDown(d) \/ HandleSignal(d) \/ Killed(d)
        PROVE  UNCHANGED <<request, verdict>>
    BY <2>7 DEF Starts, Accepts, ShutsDown, HandleSignal, Killed, client_vars
  <2> QED  BY <2>1, <2>2, <2>3, <2>4, <2>5, <2>6, <2>7 DEF Next, Service!ServiceNext
<1> QED  BY <1>1, <1>2, InvHolds, PTL DEF Spec, ImplementsService, Service!ServiceSpec
=============================================================================
