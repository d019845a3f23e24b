----------------------------- MODULE FirewallIPC -----------------------------
(***************************************************************************)
(* The verdict service across its Unix socket: FirewallClient, as the      *)
(* controller's _firewall_allowed() uses it, and the daemon processes,     *)
(* each with its main thread and one thread per connection. One action per *)
(* system call that can block, fail or be overtaken.                       *)
(*                                                                         *)
(* A connection is a byte stream each way. A request is cut in two where a *)
(* read() may end (addresses, protocol), an answer into its two bytes;     *)
(* send() takes a whole request, read(), recv() and write() may each move  *)
(* one piece only. What was written before the writer went away can still  *)
(* be read.                                                                *)
(***************************************************************************)
EXTENDS ZonePolicy, Sequences, Naturals

CONSTANTS
  Clients,      \* processes that use a FirewallClient
  Daemons,      \* daemon processes started on the one socket path
  Conns,        \* bound: connections that exist at a time
  Requests,     \* << <<src_ip, dst_ip>>, is_icmp >>
  IngressZone,  \* request -> the zone whose port its packet came in by
  Kills         \* whether daemons may be killed (SIGKILL, power, the OOM killer)

ASSUME IPCAssumption ==
  /\ Requests \subseteq (Ips \X Ips) \X BOOLEAN
  /\ None \notin Clients \cup Daemons \cup Conns \cup Requests
  /\ Kills \in BOOLEAN

(* Only packets that passed the anti-spoofing check are asked about: the   *)
(* daemon classifies by address, the fallback takes the ingress zone.      *)
ASSUME RequestAssumption ==
  \A r \in Requests : source_ip_valid_for_zone(r[1][1], IngressZone[r])

VARIABLES
  path,       \* the daemon whose socket the path names, or None
  main,       \* daemon -> where its main thread is
  shutdown,   \* daemon -> g_shutdown_requested
  peer,       \* connection -> the daemon at its other end, or None once it closed
  thread,     \* connection -> "backlog", "read" or "write"
  buf,        \* connection -> what its thread read of the next request
  out,        \* connection -> what its thread has yet to write
  up, down,   \* connection -> bytes under way to the daemon, to the client
  sock,       \* client -> its connection, or None
  pc,         \* client -> "idle", "ask", "recv" or "fall_back"
  request,    \* client -> the request it calls with, or None
  got,        \* client -> what it received of the answer
  verdict     \* client -> what its last call returned; None during one

daemon_vars == <<path, main, shutdown>>
stream_vars == <<buf, out, up, down>>
client_vars == <<pc, request, got, verdict>>
vars == <<daemon_vars, peer, thread, stream_vars, sock, client_vars>>

Init ==
  /\ path = None
  /\ main = [d \in Daemons |-> "down"]
  /\ shutdown = [d \in Daemons |-> FALSE]
  /\ peer = [k \in Conns |-> None]
  /\ thread = [k \in Conns |-> "backlog"]
  /\ buf = [k \in Conns |-> <<>>] /\ out = [k \in Conns |-> <<>>]
  /\ up = [k \in Conns |-> <<>>] /\ down = [k \in Conns |-> <<>>]
  /\ sock = [c \in Clients |-> None]
  /\ pc = [c \in Clients |-> "idle"]
  /\ request = [c \in Clients |-> None]
  /\ got = [c \in Clients |-> <<>>]
  /\ verdict = [c \in Clients |-> None]

(* The client's end of a connection is open.                               *)
Held(k) == \E c \in Clients : sock[c] = k

Listening == {"check", "accept", "close"}

(* FilterResponse: the verdict byte and the rule's number.                 *)
Response(r) ==
  << IF Decide(r[1][1], r[1][2], r[2]) THEN 1 ELSE 0, rule_id(r[1][1], r[1][2], r[2]) >>
-----------------------------------------------------------------------------
(* The client, inside _firewall_allowed(). *)

Call(c) ==
  /\ pc[c] = "idle"
  /\ \E r \in Requests : request' = [request EXCEPT ![c] = r]
  /\ pc' = [pc EXCEPT ![c] = "ask"]
  /\ verdict' = [verdict EXCEPT ![c] = None]
  /\ UNCHANGED <<daemon_vars, peer, thread, stream_vars, sock, got>>

(* A path that is missing or names a socket nobody listens on refuses.     *)
ensure_connected(c) ==
  /\ pc[c] = "ask" /\ sock[c] = None
  /\ IF path # None /\ main[path] \in Listening
       THEN \E k \in Conns :
              /\ peer[k] = None /\ ~Held(k)
              /\ sock' = [sock EXCEPT ![c] = k]
              /\ peer' = [peer EXCEPT ![k] = path]
              /\ UNCHANGED pc
       ELSE /\ pc' = [pc EXCEPT ![c] = "fall_back"]
            /\ UNCHANGED <<sock, peer>>
  /\ UNCHANGED <<daemon_vars, thread, stream_vars, request, got, verdict>>

(* Fault: the socket that failed is used again.                            *)
drop_nothing(c) ==
  /\ pc' = [pc EXCEPT ![c] = "fall_back"]
  /\ got' = [got EXCEPT ![c] = <<>>]
  /\ UNCHANGED sock

(* except OSError: the stale socket is dropped so the next call reconnects.*)
drop_socket(c) ==
  /\ sock' = [sock EXCEPT ![c] = None]
  /\ pc' = [pc EXCEPT ![c] = "fall_back"]
  /\ got' = [got EXCEPT ![c] = <<>>]

returns(c, allowed) ==
  /\ verdict' = [verdict EXCEPT ![c] = allowed]
  /\ pc' = [pc EXCEPT ![c] = "idle"]
  /\ request' = [request EXCEPT ![c] = None]
  /\ got' = [got EXCEPT ![c] = <<>>]

sendall(c) ==
  /\ pc[c] = "ask" /\ sock[c] # None
  /\ \/ /\ peer[sock[c]] = None
        /\ drop_socket(c)
        /\ UNCHANGED up
     \/ /\ peer[sock[c]] # None
        /\ up' = [up EXCEPT ![sock[c]] = @ \o request[c]]
        /\ pc' = [pc EXCEPT ![c] = "recv"]
        /\ UNCHANGED <<sock, got>>
  /\ UNCHANGED <<daemon_vars, peer, thread, buf, out, down, request, verdict>>

(* Fault: whatever the first recv() returns is taken for the answer.       *)
recv_once(c) ==
  /\ pc[c] = "recv"
  /\ \/ /\ down[sock[c]] # <<>>
        /\ down' = [down EXCEPT ![sock[c]] = Tail(@)]
        /\ returns(c, Head(down[sock[c]]) = 1)
        /\ UNCHANGED sock
     \/ /\ down[sock[c]] = <<>> /\ peer[sock[c]] = None
        /\ drop_socket(c)
        /\ UNCHANGED <<down, request, verdict>>
  /\ UNCHANGED <<daemon_vars, peer, thread, buf, out, up>>

(* Fault: an empty recv() is taken for a short one and tried again.        *)
recv_past_end(c) ==
  /\ pc[c] = "recv" /\ down[sock[c]] # <<>>
  /\ down' = [down EXCEPT ![sock[c]] = Tail(@)]
  /\ IF got[c] = <<>>
       THEN /\ got' = [got EXCEPT ![c] = <<Head(down[sock[c]])>>]
            /\ UNCHANGED <<pc, request, verdict>>
       ELSE returns(c, Head(got[c]) = 1)
  /\ UNCHANGED <<daemon_vars, peer, thread, buf, out, up, sock>>

(* One recv() of the loop in _recv_exact().                                *)
recv_exact(c) ==
  /\ pc[c] = "recv"
  /\ \/ /\ down[sock[c]] # <<>>
        /\ down' = [down EXCEPT ![sock[c]] = Tail(@)]
        /\ IF got[c] = <<>>
             THEN /\ got' = [got EXCEPT ![c] = <<Head(down[sock[c]])>>]
                  /\ UNCHANGED <<pc, request, verdict>>
             ELSE returns(c, Head(got[c]) = 1)
        /\ UNCHANGED sock
     \/ /\ down[sock[c]] = <<>> /\ peer[sock[c]] = None
        /\ drop_socket(c)
        /\ UNCHANGED <<down, request, verdict>>
  /\ UNCHANGED <<daemon_vars, peer, thread, buf, out, up>>

fall_back(c) ==
  /\ pc[c] = "fall_back"
  /\ returns(c, firewall_allowed(IngressZone[request[c]],
                                 zone_for_ip(request[c][1][2]), request[c][2]))
  /\ UNCHANGED <<daemon_vars, peer, thread, stream_vars, sock>>

(* close(), or the end of the client's process, in the middle of a call or *)
(* between two.                                                            *)
close(c) ==
  /\ sock[c] # None
  /\ sock' = [sock EXCEPT ![c] = None]
  /\ down' = [down EXCEPT ![sock[c]] = <<>>]
  /\ returns(c, None)
  /\ UNCHANGED <<daemon_vars, peer, thread, buf, out, up>>
-----------------------------------------------------------------------------
(* The daemon. *)

(* The daemon's ends of some connections close; what they had read or were *)
(* about to write is gone, what they wrote is not.                         *)
Closes(ks) ==
  /\ peer' = [k \in Conns |-> IF k \in ks THEN None ELSE peer[k]]
  /\ thread' = [k \in Conns |-> IF k \in ks THEN "backlog" ELSE thread[k]]
  /\ buf' = [k \in Conns |-> IF k \in ks THEN <<>> ELSE buf[k]]
  /\ out' = [k \in Conns |-> IF k \in ks THEN <<>> ELSE out[k]]
  /\ up' = [k \in Conns |-> IF k \in ks THEN <<>> ELSE up[k]]

(* The process ends: its ends of all its connections close with it.        *)
Ends(d) ==
  /\ main' = [main EXCEPT ![d] = "down"]
  /\ shutdown' = [shutdown EXCEPT ![d] = FALSE]
  /\ Closes({k \in Conns : peer[k] = d})

Goes(d, from, to) == main[d] = from /\ main' = [main EXCEPT ![d] = to]

(* A connection's thread in HandleClient(): it reads until it has a whole  *)
(* request, decides, and writes; it ends when the client is gone.          *)
ReadFull(k) ==
  /\ peer[k] # None /\ thread[k] = "read"
  /\ \/ /\ up[k] # <<>>
        /\ up' = [up EXCEPT ![k] = Tail(@)]
        /\ LET read == Append(buf[k], Head(up[k]))
           IN  IF Len(read) < 2
                 THEN /\ buf' = [buf EXCEPT ![k] = read]
                      /\ UNCHANGED <<thread, out>>
                 ELSE /\ buf' = [buf EXCEPT ![k] = <<>>]
                      /\ out' = [out EXCEPT ![k] = Response(read)]
                      /\ thread' = [thread EXCEPT ![k] = "write"]
        /\ UNCHANGED peer
     \/ up[k] = <<>> /\ ~Held(k) /\ Closes({k})
  /\ UNCHANGED <<daemon_vars, down, sock, client_vars>>

(* write() to a client that is gone raises SIGPIPE, which nothing handles. *)
WriteFull(k) ==
  /\ peer[k] # None /\ thread[k] = "write"
  /\ \/ /\ Held(k)
        /\ down' = [down EXCEPT ![k] = Append(@, Head(out[k]))]
        /\ out' = [out EXCEPT ![k] = Tail(@)]
        /\ thread' = [thread EXCEPT ![k] = IF Len(out[k]) = 1 THEN "read" ELSE @]
        /\ UNCHANGED <<main, shutdown, peer, buf, up>>
     \/ /\ ~Held(k)
        /\ Ends(peer[k])
        /\ UNCHANGED down
  /\ UNCHANGED <<path, sock, client_vars>>

(* main() up to listen(). bind() fails if another daemon has bound the     *)
(* path since this one unlinked it.                                        *)
Starts(d) ==
  /\ \/ /\ Goes(d, "down", "bind") /\ path' = None
        /\ UNCHANGED <<shutdown, peer, thread, buf, out, up>>
     \/ /\ path = None
        /\ Goes(d, "bind", "check") /\ path' = d
        /\ UNCHANGED <<shutdown, peer, thread, buf, out, up>>
     \/ main[d] = "bind" /\ path # None /\ Ends(d) /\ UNCHANGED path
  /\ UNCHANGED <<down, sock, client_vars>>

Accepts(d) ==
  /\ \/ /\ Goes(d, "check", IF shutdown[d] THEN "close" ELSE "accept")
        /\ UNCHANGED thread
     \/ /\ Goes(d, "accept", "check")
        /\ \E k \in Conns :
             /\ peer[k] = d /\ thread[k] = "backlog"
             /\ thread' = [thread EXCEPT ![k] = "read"]
  /\ UNCHANGED <<path, shutdown, peer, stream_vars, sock, client_vars>>

(* After the loop: connections not yet accepted are closed, then the path  *)
(* is unlinked, whoever bound it, and the process ends with its threads.   *)
ShutsDown(d) ==
  /\ \/ /\ Goes(d, "close", "unlink")
        /\ Closes({k \in Conns : peer[k] = d /\ thread[k] = "backlog"})
        /\ UNCHANGED <<path, shutdown>>
     \/ main[d] = "unlink" /\ path' = None /\ Ends(d)
  /\ UNCHANGED <<down, sock, client_vars>>

(* SIGINT or SIGTERM: accept() returns EINTR if it blocks already; nothing *)
(* is interrupted if the flag was checked and accept() is yet to block.    *)
HandleSignal(d) ==
  /\ main[d] \in {"bind", "check", "accept"}
  /\ shutdown' = [shutdown EXCEPT ![d] = TRUE]
  /\ \/ Goes(d, "accept", "close")
     \/ UNCHANGED main
  /\ UNCHANGED <<path, peer, thread, stream_vars, sock, client_vars>>

Killed(d) ==
  /\ Kills /\ main[d] # "down"
  /\ Ends(d)
  /\ UNCHANGED <<path, down, sock, client_vars>>

ClientStep(c) == ensure_connected(c) \/ sendall(c) \/ recv_exact(c) \/ fall_back(c)
MainStep(d) == Accepts(d) \/ ShutsDown(d) \/ (main[d] # "down" /\ Starts(d))
ThreadStep(k) == ReadFull(k) \/ WriteFull(k)

Next ==
  \/ \E c \in Clients : Call(c) \/ close(c) \/ ensure_connected(c) \/ sendall(c)
                        \/ recv_exact(c) \/ fall_back(c)
  \/ \E k \in Conns : ReadFull(k) \/ WriteFull(k)
  \/ \E d \in Daemons : Starts(d) \/ Accepts(d) \/ ShutsDown(d) \/ HandleSignal(d)
                        \/ Killed(d)

(* Processes and threads that can run do, and a call that was made goes    *)
(* on. Nobody has to call, start a daemon, signal or kill one.             *)
Spec ==
  /\ Init /\ [][Next]_vars
  /\ \A c \in Clients : WF_vars(ClientStep(c))
  /\ \A d \in Daemons : WF_vars(MainStep(d))
  /\ \A k \in Conns : WF_vars(ThreadStep(k))
-----------------------------------------------------------------------------
Service == INSTANCE VerdictService WITH asking <- request

(* However the answer is cut into pieces, and whatever dies in between, a  *)
(* call returns the policy's verdict for its own request                   *)
(* (FirewallClient.is_allowed(), HandleClient() and _firewall_allowed()).  *)
ImplementsService == Service!ServiceSpec

(* Client and daemon never get out of step: no two clients share a         *)
(* connection, one that is kept for the next call holds nothing of the     *)
(* last one, and during a call what is on it is the request or its own     *)
(* answer, whole while the daemon lives and cut short only where it died   *)
(* (sendall(), _recv_exact(), ReadFull() and WriteFull()).                 *)
InStep ==
  \A c \in Clients : sock[c] # None =>
    LET k        == sock[c]
        asked    == buf[k] \o up[k]
        answered == got[c] \o down[k] \o out[k]
    IN  /\ \A b \in Clients : sock[b] = k => b = c
        /\ pc[c] # "recv" => asked = <<>> /\ answered = <<>>
        /\ pc[c] = "recv" =>
             \/ asked = request[c] /\ answered = <<>>
             \/ asked = <<>> /\ answered = Response(request[c])
             \/ /\ peer[k] = None /\ asked = <<>>
                /\ answered \in {<<>>, <<Response(request[c])[1]>>}

(* Every call returns, though recv() has no timeout: a daemon answers or   *)
(* its end closes (FirewallClient.is_allowed()).                           *)
CallsReturn == \A c \in Clients : pc[c] # "idle" ~> pc[c] = "idle"

(* Once a daemon holds the path for good, calls stop failing: the first    *)
(* one that met a stale socket dropped it (is_allowed() and                *)
(* _ensure_connected()).                                                   *)
Reconnects ==
  \A c \in Clients, d \in Daemons :
    <>[](path = d /\ main[d] \in Listening) => <>[](pc[c] # "fall_back")

(* The comment on the accept loop: each connection is handled              *)
(* independently and cleans itself up on disconnect. So where nothing      *)
(* kills daemons, one that serves does so until it is told to stop.        *)
ServesUntilTold ==
  [][\A d \in Daemons : main[d] \in Listening /\ ~shutdown[d] => main'[d] # "down"]_vars

(* The comment on sigaction(): without SA_RESTART, accept() returns EINTR  *)
(* and the loop exits. So a daemon that is told to stop does.              *)
SignalEndsDaemon == \A d \in Daemons : shutdown[d] ~> main[d] = "down"
=============================================================================
