----------------------------- MODULE KeyRelease -----------------------------
(***************************************************************************)
(* KrsClient.release (src/src/krs_client.py) composed with the service of  *)
(* KrsServer through its TLS listener (serve in src/src/krs_server.py).    *)
(*                                                                         *)
(* A handler is here the thread of one connection and stands for the call  *)
(* of release that opened it: a call makes one connection, sends one       *)
(* request ("Connection: close") and is never repeated with the same nonce.*)
(* The listening socket is the wrapped one, so that the TLS handshake runs *)
(* in the accept loop, for one connection at a time and without a timeout; *)
(* connections behind it wait in the kernel's backlog.  The client waits   *)
(* 30 s for each operation on its socket and closes it on every error.     *)
(*                                                                         *)
(* Faults, in behaviours that are not quiet: a timeout where the client    *)
(* waits, a connection that is reset (also while the reply is under way),  *)
(* a guest that vanishes without closing its socket, a restart of the KRS, *)
(* and an end of the TLS connection that hands a call the reply to another *)
(* one: the checks of release must tell them apart.                        *)
(***************************************************************************)
EXTENDS KrsServer

CONSTANTS
    XKeyOf, KemKeyOf,  \* the ephemeral keys of each call's guest
    ReportOf,          \* the report bootstrap fetched for it
    DrawnNonce,        \* the nonce release draws for itself
    PinChoices,        \* what the operator may have pinned, per call
    Backlog            \* request_queue_size of the listening socket

Pins == [fpr : BOOLEAN,     \* the certificate fingerprint is the server's
         ed : BOOLEAN,      \* the Ed25519 key is the KRS's
         mldsa : BOOLEAN]   \* the ML-DSA key is the KRS's

(* Nonces are fresh for every call; its keys and report are the caller's,  *)
(* who may call again with those he has.  liboqs makes usable keys.        *)
ASSUME KeyReleaseAssumption ==
    /\ XKeyOf \in [Handlers -> XKeys]
    /\ KemKeyOf \in [Handlers -> KemKeys \ BadKemKeys]
    /\ ReportOf \in [Handlers -> Reports]
    /\ DrawnNonce \in [Handlers -> Nonces]
    /\ \A c, d \in Handlers : c # d => DrawnNonce[c] # DrawnNonce[d]
    /\ PinChoices \subseteq [Handlers -> Pins]
    /\ Backlog \in Nat \ {0}

VARIABLES
    quiet,   \* no fault happens in this behaviour
    pins,    \* the pins each client was configured with
    cpc,     \* where each call of release is
    conn,    \* its connection, as the server has it
    queue,   \* connections the kernel has completed and serve not accepted
    reply    \* what the connection brings the client

netVars == <<quiet, pins, cpc, conn, queue, reply>>
allVars == <<vars, netVars>>

ClientStates == {"start", "connecting", "secured", "sent",
                 "done", "failed", "vanished"}
ConnStates == {"none", "queued", "handshake", "open", "request", "serving",
               "closed"}
(* A reply under way; a grant is named by its place in the KRS's history.  *)
Replies == [kind : {"none", "eof", "denied", "grant"}, grant : Nat]
Reply(kind) == [kind |-> kind, grant |-> 0]

KRInit ==
    /\ Init
    /\ quiet \in BOOLEAN
    /\ pins \in PinChoices
    /\ cpc = [c \in Handlers |-> "start"]
    /\ conn = [c \in Handlers |-> "none"]
    /\ queue = << >>
    /\ reply = [c \in Handlers |-> Reply("none")]

Client(c, s) == cpc' = [cpc EXCEPT ![c] = s]
Server(c, s) == conn' = [conn EXCEPT ![c] = s]

(* Mutated: release does not close its socket when it raises.              *)
PeerClosedNoFinally(c) == reply[c].kind = "eof"

(* The peer's end of the connection is closed: the connection was reset,   *)
(* or the call is over.  wrap_socket has detached the raw socket, so that  *)
(* raw.close() does nothing by then; the TLS socket is closed when it is   *)
(* collected with the call's frame, which is taken to be at once.          *)
PeerClosed(c) == cpc[c] \in {"done", "failed"} \/ reply[c].kind = "eof"

-----------------------------------------------------------------------------
(* create_connection; with a full backlog the SYN is not answered.         *)
Connect(c) ==
    /\ cpc[c] = "start"
    /\ Len(queue) < Backlog
    /\ Client(c, "connecting")
    /\ Server(c, "queued")
    /\ queue' = Append(queue, c)
    /\ UNCHANGED <<vars, quiet, pins, reply>>

(* The accept loop takes the next connection and starts its handshake.     *)
Accept ==
    /\ queue # << >>
    /\ \A c \in Handlers : conn[c] # "handshake"
    /\ Server(Head(queue), "handshake")
    /\ queue' = Tail(queue)
    /\ UNCHANGED <<vars, quiet, pins, cpc, reply>>

(* The handshake completes and a handler thread is started.                *)
HandshakeDone(c) ==
    /\ conn[c] = "handshake"
    /\ cpc[c] = "connecting"
    /\ ~PeerClosed(c)
    /\ Client(c, "secured")
    /\ Server(c, "open")
    /\ UNCHANGED <<vars, quiet, pins, queue, reply>>

(* The peer is gone: accept raises an OSError, which the loop ignores.     *)
HandshakeError(c) ==
    /\ conn[c] = "handshake"
    /\ PeerClosed(c)
    /\ Server(c, "closed")
    /\ UNCHANGED <<vars, quiet, pins, cpc, queue, reply>>

(* The fingerprint is compared before anything is sent.                    *)
SendRequest(c) ==
    /\ cpc[c] = "secured"
    /\ ~PeerClosed(c)
    /\ \/ /\ pins[c].fpr
          /\ Client(c, "sent")
          /\ Server(c, "request")
       \/ /\ ~pins[c].fpr
          /\ Client(c, "failed")
          /\ UNCHANGED conn
    /\ UNCHANGED <<vars, quiet, pins, queue, reply>>

(* Mutated: the report's report_data is sent for the nonce.                *)
RequestOfReportData(c) ==
    [path_ok |-> TRUE, parses |-> TRUE, x |-> XKeyOf[c], kem |-> KemKeyOf[c],
     nonce |-> ReportOf[c].report_data, report |-> ReportOf[c]]

(* The body release sends.                                                 *)
RequestOf(c) ==
    [path_ok |-> TRUE, parses |-> TRUE, x |-> XKeyOf[c], kem |-> KemKeyOf[c],
     nonce |-> DrawnNonce[c], report |-> ReportOf[c]]

(* The handler thread reads the request.                                   *)
ServeRequest(c) ==
    /\ conn[c] = "request"
    /\ ReceiveRequest(c, RequestOf(c))
    /\ Server(c, "serving")
    /\ UNCHANGED <<quiet, pins, cpc, queue, reply>>

(* The thread finds the connection closed before a request came.           *)
HandlerEof(c) ==
    /\ conn[c] = "open"
    /\ PeerClosed(c)
    /\ Server(c, "closed")
    /\ UNCHANGED <<vars, quiet, pins, cpc, queue, reply>>

(* A step of do_POST; with its last one the reply is written, on this      *)
(* thread's own connection, and the connection is closed.  It is lost if   *)
(* the connection was reset or the call was given another reply.           *)
Serve(c) ==
    /\ conn[c] = "serving"
    /\ Step(c)
    /\ IF pc'[c] = "idle"
       THEN /\ Server(c, "closed")
            /\ reply' = IF reply[c].kind # "none" THEN reply
                        ELSE [reply EXCEPT ![c] =
                                IF grants' = grants THEN Reply("denied")
                                ELSE [kind |-> "grant", grant |-> Len(grants')]]
       ELSE UNCHANGED <<conn, reply>>
    /\ UNCHANGED <<quiet, pins, cpc, queue>>

(* Mutated: the nonce is left out of what is checked.                      *)
ReplyOpensAnyNonce(c, nonce) ==
    LET g == grants[reply[c].grant] IN g.x = XKeyOf[c] /\ g.kem = KemKeyOf[c]

(* The released CEK is for this nonce and unwraps with the guest's keys.   *)
ReplyOpens(c, nonce) ==
    LET g == grants[reply[c].grant] IN
    g.nonce = nonce /\ g.x = XKeyOf[c] /\ g.kem = KemKeyOf[c]

(* Mutated: the signature is checked over the nonce in the report.         *)
ReplyAcceptedBound(c) ==
    /\ reply[c].kind = "grant"
    /\ pins[c].ed /\ pins[c].mldsa
    /\ ReplyOpens(c, ReportOf[c].report_data[3])

(* What release checks of a complete reply: "verified", both halves of the *)
(* signature (over the measurement and this call's nonce), the nonce echo, *)
(* and that the CEK unwraps with this guest's keys.                        *)
ReplyAccepted(c) ==
    /\ reply[c].kind = "grant"
    /\ pins[c].ed /\ pins[c].mldsa
    /\ ReplyOpens(c, DrawnNonce[c])

(* Mutated: a connection that ends without a reply is tried once more.     *)
ReadReplyRetries(c) ==
    /\ cpc[c] = "sent"
    /\ reply[c].kind # "none"
    /\ \/ /\ reply[c].kind # "eof"
          /\ Client(c, IF ReplyAccepted(c) THEN "done" ELSE "failed")
          /\ UNCHANGED <<conn, reply>>
       \/ /\ reply[c].kind = "eof"
          /\ Client(c, "start")
          /\ Server(c, "none")
          /\ reply' = [reply EXCEPT ![c] = Reply("none")]
    /\ UNCHANGED <<vars, quiet, pins, queue>>

(* The reply is read to its end and checked.  An end without a complete    *)
(* body is a JSON error.                                                   *)
ReadReply(c) ==
    /\ cpc[c] = "sent"
    /\ reply[c].kind # "none"
    /\ Client(c, IF ReplyAccepted(c) THEN "done" ELSE "failed")
    /\ UNCHANGED <<vars, quiet, pins, conn, queue, reply>>

(* An operation before the reply meets a connection that was reset.        *)
ConnectionLost(c) ==
    /\ cpc[c] \in {"connecting", "secured"}
    /\ reply[c].kind = "eof"
    /\ Client(c, "failed")
    /\ UNCHANGED <<vars, quiet, pins, conn, queue, reply>>

-----------------------------------------------------------------------------
(* Mutated: only the connection attempt has a timeout.                     *)
TimeoutConnectOnly(c) ==
    /\ ~quiet
    /\ cpc[c] = "start"
    /\ Client(c, "failed")
    /\ UNCHANGED <<vars, quiet, pins, conn, queue, reply>>

(* 30 s without an answer to the connection attempt, in the handshake or   *)
(* from recv: the call raises and closes its socket.                       *)
Timeout(c) ==
    /\ ~quiet
    /\ cpc[c] \in {"start", "connecting", "sent"}
    /\ Client(c, "failed")
    /\ UNCHANGED <<vars, quiet, pins, conn, queue, reply>>

(* The guest's host dies; its sockets are never closed.                    *)
Vanish(c) ==
    /\ ~quiet
    /\ cpc[c] \in {"connecting", "secured", "sent"}
    /\ Client(c, "vanished")
    /\ UNCHANGED <<vars, quiet, pins, conn, queue, reply>>

(* The connection is reset; a reply under way is lost or cut short.        *)
Reset(c) ==
    /\ ~quiet
    /\ cpc[c] \in {"connecting", "secured", "sent"}
    /\ reply' = [reply EXCEPT ![c] = Reply("eof")]
    /\ UNCHANGED <<vars, quiet, pins, cpc, conn, queue>>

(* The call is brought the reply to some call, made earlier or elsewhere,  *)
(* instead of its own: a front end with the pinned certificate mixes them  *)
(* up.  What the KRS signed in it is unaltered.                            *)
Misdeliver(c) ==
    /\ ~quiet
    /\ cpc[c] = "sent"
    /\ reply[c].kind # "eof"
    /\ \E i \in 1..Len(grants) :
         reply' = [reply EXCEPT ![c] = [kind |-> "grant", grant |-> i]]
    /\ UNCHANGED <<vars, quiet, pins, cpc, conn, queue>>

(* The KRS restarts: every open connection ends, replies already written   *)
(* reach their clients.                                                    *)
RestartKrs ==
    /\ ~quiet
    /\ Restart
    /\ conn' = [c \in Handlers |-> IF conn[c] = "none" THEN "none" ELSE "closed"]
    /\ queue' = << >>
    /\ reply' = [c \in Handlers |->
                   IF reply[c].kind = "none" /\ conn[c] # "none"
                   THEN Reply("eof")
                   ELSE reply[c]]
    /\ UNCHANGED <<quiet, pins, cpc>>

ClientStep(c) ==
    \/ Connect(c) \/ SendRequest(c) \/ ReadReply(c) \/ ConnectionLost(c)

HandlerStep(c) == ServeRequest(c) \/ HandlerEof(c) \/ Serve(c)

Fault(c) == Timeout(c) \/ Vanish(c) \/ Reset(c) \/ Misdeliver(c)

KRNext ==
    \/ Accept \/ RestartKrs
    \/ \E c \in Handlers :
         \/ HandshakeDone(c) \/ HandshakeError(c)
         \/ ClientStep(c) \/ HandlerStep(c) \/ Fault(c)

(* The accept loop and running threads are scheduled, a client that can go *)
(* on does, and one that waits long enough times out.  No fault is fair.   *)
KRSpec ==
    /\ KRInit /\ [][KRNext]_allVars
    /\ WF_allVars(Accept)
    /\ \A c \in Handlers :
         /\ WF_allVars(HandshakeDone(c)) /\ WF_allVars(HandshakeError(c))
         /\ WF_allVars(ClientStep(c)) /\ WF_allVars(HandlerStep(c))
         /\ WF_allVars(Timeout(c))

-----------------------------------------------------------------------------
(* Type invariant of the calls, their connections and the backlog.         *)
KRTypeOK ==
    /\ TypeOK
    /\ quiet \in BOOLEAN
    /\ pins \in [Handlers -> Pins]
    /\ cpc \in [Handlers -> ClientStates]
    /\ conn \in [Handlers -> ConnStates]
    /\ queue \in Seq(Handlers)
    /\ reply \in [Handlers -> Replies]

GrantsFor(c) == {i \in 1..Len(grants) : grants[i].nonce = DrawnNonce[c]}

(* The grant was made for this call's own request.                         *)
GrantMadeFor(c, g) ==
    /\ g.x = XKeyOf[c] /\ g.kem = KemKeyOf[c]
    /\ g.nonce = DrawnNonce[c] /\ g.report = ReportOf[c]

(* A call that returns a CEK had every pin right, and the reply it took is *)
(* the one the KRS made for its own request, although it may be handed the *)
(* reply to any other call, also to an earlier one with the same keys      *)
(* (release, "Fail-closed on any check").                                  *)
CekFromOwnGrant ==
    \A c \in Handlers : cpc[c] = "done" =>
        /\ pins[c] = [fpr |-> TRUE, ed |-> TRUE, mldsa |-> TRUE]
        /\ reply[c].kind = "grant"
        /\ GrantMadeFor(c, grants[reply[c].grant])

(* A call makes the KRS release at most one key, also when the cache is    *)
(* cleared or the KRS restarts in between: release never sends its nonce   *)
(* twice.                                                                  *)
OneGrantPerCall ==
    \A c \in Handlers : \A i, j \in GrantsFor(c) : i = j

(* Every call of release ends, with the CEK or an error, also when the     *)
(* accept loop is stuck: each of its waits has the socket's timeout.       *)
EveryCallEnds ==
    \A c \in Handlers : <>(cpc[c] \in {"done", "failed", "vanished"})

(* The accept loop and a handler thread always get done with a connection, *)
(* except when the guest vanished before its request was complete: the     *)
(* server's sockets have no timeout.                                       *)
ServerFreed ==
    \A c \in Handlers :
        (conn[c] \in {"handshake", "open", "request", "serving"})
            ~> (\/ conn[c] \notin {"handshake", "open", "request", "serving"}
                \/ cpc[c] = "vanished" /\ conn[c] \in {"handshake", "open"})

(* The end-to-end promise of the self test, with calls and wrong pins side *)
(* by side: without faults the development KRS serves every call, and the  *)
(* call returns the CEK exactly if its pins are right.                     *)
QuietCallsSucceed ==
    \A c \in Handlers :
        (quiet /\ ~Production) ~>
            (cpc[c] = IF pins[c] = [fpr |-> TRUE, ed |-> TRUE, mldsa |-> TRUE]
                      THEN "done" ELSE "failed")

(* Inductive strengthening.  A connection that waits in the backlog waits  *)
(* there once.                                                             *)
QueueInv ==
    \A i \in 1..Len(queue) :
        /\ conn[queue[i]] = "queued"
        /\ \A j \in 1..Len(queue) : queue[i] = queue[j] => i = j

(* A call opens one connection and sends one request, and no reply comes   *)
(* before it; a handler works on the request of its own connection.        *)
ConnInv ==
    \A c \in Handlers :
        /\ cpc[c] = "start" => conn[c] = "none"
        /\ cpc[c] = "secured" =>
              reply[c].kind = "eof" \/ (conn[c] = "open" /\ reply[c].kind = "none")
        /\ cpc[c] \in {"start", "connecting", "secured"} =>
              /\ reply[c].kind \notin {"denied", "grant"}
              /\ conn[c] \notin {"request", "serving"}
        /\ pc[c] # "idle" => conn[c] = "serving" /\ req[c] = RequestOf(c)

(* Every grant was made for some call's own request, on a connection that  *)
(* is closed since; a reply that brings a grant brings one of them.        *)
GrantInv ==
    /\ \A i \in 1..Len(grants) :
          \E c \in Handlers : conn[c] = "closed" /\ GrantMadeFor(c, grants[i])
    /\ \A c \in Handlers :
          reply[c].kind = "grant" => reply[c].grant \in 1..Len(grants)

CallInv == QueueInv /\ ConnInv /\ GrantInv /\ OneGrantPerCall

(* Nothing is sent before the fingerprint was compared.                    *)
PinInv ==
    \A c \in Handlers : cpc[c] \in {"sent", "done"} => pins[c].fpr

(* In production a call returns the CEK only if the report of its own      *)
(* guest entitles it: a genuine report of an allowed measurement, bound to *)
(* the guest's keys and to the nonce release drew.                         *)
CekOnlyIfEntitled ==
    Production =>
        \A c \in Handlers : cpc[c] = "done" =>
            Entitles(ReportOf[c], XKeyOf[c], KemKeyOf[c], DrawnNonce[c])

(* The comment on the binding in bootstrap (cloud_protection.py:656), "MUST*)
(* match krs_server.BIND_TAG / report_data_for(): sha256(client_x_pub ||   *)
(* client_kem_pub || nonce || TAG)": the report a handler received is      *)
(* bound to the keys and the nonce that came with it.                      *)
ReportMatchesRequest ==
    \A c \in Handlers : pc[c] # "idle" =>
        req[c].report.report_data = <<req[c].x, req[c].kem, req[c].nonce>>
=============================================================================
